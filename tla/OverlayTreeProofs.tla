--------------------------- MODULE OverlayTreeProofs ---------------------------
(***************************************************************************)
(* Theorems about OverlayTree for any paths, however deep, any directories  *)
(* to start with and any contents, also where the instances for TLC leave   *)
(* out what is renamed again or has gaps.                                   *)
(***************************************************************************)
EXTENDS OverlayTree, SequenceTheorems, WellFoundedInduction, TLAPS

-----------------------------------------------------------------------------
(***************************************************************************)
(* Paths.                                                                   *)
(***************************************************************************)

\* A path is a sequence of names that is not empty, and what it starts with is one.
LEMMA PathFacts ==
    ASSUME NEW p \in Paths
    PROVE  /\ p \in Seq(Names) /\ Len(p) \in Nat /\ Len(p) >= 1
           /\ \A i \in 1 .. Len(p) : SubSeq(p, 1, i) \in Paths
<1>1. p \in Seq(Names) /\ p # Root
  BY PathsAssumption
<1>2. QED
  BY <1>1, PathsAssumption, EmptySeq DEF Root

\* The first names of a path.
LEMMA FirstNames ==
    ASSUME NEW p \in Paths, NEW n \in 0 .. Len(p)
    PROVE  /\ SubSeq(p, 1, n) \in Seq(Names) /\ Len(SubSeq(p, 1, n)) = n
           /\ \A i \in 1 .. n : SubSeq(p, 1, n)[i] = p[i]
<1>1. p \in Seq(Names) /\ Len(p) \in Nat /\ n \in Int /\ n >= 0
  BY PathFacts
<1>2. \A i \in 1 .. n : p[i] \in Names
  BY <1>1, ElementOfSeq
<1>3. /\ SubSeq(p, 1, n) \in Seq(Names)
      /\ Len(SubSeq(p, 1, n)) = IF 1 <= n THEN n - 1 + 1 ELSE 0
      /\ \A i \in 1 .. n - 1 + 1 : SubSeq(p, 1, n)[i] = p[1 + i - 1]
  BY <1>1, <1>2, SubSeqProperties
<1>4. QED
  BY <1>1, <1>3

\* A path is below another one that is shorter and has its names.
LEMMA BelowPointwise ==
    ASSUME NEW a \in Paths, NEW p \in Paths
    PROVE  p \in Below[a] <=> Len(a) < Len(p) /\ \A i \in 1 .. Len(a) : a[i] = p[i]
<1>1. a \in Seq(Names) /\ p \in Seq(Names) /\ Len(a) \in Nat /\ Len(p) \in Nat
  BY PathFacts
<1>2. SubSeq(a, 1, Len(a)) = a
  BY <1>1, SubSeqFull
<1>3. Len(a) <= Len(p) =>
          /\ SubSeq(p, 1, Len(a)) \in Seq(Names) /\ Len(SubSeq(p, 1, Len(a))) = Len(a)
          /\ \A i \in 1 .. Len(a) : SubSeq(p, 1, Len(a))[i] = p[i]
  BY <1>1
<1>4. Len(a) <= Len(p) /\ (\A i \in 1 .. Len(a) : a[i] = p[i]) => a = SubSeq(p, 1, Len(a))
  BY <1>1, <1>3, SeqEqual
<1>5. IsPrefix(a, p) <=> Len(a) <= Len(p) /\ \A i \in 1 .. Len(a) : a[i] = p[i]
  BY <1>2, <1>3, <1>4 DEF IsPrefix
<1>6. Len(a) = Len(p) /\ (\A i \in 1 .. Len(a) : a[i] = p[i]) => a = p
  BY <1>1, SeqEqual
<1>7. QED
  BY <1>1, <1>5, <1>6 DEF Below, IsStrictPrefix

\* What is above a path, and below.
LEMMA AboveIsBelow ==
    ASSUME NEW p \in Paths
    PROVE  /\ Above[p] = {a \in Paths : p \in Below[a]}
           /\ Below[p] \subseteq Paths /\ Above[p] \subseteq Paths
           /\ p \notin Below[p] /\ p \notin Above[p]
<1>1. p \notin Below[p]
  BY PathFacts, BelowPointwise
<1>2. QED
  BY <1>1 DEF Above, Below

\* The order of paths is transitive.
LEMMA BelowTransitive ==
    ASSUME NEW a \in Paths, NEW b \in Paths, NEW p \in Paths, b \in Below[a], p \in Below[b]
    PROVE  p \in Below[a]
<1>1. Len(a) \in Nat /\ Len(b) \in Nat /\ Len(p) \in Nat
  BY PathFacts
<1>2. /\ Len(a) < Len(b) /\ \A i \in 1 .. Len(a) : a[i] = b[i]
      /\ Len(b) < Len(p) /\ \A i \in 1 .. Len(b) : b[i] = p[i]
  BY BelowPointwise
<1>3. Len(a) < Len(p) /\ \A i \in 1 .. Len(a) : a[i] = p[i]
  BY <1>1, <1>2
<1>4. QED
  BY <1>3, BelowPointwise

\* Of two paths above the same one, one is above the other.
LEMMA AboveCompare ==
    ASSUME NEW a \in Paths, NEW b \in Paths, NEW p \in Paths, p \in Below[a], p \in Below[b]
    PROVE  a = b \/ a \in Below[b] \/ b \in Below[a]
<1>1. /\ a \in Seq(Names) /\ b \in Seq(Names) /\ Len(a) \in Nat /\ Len(b) \in Nat
      /\ \A i \in 1 .. Len(a) : a[i] = p[i]
      /\ \A i \in 1 .. Len(b) : b[i] = p[i]
  BY PathFacts, BelowPointwise
<1>2. CASE Len(a) = Len(b)
  BY <1>1, <1>2, SeqEqual
<1>3. CASE Len(a) < Len(b)
  BY <1>1, <1>3, BelowPointwise
<1>4. CASE Len(b) < Len(a)
  BY <1>1, <1>4, BelowPointwise
<1>5. QED
  BY <1>1, <1>2, <1>3, <1>4

\* What is above an entry of a directory is the directory or above it.
LEMMA ChildFacts ==
    ASSUME NEW d \in Paths \union {Root}, NEW c \in Children[d]
    PROVE  /\ c \in Paths
           /\ \A a \in Above[c] : a = d \/ (d \in Paths /\ a \in Above[d])
           /\ d \in Paths => d \in Above[c]
<1>1. c \in Paths /\ Front(c) = d
  BY DEF Children
<1>2. c \in Seq(Names) /\ Len(c) \in Nat /\ Len(c) >= 1 /\ d = SubSeq(c, 1, Len(c) - 1)
  BY <1>1, PathFacts DEF Front
<1>3. d \in Seq(Names) /\ Len(d) = Len(c) - 1 /\ \A i \in 1 .. Len(d) : d[i] = c[i]
  <2>1. Len(c) - 1 \in 0 .. Len(c)
    BY <1>2
  <2>2. QED
    BY <1>1, <1>2, <2>1, FirstNames
<1>4. d \in Paths => d \in Above[c]
  <2>1. Len(d) < Len(c)
    BY <1>2, <1>3
  <2>2. QED
    BY <1>1, <1>3, <2>1, BelowPointwise, AboveIsBelow
<1>5. ASSUME NEW a \in Above[c], a # d
      PROVE  d \in Paths /\ a \in Above[d]
  <2>1. /\ a \in Paths /\ a \in Seq(Names) /\ Len(a) \in Nat /\ Len(a) >= 1 /\ Len(a) < Len(c)
        /\ \A i \in 1 .. Len(a) : a[i] = c[i]
    BY <1>1, PathFacts, BelowPointwise, AboveIsBelow
  <2>2. Len(a) # Len(d)
    BY <1>3, <1>5, <2>1, SeqEqual
  <2>3. Len(a) < Len(d)
    BY <1>2, <1>3, <2>1, <2>2
  <2>4. d \in Paths
    <3>1. d # Root
      BY <2>1, <2>3, EmptySeq DEF Root
    <3>2. QED
      BY <3>1
  <2>5. QED
    BY <1>3, <2>1, <2>3, <2>4, BelowPointwise, AboveIsBelow
<1>6. QED
  BY <1>1, <1>4, <1>5

\* A path that is the same or below has the names of the one it is below.
LEMMA WithinPointwise ==
    ASSUME NEW a \in Paths, NEW p \in Paths
    PROVE  Within(a, p) <=> Len(a) <= Len(p) /\ \A i \in 1 .. Len(a) : a[i] = p[i]
<1>1. a \in Seq(Names) /\ p \in Seq(Names) /\ Len(a) \in Nat /\ Len(p) \in Nat
  BY PathFacts
<1>2. Len(a) = Len(p) /\ (\A i \in 1 .. Len(a) : a[i] = p[i]) => a = p
  BY <1>1, SeqEqual
<1>3. QED
  BY <1>1, <1>2, BelowPointwise DEF Within

\* What is above something within b is above b or within it.
LEMMA WithinFacts ==
    ASSUME NEW b \in Paths, NEW q \in Paths, NEW c \in Above[q]
    PROVE  /\ c \in Paths /\ q \in Below[c]
           /\ Within(b, c) => Within(b, q)
           /\ Within(b, q) => Within(b, c) \/ c \in Above[b]
           /\ c \in Above[b] => ~Within(b, c)
<1>1. c \in Paths /\ q \in Below[c]
  BY AboveIsBelow
<1>2. Within(b, c) => Within(b, q)
  BY <1>1, BelowTransitive DEF Within
<1>3. Within(b, q) => Within(b, c) \/ c \in Above[b]
  BY <1>1, AboveCompare, AboveIsBelow DEF Within
<1>4. c \in Above[b] => ~Within(b, c)
  BY <1>1, BelowTransitive, AboveIsBelow DEF Within
<1>5. QED
  BY <1>1, <1>2, <1>3, <1>4

\* The names of what is within b, put under a.
LEMMA UnderNames ==
    ASSUME NEW a \in Paths, NEW b \in Paths, NEW q \in Paths, Within(b, q)
    PROVE  /\ Under(b, a, q) \in Seq(Names)
           /\ Len(Under(b, a, q)) = Len(a) + (Len(q) - Len(b))
           /\ \A i \in 1 .. Len(a) : Under(b, a, q)[i] = a[i]
           /\ \A i \in 1 .. Len(q) - Len(b) : Under(b, a, q)[Len(a) + i] = q[Len(b) + i]
<1>1. /\ a \in Seq(Names) /\ q \in Seq(Names) /\ Len(a) \in Nat /\ Len(b) \in Nat /\ Len(q) \in Nat
      /\ Len(b) <= Len(q) /\ Len(b) + 1 \in Int /\ Len(q) \in Int
  BY PathFacts, WithinPointwise
<1>2. PICK rest : rest = SubSeq(q, Len(b) + 1, Len(q))
  OBVIOUS
<1>3. \A i \in Len(b) + 1 .. Len(q) : q[i] \in Names
  BY <1>1, ElementOfSeq
<1>4. /\ rest \in Seq(Names)
      /\ Len(rest) = IF Len(b) + 1 <= Len(q) THEN Len(q) - (Len(b) + 1) + 1 ELSE 0
      /\ \A i \in 1 .. Len(q) - (Len(b) + 1) + 1 : rest[i] = q[Len(b) + 1 + i - 1]
  BY <1>1, <1>2, <1>3, SubSeqProperties
<1>5. Len(rest) = Len(q) - Len(b) /\ \A i \in 1 .. Len(q) - Len(b) : rest[i] = q[Len(b) + i]
  BY <1>1, <1>4
<1>6. /\ a \o rest \in Seq(Names) /\ Len(a \o rest) = Len(a) + Len(rest)
      /\ \A i \in 1 .. Len(a) + Len(rest) :
            (a \o rest)[i] = IF i <= Len(a) THEN a[i] ELSE rest[i - Len(a)]
  BY <1>1, <1>4, ConcatProperties
<1>7. \A i \in 1 .. Len(a) : (a \o rest)[i] = a[i]
  BY <1>1, <1>5, <1>6
<1>8. ASSUME NEW i \in 1 .. Len(q) - Len(b)
      PROVE  (a \o rest)[Len(a) + i] = q[Len(b) + i]
  <2>1. Len(a) + i \in 1 .. Len(a) + Len(rest) /\ ~(Len(a) + i <= Len(a)) /\ (Len(a) + i) - Len(a) = i
    BY <1>1, <1>5
  <2>2. QED
    BY <1>5, <1>6, <2>1
<1>9. QED
  BY <1>2, <1>5, <1>6, <1>7, <1>8 DEF Under

\* b itself is put at a.
LEMMA UnderSelf ==
    ASSUME NEW a \in Paths, NEW b \in Paths
    PROVE  Under(b, a, b) = a
<1>1. Within(b, b) /\ a \in Seq(Names) /\ Len(a) \in Nat /\ Len(b) \in Nat
  BY PathFacts DEF Within
<1>2. /\ Under(b, a, b) \in Seq(Names) /\ Len(Under(b, a, b)) = Len(a)
      /\ \A i \in 1 .. Len(a) : Under(b, a, b)[i] = a[i]
  BY <1>1, UnderNames
<1>3. QED
  BY <1>1, <1>2, SeqEqual

\* What is put from b to b stays where it is.
LEMMA UnderSame ==
    ASSUME NEW b \in Paths, NEW q \in Paths, Within(b, q)
    PROVE  Under(b, b, q) = q
<1>1. /\ q \in Seq(Names) /\ Len(q) \in Nat /\ Len(b) \in Nat /\ Len(b) <= Len(q)
      /\ \A i \in 1 .. Len(b) : b[i] = q[i]
  BY PathFacts, WithinPointwise
<1>2. PICK u : u = Under(b, b, q)
  OBVIOUS
<1>3. /\ u \in Seq(Names) /\ Len(u) = Len(q)
      /\ \A i \in 1 .. Len(b) : u[i] = b[i]
      /\ \A i \in 1 .. Len(q) - Len(b) : u[Len(b) + i] = q[Len(b) + i]
  <2>1. /\ u \in Seq(Names) /\ Len(u) = Len(b) + (Len(q) - Len(b))
        /\ \A i \in 1 .. Len(b) : u[i] = b[i]
        /\ \A i \in 1 .. Len(q) - Len(b) : u[Len(b) + i] = q[Len(b) + i]
    BY <1>2, UnderNames, Zenon
  <2>2. QED
    BY <1>1, <2>1
<1>4. ASSUME NEW i \in 1 .. Len(q)
      PROVE  u[i] = q[i]
  <2>1. CASE i <= Len(b)
    BY <1>1, <1>3, <2>1
  <2>2. CASE ~(i <= Len(b))
    <3>1. i - Len(b) \in 1 .. Len(q) - Len(b) /\ Len(b) + (i - Len(b)) = i
      BY <1>1, <2>2
    <3>2. QED
      BY <1>3, <3>1
  <2>3. QED
    BY <2>1, <2>2
<1>5. QED
  BY <1>1, <1>2, <1>3, <1>4, SeqEqual

\* What is put under a is within a, and above it is what was above it within b.
LEMMA UnderAbove ==
    ASSUME NEW a \in Paths, NEW b \in Paths, NEW q \in Paths, Within(b, q), Under(b, a, q) \in Paths
    PROVE  /\ Within(a, Under(b, a, q))
           /\ \A c \in Above[q] : Within(b, c) => Under(b, a, c) \in Above[Under(b, a, q)]
<1>1. /\ Len(a) \in Nat /\ Len(b) \in Nat /\ Len(q) \in Nat /\ Len(b) <= Len(q)
  BY PathFacts, WithinPointwise
<1>2. PICK u \in Paths : u = Under(b, a, q)
  OBVIOUS
<1>3. /\ u \in Seq(Names) /\ Len(u) = Len(a) + (Len(q) - Len(b))
      /\ \A i \in 1 .. Len(a) : u[i] = a[i]
      /\ \A i \in 1 .. Len(q) - Len(b) : u[Len(a) + i] = q[Len(b) + i]
  <2>1. /\ Under(b, a, q) \in Seq(Names)
        /\ Len(Under(b, a, q)) = Len(a) + (Len(q) - Len(b))
        /\ \A i \in 1 .. Len(a) : Under(b, a, q)[i] = a[i]
        /\ \A i \in 1 .. Len(q) - Len(b) : Under(b, a, q)[Len(a) + i] = q[Len(b) + i]
    BY UnderNames
  <2>2. QED
    BY <1>2, <2>1, Zenon
<1>4. Within(a, u)
  BY <1>1, <1>3, WithinPointwise
<1>5. ASSUME NEW c \in Above[q], Within(b, c)
      PROVE  Under(b, a, c) \in Above[u]
  <2>1. /\ c \in Paths /\ Len(c) \in Nat /\ Len(b) <= Len(c) /\ Len(c) < Len(q)
        /\ \A i \in 1 .. Len(c) : c[i] = q[i]
    <3>1. c \in Paths /\ q \in Below[c]
      BY <1>5, AboveIsBelow
    <3>2. QED
      BY <1>5, <3>1, PathFacts, BelowPointwise, WithinPointwise
  <2>2. PICK v : v = Under(b, a, c)
    OBVIOUS
  <2>3. /\ v \in Seq(Names) /\ Len(v) = Len(a) + (Len(c) - Len(b))
        /\ \A i \in 1 .. Len(a) : v[i] = a[i]
        /\ \A i \in 1 .. Len(c) - Len(b) : v[Len(a) + i] = c[Len(b) + i]
    <3>1. /\ Under(b, a, c) \in Seq(Names)
          /\ Len(Under(b, a, c)) = Len(a) + (Len(c) - Len(b))
          /\ \A i \in 1 .. Len(a) : Under(b, a, c)[i] = a[i]
          /\ \A i \in 1 .. Len(c) - Len(b) : Under(b, a, c)[Len(a) + i] = c[Len(b) + i]
      <4>1. c \in Paths /\ Within(b, c)
        BY <1>5, <2>1
      <4>2. QED
        BY ONLY a \in Paths, b \in Paths, <4>1, UnderNames
    <3>2. QED
      BY <2>2, <3>1, Zenon
  <2>4. Len(v) \in 1 .. Len(u) /\ Len(v) < Len(u) /\ Len(v) \in 0 .. Len(u)
    <3>1. Len(a) >= 1
      BY PathFacts
    <3>2. QED
      BY <1>1, <1>3, <2>1, <2>3, <3>1
  <2>5. ASSUME NEW i \in 1 .. Len(v)
        PROVE  v[i] = u[i]
    <3>1. CASE i <= Len(a)
      BY <1>1, <1>3, <2>3, <3>1
    <3>2. CASE ~(i <= Len(a))
      <4>1. /\ i - Len(a) \in 1 .. Len(c) - Len(b) /\ Len(a) + (i - Len(a)) = i
            /\ i - Len(a) \in 1 .. Len(q) - Len(b) /\ Len(b) + (i - Len(a)) \in 1 .. Len(c)
        BY <1>1, <2>1, <2>3, <3>2, SMTT(30)
      <4>2. v[i] = c[Len(b) + (i - Len(a))] /\ u[i] = q[Len(b) + (i - Len(a))]
        BY <1>3, <2>3, <4>1
      <4>3. QED
        BY <2>1, <4>1, <4>2
    <3>3. QED
      BY <3>1, <3>2
  <2>6. /\ SubSeq(u, 1, Len(v)) \in Seq(Names) /\ Len(SubSeq(u, 1, Len(v))) = Len(v)
        /\ \A i \in 1 .. Len(v) : SubSeq(u, 1, Len(v))[i] = u[i]
    BY <2>4, FirstNames
  <2>7. v = SubSeq(u, 1, Len(v))
    BY <2>3, <2>5, <2>6, SeqEqual
  <2>8. v \in Paths
    BY <2>4, <2>7, PathFacts
  <2>9. QED
    <3>1. u \in Below[v]
      BY <2>4, <2>5, <2>8, BelowPointwise
    <3>2. QED
      BY <2>2, <2>8, <3>1, AboveIsBelow
<1>6. QED
  BY <1>2, <1>4, <1>5

-----------------------------------------------------------------------------
(***************************************************************************)
(* Trees.                                                                   *)
(***************************************************************************)

\* A tree of the model: every path has a node, and what is there has directories above.
GoodTree(tree) == tree \in [Paths -> Nodes] /\ IsTree(tree)

\* The first record of a set of records is one of them.
LEMMA FirstIn ==
    ASSUME NEW S \in SUBSET Paths, S # {}
    PROVE  First(S) \in S
<1> DEFINE R == {m \in Nat \X Nat : m[1] < m[2]}
           Places == {i \in 1 .. Len(Order) : Order[i] \in S}
<1>1. Len(Order) \in Nat
  BY PathsAssumption, LenProperties
<1>2. Places # {} /\ Places \subseteq Nat
  <2>1. PICK s \in S : TRUE
    OBVIOUS
  <2>2. s \in ToSet(Order)
    BY <2>1 DEF Paths
  <2>3. PICK i \in DOMAIN Order : Order[i] = s
    BY <2>2 DEF ToSet
  <2>4. i \in 1 .. Len(Order)
    BY PathsAssumption, LenProperties, <2>3
  <2>5. QED
    BY <1>1, <2>1, <2>3, <2>4
<1>3. IsWellFoundedOn(R, Nat)
  BY NatLessThanWellFounded DEF OpToRel
<1>4. PICK i \in Places : \A j \in Places : <<j, i>> \notin R
  BY <1>2, <1>3, WFMin
<1>5. \A j \in 1 .. i - 1 : Order[j] \notin S
  <2>1. SUFFICES ASSUME NEW j \in 1 .. i - 1, Order[j] \in S PROVE FALSE
    OBVIOUS
  <2>2. j \in Places /\ j \in Nat /\ i \in Nat /\ j < i
    BY <1>1, <2>1
  <2>3. <<j, i>> \in R
    BY <2>2
  <2>4. QED
    BY <1>4, <2>2, <2>3
<1>6. QED
  BY <1>4, <1>5 DEF First

\* Where nothing is, nothing is below.
LEMMA NothingBelow ==
    ASSUME NEW tree, GoodTree(tree), NEW p \in Paths, tree[p] # Dir
    PROVE  \A q \in Below[p] : q \in Paths /\ tree[q] = NoFile
  BY AboveIsBelow DEF GoodTree, IsTree

\* create_directories makes the directories it is asked for, and a tree stays one
\* where no file is in their way.
LEMMA WithDirectoriesTree ==
    ASSUME NEW tree, GoodTree(tree), NEW dirs \in SUBSET Paths,
           \A d \in dirs : Above[d] \subseteq dirs /\ tree[d] \in {NoFile, Dir}
    PROVE  /\ GoodTree(WithDirectories(tree, dirs))
           /\ \A d \in dirs : WithDirectories(tree, dirs)[d] = Dir
           /\ \A p \in Paths \ dirs : WithDirectories(tree, dirs)[p] = tree[p]
<1> DEFINE into == WithDirectories(tree, dirs)
<1>1. into \in [Paths -> Nodes]
  BY DEF WithDirectories, GoodTree, Nodes
<1>2. \A d \in dirs : into[d] = Dir
  BY DEF WithDirectories
<1>3. \A p \in Paths \ dirs : into[p] = tree[p]
  BY DEF WithDirectories
<1>4. IsTree(into)
  <2>1. SUFFICES ASSUME NEW p \in Paths, into[p] # NoFile, NEW a \in Above[p]
                 PROVE  into[a] = Dir
    BY DEF IsTree
  <2>2. a \in Paths
    BY AboveIsBelow
  <2>3. CASE p \in dirs
    BY <1>2, <2>3
  <2>4. CASE p \notin dirs
    <3>1. tree[a] = Dir
      BY <1>3, <2>1, <2>4 DEF GoodTree, IsTree
    <3>2. QED
      BY <1>2, <1>3, <2>2, <3>1
  <2>5. QED
    BY <2>3, <2>4
<1>5. QED
  BY <1>1, <1>2, <1>3, <1>4 DEF GoodTree

\* The directories above a path, alone or with it, are all that is above them.
LEMMA AboveClosed ==
    ASSUME NEW p \in Paths
    PROVE  /\ Above[p] \in SUBSET Paths /\ {p} \union Above[p] \in SUBSET Paths
           /\ \A a \in Above[p] : Above[a] \subseteq Above[p]
  BY AboveIsBelow, BelowTransitive

\* remove_all leaves a tree.
LEMMA RemoveAllTree ==
    ASSUME NEW tree, GoodTree(tree), NEW p \in Paths
    PROVE  /\ GoodTree(RemoveAll(tree, p))
           /\ \A q \in Paths : RemoveAll(tree, p)[q] = IF Within(p, q) THEN NoFile ELSE tree[q]
<1> DEFINE new == RemoveAll(tree, p)
<1>1. \A q \in Paths : new[q] = IF Within(p, q) THEN NoFile ELSE tree[q]
  BY DEF RemoveAll
<1>2. new \in [Paths -> Nodes]
  BY DEF RemoveAll, GoodTree, Nodes
<1>3. ASSUME NEW q \in Paths, new[q] # NoFile, NEW a \in Above[q]
      PROVE  new[a] = Dir
  <2>1. ~Within(p, q) /\ tree[q] # NoFile
    BY <1>1, <1>3
  <2>2. a \in Paths /\ ~Within(p, a) /\ tree[a] = Dir
    BY <1>3, <2>1, WithinFacts DEF GoodTree, IsTree
  <2>3. QED
    BY <1>1, <2>2
<1>4. QED
  BY <1>1, <1>2, <1>3 DEF GoodTree, IsTree

\* A part of a tree is put into another one, over what is there, under it, or both
\* mixed: it is a tree where directories meet directories and files meet files.
LEMMA GraftTree ==
    ASSUME NEW into, GoodTree(into), NEW from, GoodTree(from),
           NEW a \in Paths, NEW b \in Paths,
           \A c \in Above[b] : into[c] = Dir,
           NEW new \in [Paths -> Nodes],
           \A q \in Paths : ~Within(b, q) => new[q] = into[q],
           \A q \in Paths : Within(b, q) =>
               /\ new[q] \in {into[q], At(from, Under(b, a, q))}
               /\ new[q] = NoFile => into[q] = NoFile /\ At(from, Under(b, a, q)) = NoFile
               /\ into[q] # NoFile /\ At(from, Under(b, a, q)) # NoFile =>
                      (into[q] = Dir <=> At(from, Under(b, a, q)) = Dir)
    PROVE  GoodTree(new)
<1>1. SUFFICES ASSUME NEW q \in Paths, new[q] # NoFile, NEW c \in Above[q]
               PROVE  new[c] = Dir
  BY DEF GoodTree, IsTree
<1>2. /\ c \in Paths
      /\ Within(b, c) => Within(b, q)
      /\ Within(b, q) => Within(b, c) \/ c \in Above[b]
      /\ c \in Above[b] => ~Within(b, c)
  BY WithinFacts
<1>3. CASE ~Within(b, q)
  BY <1>1, <1>2, <1>3 DEF GoodTree, IsTree
<1>4. CASE Within(b, q) /\ c \in Above[b]
  BY <1>2, <1>4
<1>5. CASE Within(b, q) /\ Within(b, c)
  <2>1. CASE new[q] = into[q]
    <3>1. into[c] = Dir
      BY <1>1, <2>1 DEF GoodTree, IsTree
    <3>2. QED
      BY <1>2, <1>5, <3>1, NodesAssumption
  <2>2. CASE new[q] = At(from, Under(b, a, q))
    <3>1. Under(b, a, q) \in Paths /\ from[Under(b, a, q)] # NoFile
      BY <1>1, <2>2 DEF At
    <3>2. Under(b, a, c) \in Above[Under(b, a, q)]
      BY <1>5, <3>1, UnderAbove
    <3>3. Under(b, a, c) \in Paths
      BY <3>1, <3>2, AboveIsBelow
    <3>4. At(from, Under(b, a, c)) = Dir
      BY <3>1, <3>2, <3>3 DEF GoodTree, IsTree, At
    <3>5. QED
      BY <1>2, <1>5, <3>4, NodesAssumption
  <2>3. QED
    BY <1>5, <2>1, <2>2
<1>6. QED
  BY <1>2, <1>3, <1>4, <1>5

\* CopyMissingPath and CopyMissingDirectoryTree put what is at a where nothing is
\* at and below b.
LEMMA CopyMissingTree ==
    ASSUME NEW tree, GoodTree(tree), NEW from, GoodTree(from),
           NEW a \in Paths, NEW b \in Paths,
           \A c \in Above[b] : tree[c] \in {NoFile, Dir},
           \A q \in Paths :
               Within(b, q) /\ tree[q] # NoFile /\ At(from, Under(b, a, q)) # NoFile =>
                   (tree[q] = Dir <=> At(from, Under(b, a, q)) = Dir)
    PROVE  /\ GoodTree(CopyMissing(from, a, tree, b))
           /\ \A q \in Above[b] : CopyMissing(from, a, tree, b)[q] = Dir
           /\ \A q \in Paths : ~Within(b, q) /\ q \notin Above[b] =>
                  CopyMissing(from, a, tree, b)[q] = tree[q]
           /\ \A q \in Paths : Within(b, q) =>
                  CopyMissing(from, a, tree, b)[q] =
                      IF tree[q] = NoFile THEN At(from, Under(b, a, q)) ELSE tree[q]
<1> DEFINE into == WithDirectories(tree, Above[b])
           new == CopyMissing(from, a, tree, b)
<1>1. /\ GoodTree(into)
      /\ \A c \in Above[b] : into[c] = Dir
      /\ \A q \in Paths \ Above[b] : into[q] = tree[q]
  BY WithDirectoriesTree, AboveClosed
<1>2. \A q \in Paths : Within(b, q) => q \notin Above[b]
  BY WithinFacts, AboveIsBelow, BelowTransitive DEF Within
<1>3. \A q \in Paths : new[q] = IF Within(b, q) /\ into[q] = NoFile
                                THEN At(from, Under(b, a, q)) ELSE into[q]
  BY DEF CopyMissing
<1>4. new \in [Paths -> Nodes]
  BY <1>1 DEF CopyMissing, GoodTree, At, Nodes
<1>5. \A q \in Paths : Within(b, q) => into[q] = tree[q]
  BY <1>1, <1>2
<1> HIDE DEF into, new
<1>6. GoodTree(new)
  BY <1>1, <1>3, <1>4, <1>5, GraftTree
<1>7. \A q \in Above[b] : new[q] = Dir
  BY <1>1, <1>2, <1>3, AboveIsBelow
<1>8. \A q \in Paths : ~Within(b, q) /\ q \notin Above[b] => new[q] = tree[q]
  BY <1>1, <1>3
<1>9. \A q \in Paths : Within(b, q) =>
          new[q] = IF tree[q] = NoFile THEN At(from, Under(b, a, q)) ELSE tree[q]
  BY <1>3, <1>5
<1>10. QED
  BY <1>6, <1>7, <1>8, <1>9 DEF new

\* copy with overwrite_existing puts what is at a over what is at and below b.
LEMMA CopyOverTree ==
    ASSUME NEW tree, GoodTree(tree), NEW from, GoodTree(from),
           NEW a \in Paths, NEW b \in Paths,
           \A c \in Above[b] : tree[c] \in {NoFile, Dir},
           \A q \in Paths :
               Within(b, q) /\ tree[q] # NoFile /\ At(from, Under(b, a, q)) # NoFile =>
                   (tree[q] = Dir <=> At(from, Under(b, a, q)) = Dir)
    PROVE  /\ GoodTree(CopyOver(from, a, tree, b))
           /\ \A q \in Above[b] : CopyOver(from, a, tree, b)[q] = Dir
           /\ \A q \in Paths : ~Within(b, q) /\ q \notin Above[b] =>
                  CopyOver(from, a, tree, b)[q] = tree[q]
           /\ \A q \in Paths : Within(b, q) =>
                  CopyOver(from, a, tree, b)[q] =
                      IF At(from, Under(b, a, q)) # NoFile THEN At(from, Under(b, a, q)) ELSE tree[q]
<1> DEFINE into == WithDirectories(tree, Above[b])
           new == CopyOver(from, a, tree, b)
<1>1. /\ GoodTree(into)
      /\ \A c \in Above[b] : into[c] = Dir
      /\ \A q \in Paths \ Above[b] : into[q] = tree[q]
  BY WithDirectoriesTree, AboveClosed
<1>2. \A q \in Paths : Within(b, q) => q \notin Above[b]
  BY WithinFacts, AboveIsBelow, BelowTransitive DEF Within
<1>3. \A q \in Paths : new[q] = IF Within(b, q) /\ At(from, Under(b, a, q)) # NoFile
                                THEN At(from, Under(b, a, q)) ELSE into[q]
  BY DEF CopyOver
<1>4. new \in [Paths -> Nodes]
  BY <1>1 DEF CopyOver, GoodTree, At, Nodes
<1>5. \A q \in Paths : Within(b, q) => into[q] = tree[q]
  BY <1>1, <1>2
<1> HIDE DEF into, new
<1>6. GoodTree(new)
  BY <1>1, <1>3, <1>4, <1>5, GraftTree
<1>7. \A q \in Above[b] : new[q] = Dir
  BY <1>1, <1>2, <1>3, AboveIsBelow
<1>8. \A q \in Paths : ~Within(b, q) /\ q \notin Above[b] => new[q] = tree[q]
  BY <1>1, <1>3
<1>9. \A q \in Paths : Within(b, q) =>
          new[q] = IF At(from, Under(b, a, q)) # NoFile THEN At(from, Under(b, a, q)) ELSE tree[q]
  BY <1>3, <1>5
<1>10. QED
  BY <1>6, <1>7, <1>8, <1>9 DEF new

\* PrepareDirectoryView makes the directory and its entries, and removes what the
\* rule deleted in it.
LEMMA DirectoryViewTree ==
    ASSUME NEW tree, GoodTree(tree), real \in [Paths -> Nodes],
           NEW d \in Paths \union {Root}, NEW dirs, dirs = ({d} \union Above[d]) \intersect Paths,
           \A x \in dirs : tree[x] \in {NoFile, Dir}
    PROVE  /\ GoodTree(DirectoryView(tree, d))
           /\ \A x \in dirs : DirectoryView(tree, d)[x] = Dir
           /\ \A x \in Paths \ dirs : DirectoryView(tree, d)[x] \in {NoFile, tree[x], real[x]}
           /\ d \in Paths => \A x \in Paths \ dirs :
                  ~Within(d, x) => DirectoryView(tree, d)[x] = tree[x]
<1> DEFINE view == WithDirectories(tree, {d} \union Above[d])
           new == DirectoryView(tree, d)
           Gone(x) == \E c \in Children[d] : Within(c, x) /\ changes[c].state = "tombstone"
<1>1. view = WithDirectories(tree, dirs)
  BY DEF WithDirectories
<1>2. dirs \in SUBSET Paths /\ \A x \in dirs : Above[x] \subseteq dirs
  <2>1. CASE d \in Paths
    BY <2>1, AboveClosed
  <2>2. CASE d \notin Paths
    BY <2>2 DEF Above, Below
  <2>3. QED
    BY <2>1, <2>2
<1>3. /\ GoodTree(view)
      /\ \A x \in dirs : view[x] = Dir
      /\ \A x \in Paths \ dirs : view[x] = tree[x]
  <2>1. /\ GoodTree(WithDirectories(tree, dirs))
        /\ \A x \in dirs : WithDirectories(tree, dirs)[x] = Dir
        /\ \A x \in Paths \ dirs : WithDirectories(tree, dirs)[x] = tree[x]
    BY <1>2, WithDirectoriesTree
  <2>2. QED
    BY <1>1, <2>1
<1>4. \A x \in Paths : new[x] =
          IF Gone(x) THEN NoFile
          ELSE IF x \in Children[d] /\ view[x] = NoFile /\ changes[x].state # "renamed"
               THEN real[x] ELSE view[x]
  BY DEF DirectoryView
<1>5. new \in [Paths -> Nodes]
  BY <1>3 DEF DirectoryView, GoodTree, Nodes
<1>6. ASSUME NEW x \in Paths, NEW c \in Above[x], Gone(c)
      PROVE  Gone(x)
  <2>1. PICK k \in Children[d] : Within(k, c) /\ changes[k].state = "tombstone"
    BY <1>6
  <2>2. k \in Paths
    BY ChildFacts
  <2>3. Within(k, x)
    BY <2>1, <2>2, WithinFacts
  <2>4. QED
    BY <2>1, <2>3
<1>7. ASSUME NEW x \in dirs, NEW c \in Children[d], Within(c, x)
      PROVE  FALSE
  <2>1. /\ c \in Paths /\ x \in Paths
        /\ d \in Paths => d \in Above[c]
    BY <1>2, ChildFacts
  <2>2. d \in Paths
    BY <1>7, <2>1 DEF Above, Below
  <2>3. x = d \/ x \in Above[d]
    BY <1>7
  <2>4. x \in Above[c]
    BY <2>1, <2>2, <2>3, AboveClosed
  <2>5. c \in Below[x]
    BY <2>1, <2>4, AboveIsBelow
  <2>6. QED
    BY <1>7, <2>1, <2>5, AboveIsBelow, BelowTransitive DEF Within
<1>8. \A x \in dirs : new[x] = Dir
  <2>1. \A x \in dirs : ~Gone(x)
    BY <1>7
  <2>2. QED
    BY <1>2, <1>3, <1>4, <2>1, NodesAssumption
<1>9. d \in Paths => \A x \in Paths \ dirs : ~Within(d, x) => new[x] = tree[x]
  <2>1. SUFFICES ASSUME d \in Paths, NEW x \in Paths \ dirs, ~Within(d, x)
                 PROVE  new[x] = tree[x]
    OBVIOUS
  <2>2. ASSUME NEW c \in Children[d], Within(c, x) PROVE FALSE
    <3>1. c \in Paths /\ c \in Below[d]
      BY <2>1, <2>2, ChildFacts, AboveIsBelow
    <3>2. QED
      BY <2>1, <2>2, <3>1, BelowTransitive DEF Within
  <2>3. ~Gone(x) /\ x \notin Children[d]
    BY <2>2 DEF Within
  <2>4. QED
    BY <1>3, <1>4, <2>3
<1>10. ASSUME NEW x \in Paths, new[x] # NoFile, NEW c \in Above[x]
       PROVE  new[c] = Dir
  <2>1. c \in Paths /\ ~Gone(x) /\ ~Gone(c)
    BY <1>4, <1>6, <1>10, AboveIsBelow
  <2>2. CASE view[x] # NoFile
    <3>1. view[c] = Dir
      BY <1>3, <2>2 DEF GoodTree, IsTree
    <3>2. QED
      BY <1>4, <2>1, <3>1, NodesAssumption
  <2>3. CASE view[x] = NoFile
    <3>1. x \in Children[d]
      BY <1>4, <1>10, <2>1, <2>3
    <3>2. c \in dirs
      BY <2>1, <3>1, ChildFacts
    <3>3. QED
      BY <1>8, <3>2
  <2>4. QED
    BY <2>2, <2>3
<1>11. \A x \in Paths \ dirs : new[x] \in {NoFile, tree[x], real[x]}
  BY <1>3, <1>4
<1>12. GoodTree(new)
  BY <1>5, <1>10 DEF GoodTree, IsTree
<1>13. QED
  BY <1>8, <1>9, <1>11, <1>12

\* PrepareCopyOnWrite gives p what the real directory has, where the shadow has
\* nothing, and changes nothing that is not at, above or below p.
LEMMA CopyOnWriteTree ==
    ASSUME NEW tree, GoodTree(tree), real \in [Paths -> Nodes], NEW p \in Paths,
           \A a \in Above[p] : tree[a] \in {NoFile, Dir},
           real[p] = Dir => tree[p] \in {NoFile, Dir}
    PROVE  /\ GoodTree(CopyOnWrite(tree, p))
           /\ \A a \in Above[p] : CopyOnWrite(tree, p)[a] = Dir
           /\ CopyOnWrite(tree, p)[p] = IF tree[p] = NoFile THEN real[p] ELSE tree[p]
           /\ \A x \in Paths \ Above[p] : CopyOnWrite(tree, p)[x] \in {NoFile, tree[x], real[x]}
           /\ \A x \in Paths \ Above[p] : ~Within(p, x) => CopyOnWrite(tree, p)[x] = tree[x]
<1> DEFINE new == CopyOnWrite(tree, p)
<1>1. CASE real[p] = Dir
  <2>1. PICK dirs : dirs = ({p} \union Above[p]) \intersect Paths
    OBVIOUS
  <2>2. p \in dirs /\ (\A x \in dirs : x = p \/ x \in Above[p]) /\ Above[p] \subseteq dirs
    BY <2>1, AboveIsBelow
  <2>3. \A x \in dirs : tree[x] \in {NoFile, Dir}
    BY <1>1, <2>2
  <2>4. /\ GoodTree(DirectoryView(tree, p))
        /\ \A x \in dirs : DirectoryView(tree, p)[x] = Dir
        /\ \A x \in Paths \ dirs : DirectoryView(tree, p)[x] \in {NoFile, tree[x], real[x]}
        /\ \A x \in Paths \ dirs : ~Within(p, x) => DirectoryView(tree, p)[x] = tree[x]
    <3>1. p \in Paths \union {Root}
      OBVIOUS
    <3>2. /\ GoodTree(DirectoryView(tree, p))
          /\ \A x \in dirs : DirectoryView(tree, p)[x] = Dir
          /\ \A x \in Paths \ dirs : DirectoryView(tree, p)[x] \in {NoFile, tree[x], real[x]}
          /\ p \in Paths => \A x \in Paths \ dirs :
                 ~Within(p, x) => DirectoryView(tree, p)[x] = tree[x]
      BY ONLY GoodTree(tree), real \in [Paths -> Nodes], <2>1, <2>3, <3>1, DirectoryViewTree
    <3>3. QED
      BY <3>2
  <2>5. new = DirectoryView(tree, p)
    BY <1>1 DEF CopyOnWrite
  <2>6. new[p] = Dir /\ (tree[p] = NoFile \/ tree[p] = Dir)
    BY <2>2, <2>3, <2>4, <2>5
  <2> HIDE DEF new
  <2>7. \A x \in Paths \ Above[p] : new[x] \in {NoFile, tree[x], real[x]}
    BY <1>1, <2>2, <2>4, <2>5
  <2>8. \A x \in Paths \ Above[p] : ~Within(p, x) => new[x] = tree[x]
    <3>1. \A x \in Paths \ Above[p] : ~Within(p, x) => x \notin dirs
      BY <2>2 DEF Within
    <3>2. QED
      BY <2>4, <2>5, <3>1
  <2>9. new[p] = IF tree[p] = NoFile THEN real[p] ELSE tree[p]
    BY <1>1, <2>6
  <2>10. QED
    BY <2>2, <2>4, <2>5, <2>7, <2>8, <2>9 DEF new
<1>2. CASE real[p] # Dir
  <2> DEFINE into == WithDirectories(tree, Above[p])
  <2>1. /\ GoodTree(into)
        /\ \A a \in Above[p] : into[a] = Dir
        /\ \A x \in Paths \ Above[p] : into[x] = tree[x]
    BY WithDirectoriesTree, AboveClosed
  <2>2. new = [into EXCEPT ![p] = IF @ = NoFile THEN real[p] ELSE @]
    BY <1>2 DEF CopyOnWrite
  <2> HIDE DEF into, new
  <2>3. into \in [Paths -> Nodes] /\ p \notin Above[p]
    BY <2>1, AboveIsBelow DEF GoodTree
  <2>4. /\ new \in [Paths -> Nodes]
        /\ new[p] = IF into[p] = NoFile THEN real[p] ELSE into[p]
        /\ \A x \in Paths : x # p => new[x] = into[x]
    BY <2>2, <2>3
  <2>5. ASSUME NEW x \in Paths, new[x] # NoFile, NEW a \in Above[x]
        PROVE  new[a] = Dir
    <3>1. a \in Paths /\ x \in Below[a]
      BY AboveIsBelow
    <3>2. CASE into[x] # NoFile
      <4>1. into[a] = Dir
        BY <2>1, <3>2 DEF GoodTree, IsTree
      <4>2. QED
        BY <2>4, <3>1, <4>1, NodesAssumption
    <3>3. CASE into[x] = NoFile
      <4>1. x = p
        BY <2>4, <2>5, <3>3
      <4>2. a # p
        BY <2>3, <4>1
      <4>3. QED
        BY <2>1, <2>4, <3>1, <4>1, <4>2
    <3>4. QED
      BY <3>2, <3>3
  <2>6. GoodTree(new)
    BY <2>4, <2>5 DEF GoodTree, IsTree
  <2>7. \A a \in Above[p] : new[a] = Dir
    BY <2>1, <2>3, <2>4, AboveIsBelow
  <2>8. \A x \in Paths \ Above[p] : x # p => new[x] = tree[x]
    BY <2>1, <2>4
  <2>9. new[p] = IF tree[p] = NoFile THEN real[p] ELSE tree[p]
    BY <2>1, <2>3, <2>4
  <2>10. QED
    BY <2>6, <2>7, <2>8, <2>9 DEF new, Within
<1>3. QED
  BY <1>1, <1>2

-----------------------------------------------------------------------------
(***************************************************************************)
(* The invariant.  While processes work, nothing real is at the target of a *)
(* renamed record: RecordRename refused it, and a process does not change   *)
(* the real directory.  So what a rename brings meets nothing real, and     *)
(* wherever the shadow and the real directory both have something, they     *)
(* agree on whether it is a directory; a commit can then put the one over   *)
(* the other.  What a commit has still to copy is in the shadow.            *)
(***************************************************************************)

RecordsType(records) ==
    /\ records \in [Paths -> Records]
    /\ \A p \in Paths : records[p].state = "renamed" => records[p].target \in Paths

TargetsFree(records) ==
    \A p \in Paths : records[p].state = "renamed" => real[records[p].target] = NoFile

SameKind(tree) ==
    \A p \in Paths : tree[p] # NoFile /\ real[p] # NoFile => (tree[p] = Dir <=> real[p] = Dir)

TreeInv ==
    /\ GoodTree(real) /\ GoodTree(shadow)
    /\ RecordsType(changes)
    /\ todo \in SUBSET Paths
    /\ pc \in {"idle", "commit", "failed"}
    /\ pc = "idle" => TargetsFree(changes)
    /\ pc # "failed" => SameKind(shadow)
    /\ pc = "commit" =>
           \A p \in todo : changes[p].state # "tombstone" => shadow[ShadowOf(p)] # NoFile

\* AddOrUpdateChange leaves well-formed records, and targets free if the new one is.
LEMMA UpsertType ==
    ASSUME TreeInv, NEW records, RecordsType(records), TargetsFree(records), NEW p \in Paths,
           NEW state \in States, NEW target \in Paths \union {Root},
           state = "renamed" => target \in Paths /\ real[target] = NoFile
    PROVE  /\ RecordsType(Upsert(records, p, state, target))
           /\ TargetsFree(Upsert(records, p, state, target))
<1> DEFINE new == Upsert(records, p, state, target)
           record == [state |-> state, target |-> target,
                      orig |-> IF records[p].state = "none" THEN real[p] ELSE records[p].orig]
<1>1. record \in Records /\ record.state = state /\ record.target = target
  BY DEF TreeInv, GoodTree, RecordsType, Records
<1>2. new = [records EXCEPT ![p] = record]
  BY DEF Upsert
<1> HIDE DEF new, record
<1>3. /\ new \in [Paths -> Records] /\ new[p] = record
      /\ \A q \in Paths : q # p => new[q] = records[q]
  BY <1>1, <1>2 DEF RecordsType
<1>4. QED
  BY <1>1, <1>3 DEF RecordsType, TargetsFree, new

\* The removal of records does so too.
LEMMA ForgetType ==
    ASSUME NEW records, RecordsType(records), TargetsFree(records), NEW S
    PROVE  RecordsType(Forget(records, S)) /\ TargetsFree(Forget(records, S))
<1> DEFINE new == Forget(records, S)
<1>1. NoRecord \in Records /\ NoRecord.state # "renamed"
  BY DEF NoRecord, Records, States, Nodes
<1>2. \A p \in Paths : new[p] = NoRecord \/ new[p] = records[p]
  BY DEF Forget
<1>3. new \in [Paths -> Records]
  BY <1>1 DEF Forget, RecordsType
<1> HIDE DEF new
<1>4. QED
  BY <1>1, <1>2, <1>3 DEF RecordsType, TargetsFree, new

\* What a rename brings is put where nothing real is.
LEMMA BringsFacts ==
    ASSUME TreeInv, NEW p \in Paths, Brings(p)
    PROVE  /\ RenamedFrom(p) \in Paths /\ real[RenamedFrom(p)] # NoFile
           /\ pc = "idle" => \A q \in Paths : Within(p, q) => real[q] = NoFile
<1>1. RenamedFrom(p) \in Paths /\ real[RenamedFrom(p)] # NoFile
  BY DEF Brings, At
<1>2. ASSUME pc = "idle", NEW q \in Paths, Within(p, q)
      PROVE  real[q] = NoFile
  <2>1. PICK r \in Paths : changes[r].state = "renamed" /\ Within(changes[r].target, p)
    BY DEF Brings, RenamedInto
  <2>2. PICK t \in Paths : t = changes[r].target
    BY <2>1 DEF TreeInv, RecordsType
  <2>3. real[t] = NoFile /\ GoodTree(real)
    BY <1>2, <2>1, <2>2 DEF TreeInv, TargetsFree
  <2>4. q = t \/ q \in Below[t]
    BY <1>2, <2>1, <2>2, BelowTransitive DEF Within
  <2>5. QED
    BY <2>3, <2>4, NothingBelow, NodesAssumption
<1>3. QED
  BY <1>1, <1>2

\* Where a process walks, the shadow has directories or nothing, and so has the
\* real directory.
LEMMA WalkFacts ==
    ASSUME TreeInv, NEW a \in Paths, Answer(a) = Dir
    PROVE  shadow[a] \in {NoFile, Dir} /\ (pc = "idle" => real[a] \in {NoFile, Dir})
<1>1. ~Hidden(a) /\ shadow[a] \in {NoFile, Dir}
  BY NodesAssumption DEF Answer
<1>2. ASSUME pc = "idle", real[a] # NoFile
      PROVE  real[a] = Dir
  <2>1. ~Brings(a)
    BY <1>2, BringsFacts DEF Within
  <2>2. CASE shadow[a] = NoFile
    BY <1>1, <2>1, <2>2 DEF Answer
  <2>3. CASE shadow[a] = Dir
    BY <1>2, <2>3, NodesAssumption DEF TreeInv, SameKind
  <2>4. QED
    BY <1>1, <2>2, <2>3
<1>3. QED
  BY <1>1, <1>2

\* All that a request for p does elsewhere is to make directories above p.
LeavesRest(new, old, p) ==
    \A x \in Paths : ~Within(p, x) => new[x] = old[x] \/ (x \in Above[p] /\ new[x] = Dir)

\* QueryPath leaves a tree in the shadow, with what an open of p gives at p or
\* nothing.
LEMMA QueriedFacts ==
    ASSUME TreeInv, NEW p \in Paths, Walks(p), ~Hidden(p)
    PROVE  /\ GoodTree(Queried(p))
           /\ \A a \in Above[p] : Queried(p)[a] \in {NoFile, Dir}
           /\ Queried(p)[p] = IF shadow[p] # NoFile \/ Brings(p) THEN Answer(p) ELSE NoFile
           /\ LeavesRest(Queried(p), shadow, p)
           /\ pc = "idle" => SameKind(Queried(p))
<1>1. \A a \in Above[p] : a \in Paths /\ shadow[a] \in {NoFile, Dir} /\ (pc = "idle" => real[a] \in {NoFile, Dir})
  BY WalkFacts, AboveIsBelow DEF Walks
<1>2. CASE ~(shadow[p] = NoFile /\ Brings(p))
  <2>1. Queried(p) = shadow
    BY <1>2 DEF Queried
  <2>2. shadow[p] # NoFile => Answer(p) = shadow[p]
    BY DEF Answer
  <2>3. QED
    BY <1>1, <1>2, <2>1, <2>2 DEF TreeInv, LeavesRest
<1>3. CASE shadow[p] = NoFile /\ Brings(p)
  <2>1. PICK from \in Paths : from = RenamedFrom(p)
    BY <1>3, BringsFacts
  <2> DEFINE new == CopyMissing(real, from, shadow, p)
  <2>2. Queried(p) = new
    BY <1>3, <2>1 DEF Queried
  <2>3. GoodTree(shadow) /\ GoodTree(real)
    BY DEF TreeInv
  <2>4. \A x \in Paths : Within(p, x) => shadow[x] = NoFile
    BY <1>3, <2>3, NothingBelow, NodesAssumption DEF Within
  <2>5. /\ GoodTree(new)
        /\ \A q \in Above[p] : new[q] = Dir
        /\ \A q \in Paths : ~Within(p, q) /\ q \notin Above[p] => new[q] = shadow[q]
        /\ \A q \in Paths : Within(p, q) =>
               new[q] = IF shadow[q] = NoFile THEN At(real, Under(p, from, q)) ELSE shadow[q]
    <3>1. \A c \in Above[p] : shadow[c] \in {NoFile, Dir}
      BY <1>1
    <3>2. \A q \in Paths :
              Within(p, q) /\ shadow[q] # NoFile /\ At(real, Under(p, from, q)) # NoFile =>
                  (shadow[q] = Dir <=> At(real, Under(p, from, q)) = Dir)
      BY <2>4
    <3>3. QED
      BY ONLY <2>3, <3>1, <3>2, from \in Paths, p \in Paths, CopyMissingTree
  <2> HIDE DEF new
  <2>6. new[p] = Answer(p)
    <3>1. Within(p, p) /\ Under(p, from, p) = from
      BY UnderSelf DEF Within
    <3>2. new[p] = real[from]
      BY <1>3, <2>5, <3>1 DEF At
    <3>3. QED
      BY <1>3, <2>1, <3>2 DEF Answer
  <2>7. LeavesRest(new, shadow, p)
    BY <2>5 DEF LeavesRest
  <2>8. ASSUME pc = "idle" PROVE SameKind(new)
    <3>1. SUFFICES ASSUME NEW x \in Paths, new[x] # NoFile, real[x] # NoFile
                   PROVE  new[x] = Dir <=> real[x] = Dir
      BY DEF SameKind
    <3>2. ~Within(p, x)
      BY <1>3, <2>8, <3>1, BringsFacts
    <3>3. CASE x \in Above[p]
      BY <1>1, <2>5, <2>8, <3>1, <3>3
    <3>4. CASE x \notin Above[p]
      <4>1. SameKind(shadow)
        BY <2>8 DEF TreeInv
      <4>2. QED
        BY <2>5, <3>1, <3>2, <3>4, <4>1 DEF SameKind
    <3>5. QED
      BY <3>3, <3>4
  <2>9. QED
    BY <1>3, <2>2, <2>5, <2>6, <2>7, <2>8
<1>4. QED
  BY <1>2, <1>3

\* A create leaves a tree in the shadow, of the same kinds as the real directory,
\* with what an open of p gives at p or nothing.
LEMMA OpenFacts ==
    ASSUME TreeInv, pc = "idle", NEW p \in Paths, Walks(p), ~Hidden(p), NEW as
    PROVE  /\ GoodTree(OpenShadow(as, p))
           /\ SameKind(OpenShadow(as, p))
           /\ \A a \in Above[p] : OpenShadow(as, p)[a] \in {NoFile, Dir}
           /\ OpenShadow(as, p)[p] \in {NoFile, Answer(p)}
           /\ LeavesRest(OpenShadow(as, p), shadow, p)
           /\ as = "any" => \A a \in Above[p] : OpenShadow(as, p)[a] = Dir
<1> DEFINE sh == Queried(p)
           new == CopyOnWrite(sh, p)
<1>1. /\ GoodTree(sh)
      /\ \A a \in Above[p] : sh[a] \in {NoFile, Dir}
      /\ sh[p] = IF shadow[p] # NoFile \/ Brings(p) THEN Answer(p) ELSE NoFile
      /\ LeavesRest(sh, shadow, p)
      /\ SameKind(sh)
  BY QueriedFacts
<1>2. \A a \in Above[p] : a \in Paths /\ real[a] \in {NoFile, Dir}
  BY WalkFacts, AboveIsBelow DEF Walks
<1>3. shadow[p] = NoFile /\ ~Brings(p) => Answer(p) = real[p]
  BY DEF Answer
<1> HIDE DEF sh
<1>4. /\ GoodTree(new)
      /\ \A a \in Above[p] : new[a] = Dir
      /\ new[p] = IF sh[p] = NoFile THEN real[p] ELSE sh[p]
      /\ \A x \in Paths \ Above[p] : new[x] \in {NoFile, sh[x], real[x]}
      /\ \A x \in Paths \ Above[p] : ~Within(p, x) => new[x] = sh[x]
  <2>1. real \in [Paths -> Nodes]
    BY DEF TreeInv, GoodTree
  <2>2. real[p] = Dir => sh[p] \in {NoFile, Dir}
    BY <1>1, NodesAssumption DEF SameKind
  <2>3. QED
    BY <1>1, <2>1, <2>2, CopyOnWriteTree
<1> HIDE DEF new
<1>5. SameKind(new)
  BY <1>1, <1>2, <1>4 DEF SameKind
<1>6. LeavesRest(new, shadow, p)
  BY <1>1, <1>4 DEF LeavesRest
<1>7. new[p] \in {NoFile, Answer(p)}
  <2>1. CASE shadow[p] # NoFile \/ Brings(p)
    <3>1. Answer(p) # NoFile
      BY <2>1, BringsFacts DEF Answer
    <3>2. sh[p] = Answer(p)
      BY <1>1, <2>1
    <3>3. QED
      BY <1>4, <3>1, <3>2
  <2>2. CASE ~(shadow[p] # NoFile \/ Brings(p))
    <3>1. sh[p] = NoFile /\ Answer(p) = real[p]
      BY <1>1, <1>3, <2>2
    <3>2. QED
      BY <1>4, <3>1
  <2>3. QED
    BY <2>1, <2>2
<1>8. CASE CopiesFor(as, p)
  <2>1. OpenShadow(as, p) = new
    BY <1>8 DEF OpenShadow, new, sh
  <2>2. QED
    BY <1>4, <1>5, <1>6, <1>7, <2>1
<1>9. CASE ~CopiesFor(as, p)
  <2>1. OpenShadow(as, p) = sh /\ as # "any"
    BY <1>9 DEF OpenShadow, sh, CopiesFor
  <2>2. QED
    BY <1>1, <2>1
<1>10. QED
  BY <1>8, <1>9

\* The records that a create leaves.
LEMMA OpenRecordsFacts ==
    ASSUME TreeInv, pc = "idle", NEW p \in Paths, NEW as
    PROVE  RecordsType(OpenRecords(as, p)) /\ TargetsFree(OpenRecords(as, p))
<1>1. RecordsType(changes) /\ TargetsFree(changes)
  BY DEF TreeInv
<1>2. RecordsType(CopyOnWriteRecord(p)) /\ TargetsFree(CopyOnWriteRecord(p))
  <2>1. CASE real[p] = Dir
    BY <1>1, <2>1 DEF CopyOnWriteRecord
  <2>2. CASE real[p] # Dir
    <3>1. PICK state \in States : /\ state = IF real[p] = NoFile THEN "created" ELSE "modified"
                                  /\ state # "renamed"
      BY DEF States
    <3>2. CopyOnWriteRecord(p) = Upsert(changes, p, state, Root)
      BY <2>2, <3>1 DEF CopyOnWriteRecord
    <3>3. QED
      BY <1>1, <3>1, <3>2, UpsertType
  <2>3. QED
    BY <2>1, <2>2
<1>3. QED
  BY <1>1, <1>2 DEF OpenRecords

-----------------------------------------------------------------------------
(***************************************************************************)
(* The steps.                                                               *)
(***************************************************************************)

\* An operation of a process changes the shadow and the records only.
LEMMA OperationStep ==
    ASSUME TreeInv, pc # "commit", NEW tree, NEW records,
           shadow' = tree, changes' = records, UNCHANGED <<real, todo, pc>>,
           GoodTree(tree), RecordsType(records),
           pc = "idle" => SameKind(tree) /\ TargetsFree(records)
    PROVE  TreeInv'
<1>1. GoodTree(real)' /\ GoodTree(shadow)' /\ RecordsType(changes)'
  BY DEF TreeInv, GoodTree, IsTree, RecordsType
<1>2. pc' = "idle" => TargetsFree(changes)' /\ SameKind(shadow)'
  BY DEF TargetsFree, SameKind
<1>3. todo' \in SUBSET Paths /\ pc' \in {"idle", "commit", "failed"} /\ pc' # "commit"
  BY DEF TreeInv
<1>4. pc' # "failed" => pc' = "idle"
  BY <1>3
<1>5. QED
  BY <1>1, <1>2, <1>3, <1>4 DEF TreeInv

\* What a process can see it can open.
LEMMA AnswerShown == ASSUME NEW p \in Paths, Answer(p) # NoFile PROVE ~Hidden(p)
  BY DEF Answer

\* An open for reading brings what a rename left in the real directory.
LEMMA LookStep == ASSUME TreeInv, NEW p \in Paths, Look(p) PROVE TreeInv'
<1>1. GoodTree(Queried(p)) /\ (pc = "idle" => SameKind(Queried(p)))
  BY QueriedFacts DEF Look
<1>2. RecordsType(changes) /\ (pc = "idle" => TargetsFree(changes))
  BY DEF TreeInv
<1>3. QED
  BY <1>1, <1>2, OperationStep DEF Look

\* PrepareDirectoryView keeps the shadow of the kinds of the real directory.
LEMMA DirectoryViewStep ==
    ASSUME TreeInv, NEW d \in Paths \union {Root}, NEW tree, GoodTree(tree),
           pc = "idle" => SameKind(tree),
           \A x \in ({d} \union Above[d]) \intersect Paths :
               tree[x] \in {NoFile, Dir} /\ (pc = "idle" => real[x] \in {NoFile, Dir})
    PROVE  GoodTree(DirectoryView(tree, d)) /\ (pc = "idle" => SameKind(DirectoryView(tree, d)))
<1>1. PICK dirs : dirs = ({d} \union Above[d]) \intersect Paths
  OBVIOUS
<1>2. \A x \in dirs : tree[x] \in {NoFile, Dir}
  BY <1>1
<1>0. real \in [Paths -> Nodes]
  BY DEF TreeInv, GoodTree
<1>3. /\ GoodTree(DirectoryView(tree, d))
      /\ \A x \in dirs : DirectoryView(tree, d)[x] = Dir
      /\ \A x \in Paths \ dirs : DirectoryView(tree, d)[x] \in {NoFile, tree[x], real[x]}
      /\ d \in Paths => \A x \in Paths \ dirs :
             ~Within(d, x) => DirectoryView(tree, d)[x] = tree[x]
  BY ONLY GoodTree(tree), d \in Paths \union {Root}, <1>0, <1>1, <1>2, DirectoryViewTree
<1>4. PICK new : new = DirectoryView(tree, d)
  OBVIOUS
<1>5. ASSUME pc = "idle" PROVE SameKind(new)
  <2>1. SUFFICES ASSUME NEW x \in Paths, new[x] # NoFile, real[x] # NoFile
                 PROVE  new[x] = Dir <=> real[x] = Dir
    BY DEF SameKind
  <2>2. CASE x \in dirs
    BY <1>1, <1>3, <1>4, <1>5, <2>1, <2>2
  <2>3. CASE x \notin dirs
    BY <1>3, <1>4, <1>5, <2>1, <2>3 DEF SameKind
  <2>4. QED
    BY <2>2, <2>3
<1>6. QED
  BY <1>3, <1>4, <1>5

\* A directory view is prepared where a process has walked to.
LEMMA ListStep == ASSUME TreeInv, NEW d \in Paths \union {Root}, List(d) PROVE TreeInv'
<1>1. RecordsType(changes) /\ (pc = "idle" => TargetsFree(changes))
  BY DEF TreeInv
<1>2. PICK tree : tree = IF d = Root THEN DirectoryView(shadow, d)
                         ELSE IF real[d] = NoFile THEN Queried(d) ELSE DirectoryView(Queried(d), d)
  OBVIOUS
<1>3. /\ pc # "commit" /\ shadow' = tree /\ UNCHANGED <<real, changes, todo, pc>>
      /\ d # Root => Walks(d) /\ Answer(d) = Dir
  BY <1>2 DEF List
<1>4. GoodTree(tree) /\ (pc = "idle" => SameKind(tree))
  <2>1. CASE d = Root
    <3>1. ({d} \union Above[d]) \intersect Paths = {}
      BY <2>1, PathsAssumption DEF Above, Below
    <3>2. GoodTree(shadow) /\ (pc = "idle" => SameKind(shadow))
      BY DEF TreeInv
    <3>3. QED
      BY <1>2, <2>1, <3>1, <3>2, DirectoryViewStep
  <2>2. CASE d # Root
    <3>1. d \in Paths /\ Walks(d) /\ Answer(d) = Dir /\ ~Hidden(d)
      BY <1>3, <2>2, AnswerShown, NodesAssumption
    <3>2. PICK sh : sh = Queried(d)
      OBVIOUS
    <3>3. /\ GoodTree(sh) /\ (pc = "idle" => SameKind(sh))
          /\ \A a \in Above[d] : sh[a] \in {NoFile, Dir}
          /\ sh[d] \in {NoFile, Dir}
      <4>1. /\ GoodTree(Queried(d)) /\ (pc = "idle" => SameKind(Queried(d)))
            /\ \A a \in Above[d] : Queried(d)[a] \in {NoFile, Dir}
            /\ Queried(d)[d] = IF shadow[d] # NoFile \/ Brings(d) THEN Answer(d) ELSE NoFile
        BY <3>1, QueriedFacts
      <4>2. QED
        BY <3>1, <3>2, <4>1
    <3>4. \A x \in {d} \union Above[d] : x \in Paths /\ (pc = "idle" => real[x] \in {NoFile, Dir})
      BY <3>1, WalkFacts, AboveIsBelow DEF Walks
    <3>5. GoodTree(DirectoryView(sh, d)) /\ (pc = "idle" => SameKind(DirectoryView(sh, d)))
      <4>1. \A x \in ({d} \union Above[d]) \intersect Paths :
                sh[x] \in {NoFile, Dir} /\ (pc = "idle" => real[x] \in {NoFile, Dir})
        BY <3>3, <3>4
      <4>2. QED
        BY <3>3, <4>1, DirectoryViewStep
    <3>6. QED
      BY <1>2, <2>2, <3>2, <3>3, <3>5
  <2>3. QED
    BY <2>1, <2>2
<1>5. QED
  BY <1>1, <1>3, <1>4, OperationStep

\* One entry is set: a file where no directory is, or a directory where no file is.
LEMMA SetEntry ==
    ASSUME NEW tree, GoodTree(tree), SameKind(tree), NEW p \in Paths, NEW n \in Nodes,
           \A a \in Above[p] : tree[a] = Dir,
           n # Dir => tree[p] # Dir, n # NoFile,
           real[p] # NoFile => (n = Dir <=> real[p] = Dir)
    PROVE  GoodTree([tree EXCEPT ![p] = n]) /\ SameKind([tree EXCEPT ![p] = n])
<1> DEFINE new == [tree EXCEPT ![p] = n]
<1>1. /\ new \in [Paths -> Nodes] /\ new[p] = n
      /\ \A x \in Paths : x # p => new[x] = tree[x]
  BY DEF GoodTree
<1> HIDE DEF new
<1>2. ASSUME NEW x \in Paths, new[x] # NoFile, NEW a \in Above[x]
      PROVE  new[a] = Dir
  <2>1. a \in Paths /\ x \in Below[a] /\ p \notin Above[p]
    BY AboveIsBelow
  <2>2. CASE x = p
    BY <1>1, <2>1, <2>2
  <2>3. CASE x # p /\ a # p
    BY <1>1, <1>2, <2>1, <2>3 DEF GoodTree, IsTree
  <2>4. CASE x # p /\ a = p
    <3>1. tree[a] = Dir
      BY <1>1, <1>2, <2>4 DEF GoodTree, IsTree
    <3>2. QED
      BY <1>1, <2>4, <3>1
  <2>5. QED
    BY <2>2, <2>3, <2>4
<1>3. GoodTree(new)
  BY <1>1, <1>2 DEF GoodTree, IsTree
<1>4. SameKind(new)
  BY <1>1 DEF SameKind
<1>5. QED
  BY <1>3, <1>4 DEF new

\* A file is written where no directory is, in either tree.
LEMMA WriteStep == ASSUME TreeInv, NEW p \in Paths, Write(p) PROVE TreeInv'
<1>1. PICK open : open = OpenShadow("any", p)
  OBVIOUS
<1>2. /\ pc = "idle" /\ Walks(p) /\ ~Hidden(p) /\ Answer(p) # Dir
      /\ changes' = OpenRecords("any", p) /\ UNCHANGED <<real, todo, pc>>
  BY DEF Write
<1>3. PICK c \in Contents : shadow' = [open EXCEPT ![p] = c]
  BY <1>1 DEF Write
<1>4. /\ GoodTree(open) /\ SameKind(open) /\ open[p] \in {NoFile, Answer(p)}
      /\ \A a \in Above[p] : open[a] = Dir
  BY <1>1, <1>2, OpenFacts
<1>5. c \in Nodes /\ c # Dir /\ c # NoFile /\ open[p] # Dir
  BY <1>2, <1>4, NodesAssumption DEF Nodes
<1>6. real[p] # Dir
  <2>1. SUFFICES ASSUME real[p] = Dir PROVE FALSE
    OBVIOUS
  <2>2. ~Brings(p)
    BY <1>2, <2>1, BringsFacts, NodesAssumption DEF Within
  <2>3. shadow[p] # NoFile => shadow[p] = Dir
    BY <1>2, <2>1, NodesAssumption DEF TreeInv, SameKind
  <2>4. QED
    BY <1>2, <2>1, <2>2, <2>3 DEF Answer
<1>7. GoodTree([open EXCEPT ![p] = c]) /\ SameKind([open EXCEPT ![p] = c])
  BY <1>4, <1>5, <1>6, SetEntry
<1>8. QED
  BY <1>2, <1>3, <1>7, OpenRecordsFacts, OperationStep

\* A directory is made where nothing is, in either tree.
LEMMA MakeDirectoryStep == ASSUME TreeInv, NEW p \in Paths, MakeDirectory(p) PROVE TreeInv'
<1>1. PICK open : open = OpenShadow("any", p)
  OBVIOUS
<1>2. /\ pc = "idle" /\ Walks(p) /\ ~Hidden(p) /\ Answer(p) = NoFile
      /\ shadow' = [open EXCEPT ![p] = Dir]
      /\ changes' = OpenRecords("any", p) /\ UNCHANGED <<real, todo, pc>>
  BY <1>1 DEF MakeDirectory
<1>3. /\ GoodTree(open) /\ SameKind(open)
      /\ \A a \in Above[p] : open[a] = Dir
  BY <1>1, <1>2, OpenFacts
<1>4. real[p] = NoFile
  <2>1. shadow[p] = NoFile
    BY <1>2 DEF Answer
  <2>2. ~Brings(p)
    BY <1>2, <2>1, BringsFacts DEF Answer
  <2>3. QED
    BY <1>2, <2>1, <2>2 DEF Answer
<1>5. Dir \in Nodes /\ Dir # NoFile
  BY NodesAssumption DEF Nodes
<1>6. GoodTree([open EXCEPT ![p] = Dir]) /\ SameKind([open EXCEPT ![p] = Dir])
  BY <1>3, <1>4, <1>5, SetEntry
<1>7. QED
  BY <1>2, <1>6, OpenRecordsFacts, OperationStep

\* A delete removes everything at and below its path from the shadow.
LEMMA DeleteStep == ASSUME TreeInv, NEW p \in Paths, Delete(p) PROVE TreeInv'
<1>1. pc = "idle" /\ Visible(p) /\ UNCHANGED <<real, todo, pc>>
  BY DEF Delete
<1>2. PICK as \in Handles(p) :
          /\ shadow' = RemoveAll(OpenShadow(as, p), p)
          /\ changes' = Upsert(OpenRecords(as, p), p, "tombstone", Root)
  BY DEF Delete
<1>3. PICK open : open = OpenShadow(as, p)
  OBVIOUS
<1>4. GoodTree(open) /\ SameKind(open)
  BY <1>1, <1>3, OpenFacts, AnswerShown DEF Visible, Walks
<1>5. /\ GoodTree(RemoveAll(open, p))
      /\ \A q \in Paths : RemoveAll(open, p)[q] = IF Within(p, q) THEN NoFile ELSE open[q]
  BY <1>4, RemoveAllTree
<1>6. SameKind(RemoveAll(open, p))
  BY <1>4, <1>5 DEF SameKind
<1>7. /\ RecordsType(Upsert(OpenRecords(as, p), p, "tombstone", Root))
      /\ TargetsFree(Upsert(OpenRecords(as, p), p, "tombstone", Root))
  <2>1. "tombstone" \in States /\ Root \in Paths \union {Root}
    BY DEF States
  <2>2. QED
    BY <1>1, <2>1, OpenRecordsFacts, UpsertType
<1>8. QED
  BY <1>1, <1>2, <1>3, <1>5, <1>6, <1>7, OperationStep

\* The tree that a rename moves: a tree of the kinds of the real directory, the
\* same as the shadow where the rename is not at work.
LEMMA RenameTree ==
    ASSUME TreeInv, pc = "idle", NEW p \in Paths, Visible(p), NEW as,
           NEW opened, opened = OpenShadow(as, p),
           NEW ready, ready = IF opened[p] = NoFile THEN CopyOnWrite(opened, p) ELSE opened,
           NEW tree, tree = IF ready[p] = Dir /\ real[p] # NoFile
                            THEN CopyMissing(real, p, ready, p) ELSE ready
    PROVE  /\ GoodTree(tree) /\ SameKind(tree)
           /\ LeavesRest(opened, shadow, p) /\ LeavesRest(tree, opened, p)
<1>1. Walks(p) /\ ~Hidden(p) /\ real \in [Paths -> Nodes] /\ GoodTree(real)
  BY AnswerShown DEF Visible, Walks, TreeInv, GoodTree
<1>2. \A a \in Above[p] : a \in Paths /\ real[a] \in {NoFile, Dir}
  BY <1>1, WalkFacts, AboveIsBelow DEF Walks
<1>3. /\ GoodTree(opened) /\ SameKind(opened)
      /\ \A a \in Above[p] : opened[a] \in {NoFile, Dir}
      /\ LeavesRest(opened, shadow, p)
  BY <1>1, OpenFacts
<1>4. /\ GoodTree(ready) /\ SameKind(ready)
      /\ \A a \in Above[p] : ready[a] \in {NoFile, Dir}
      /\ LeavesRest(ready, opened, p)
  <2>1. CASE opened[p] # NoFile
    BY <1>3, <2>1 DEF LeavesRest
  <2>2. CASE opened[p] = NoFile
    <3>1. ready = CopyOnWrite(opened, p)
      BY <2>2
    <3>2. /\ GoodTree(CopyOnWrite(opened, p))
          /\ \A a \in Above[p] : CopyOnWrite(opened, p)[a] = Dir
          /\ CopyOnWrite(opened, p)[p] = IF opened[p] = NoFile THEN real[p] ELSE opened[p]
          /\ \A x \in Paths \ Above[p] : CopyOnWrite(opened, p)[x] \in {NoFile, opened[x], real[x]}
          /\ \A x \in Paths \ Above[p] : ~Within(p, x) => CopyOnWrite(opened, p)[x] = opened[x]
      BY <1>1, <1>3, <2>2, CopyOnWriteTree
    <3>3. SameKind(ready)
      BY <1>2, <1>3, <3>1, <3>2 DEF SameKind
    <3>4. QED
      BY <3>1, <3>2, <3>3 DEF LeavesRest
  <2>3. QED
    BY <2>1, <2>2
<1>5. GoodTree(tree) /\ SameKind(tree) /\ LeavesRest(tree, ready, p)
  <2>1. CASE ~(ready[p] = Dir /\ real[p] # NoFile)
    BY <1>4, <2>1 DEF LeavesRest
  <2>2. CASE ready[p] = Dir /\ real[p] # NoFile
    <3>1. tree = CopyMissing(real, p, ready, p)
      BY <2>2
    <3>2. \A x \in Paths : Within(p, x) => At(real, Under(p, p, x)) = real[x]
      BY UnderSame DEF At
    <3>3. \A x \in Paths :
              Within(p, x) /\ ready[x] # NoFile /\ At(real, Under(p, p, x)) # NoFile =>
                  (ready[x] = Dir <=> At(real, Under(p, p, x)) = Dir)
      BY <1>4, <3>2 DEF SameKind
    <3>4. /\ GoodTree(CopyMissing(real, p, ready, p))
          /\ \A q \in Above[p] : CopyMissing(real, p, ready, p)[q] = Dir
          /\ \A q \in Paths : ~Within(p, q) /\ q \notin Above[p] =>
                 CopyMissing(real, p, ready, p)[q] = ready[q]
          /\ \A q \in Paths : Within(p, q) =>
                 CopyMissing(real, p, ready, p)[q] =
                     IF ready[q] = NoFile THEN At(real, Under(p, p, q)) ELSE ready[q]
      BY ONLY <1>1, <1>4, <3>3, p \in Paths, CopyMissingTree
    <3>5. \A q \in Paths : Within(p, q) => tree[q] \in {real[q], ready[q]}
      BY <3>1, <3>2, <3>4
    <3>6. ASSUME NEW x \in Paths, tree[x] # NoFile, real[x] # NoFile
          PROVE  tree[x] = Dir <=> real[x] = Dir
      <4>1. CASE Within(p, x)
        BY <1>4, <3>5, <3>6, <4>1 DEF SameKind
      <4>2. CASE x \in Above[p]
        BY <1>2, <3>1, <3>4, <3>6, <4>2
      <4>3. CASE ~Within(p, x) /\ x \notin Above[p]
        BY <1>4, <3>1, <3>4, <3>6, <4>3 DEF SameKind
      <4>4. QED
        BY <4>1, <4>2, <4>3
    <3>7. QED
      BY <3>1, <3>4, <3>6 DEF SameKind, LeavesRest
  <2>3. QED
    BY <2>1, <2>2
<1>6. LeavesRest(tree, opened, p)
  BY <1>4, <1>5 DEF LeavesRest
<1>7. QED
  BY <1>3, <1>5, <1>6

\* The move puts the tree where nothing is, real or not, below directories.
LEMMA MoveTree ==
    ASSUME TreeInv, pc = "idle", NEW p \in Paths, NEW q \in Paths, Visible(p), Walks(q), ~Hidden(q),
           NEW opened, NEW tree, GoodTree(tree), SameKind(tree),
           LeavesRest(opened, shadow, p), LeavesRest(tree, opened, p),
           TargetIsFree(q, opened)
    PROVE  /\ GoodTree(Move(tree, p, q)) /\ SameKind(Move(tree, p, q))
           /\ q \notin Above[p]
           /\ \A x \in Paths : Within(q, x) => Move(tree, p, q)[x] = At(tree, Under(q, p, x))
           /\ \A x \in Above[q] : Move(tree, p, q)[x] = Dir
           /\ \A x \in Paths : ~Within(q, x) /\ x \notin Above[q] =>
                  Move(tree, p, q)[x] = IF Within(p, x) THEN NoFile ELSE tree[x]
<1> DEFINE removed == RemoveAll(tree, p)
<1>1. /\ GoodTree(removed)
      /\ \A x \in Paths : removed[x] = IF Within(p, x) THEN NoFile ELSE tree[x]
  BY RemoveAllTree
<1> HIDE DEF removed
<1>2. real[q] = NoFile /\ opened[q] = NoFile /\ ~Brings(q) /\ GoodTree(real)
  BY DEF TargetIsFree, TreeInv
<1>3. \A x \in Paths : Within(q, x) => real[x] = NoFile
  BY <1>2, NothingBelow, NodesAssumption DEF Within
<1>4. \A a \in Above[q] : a \in Paths /\ shadow[a] \in {NoFile, Dir} /\ real[a] \in {NoFile, Dir}
  BY WalkFacts, AboveIsBelow DEF Walks
<1>5. q \notin Above[p]
  <2>1. SUFFICES ASSUME q \in Above[p] PROVE FALSE
    OBVIOUS
  <2>2. Answer(q) = Dir /\ ~Within(p, q)
    BY <2>1, AboveIsBelow, BelowTransitive DEF Visible, Within
  <2>3. shadow[q] = Dir
    BY <1>2, <2>2, NodesAssumption DEF Answer
  <2>4. QED
    BY <1>2, <2>2, <2>3, NodesAssumption DEF LeavesRest
<1>6. removed[q] = NoFile
  BY <1>1, <1>2, <1>5 DEF LeavesRest
<1>7. \A x \in Paths : Within(q, x) => removed[x] = NoFile
  BY <1>1, <1>6, NothingBelow, NodesAssumption DEF Within
<1>8. ASSUME NEW a \in Above[q]
      PROVE  removed[a] \in {NoFile, Dir}
  <2>1. CASE Within(p, a)
    BY <1>1, <1>4, <2>1
  <2>2. CASE ~Within(p, a)
    BY <1>1, <1>4, <2>2 DEF LeavesRest
  <2>3. QED
    BY <2>1, <2>2
<1>9. /\ GoodTree(CopyOver(tree, p, removed, q))
      /\ \A x \in Above[q] : CopyOver(tree, p, removed, q)[x] = Dir
      /\ \A x \in Paths : ~Within(q, x) /\ x \notin Above[q] =>
             CopyOver(tree, p, removed, q)[x] = removed[x]
      /\ \A x \in Paths : Within(q, x) =>
             CopyOver(tree, p, removed, q)[x] =
                 IF At(tree, Under(q, p, x)) # NoFile THEN At(tree, Under(q, p, x)) ELSE removed[x]
  <2>1. \A x \in Paths :
            Within(q, x) /\ removed[x] # NoFile /\ At(tree, Under(q, p, x)) # NoFile =>
                (removed[x] = Dir <=> At(tree, Under(q, p, x)) = Dir)
    BY <1>7
  <2>2. QED
    BY ONLY GoodTree(tree), <1>1, <1>8, <2>1, p \in Paths, q \in Paths, CopyOverTree
<1>10. PICK new : new = CopyOver(tree, p, removed, q)
  OBVIOUS
<1>11. ASSUME NEW x \in Paths, new[x] # NoFile, real[x] # NoFile
       PROVE  new[x] = Dir <=> real[x] = Dir
  <2>1. ~Within(q, x)
    BY <1>3, <1>11
  <2>2. CASE x \in Above[q]
    BY <1>4, <1>9, <1>10, <1>11, <2>2
  <2>3. CASE x \notin Above[q]
    BY <1>1, <1>9, <1>10, <1>11, <2>1, <2>3 DEF SameKind
  <2>4. QED
    BY <2>2, <2>3
<1>12. \A x \in Paths : Within(q, x) => new[x] = At(tree, Under(q, p, x))
  BY <1>7, <1>9, <1>10
<1>13. \A x \in Paths : ~Within(q, x) /\ x \notin Above[q] =>
           new[x] = IF Within(p, x) THEN NoFile ELSE tree[x]
  BY <1>1, <1>9, <1>10
<1>14. SameKind(new)
  BY <1>11 DEF SameKind
<1>15. Move(tree, p, q) = new
  BY <1>10 DEF Move, removed
<1>16. QED
  BY <1>5, <1>9, <1>10, <1>12, <1>13, <1>14, <1>15

\* A rename moves such a tree, and records a target where nothing real is.
LEMMA RenameStep == ASSUME TreeInv, NEW p \in Paths, NEW q \in Paths, Rename(p, q) PROVE TreeInv'
<1>1. pc = "idle" /\ Visible(p) /\ Walks(q) /\ ~Hidden(q) /\ UNCHANGED <<real, todo, pc>>
  BY DEF Rename
<1>2. PICK as, opened, ready, tree :
          /\ opened = OpenShadow(as, p)
          /\ ready = IF opened[p] = NoFile THEN CopyOnWrite(opened, p) ELSE opened
          /\ tree = IF ready[p] = Dir /\ real[p] # NoFile THEN CopyMissing(real, p, ready, p) ELSE ready
          /\ TargetIsFree(q, opened)
          /\ shadow' = Move(tree, p, q)
          /\ changes' = Renamed(OpenRecords(as, p), p, q, tree)
  BY DEF Rename
<1>3. /\ GoodTree(tree) /\ SameKind(tree)
      /\ LeavesRest(opened, shadow, p) /\ LeavesRest(tree, opened, p)
  BY <1>1, <1>2, RenameTree
<1>4. GoodTree(Move(tree, p, q)) /\ SameKind(Move(tree, p, q))
  BY <1>1, <1>2, <1>3, MoveTree
<1>5. PICK records : records = OpenRecords(as, p)
  OBVIOUS
<1>6. RecordsType(records) /\ TargetsFree(records)
  BY <1>1, <1>5, OpenRecordsFacts
<1>7. PICK kept : kept = IF tree[p] = Dir THEN Forget(records, Below[p]) ELSE records
  OBVIOUS
<1>8. RecordsType(kept) /\ TargetsFree(kept)
  BY <1>6, <1>7, ForgetType
<1>9. RecordsType(Upsert(Forget(kept, {p}), q, "created", Root))
      /\ TargetsFree(Upsert(Forget(kept, {p}), q, "created", Root))
  <2>1. "created" \in States /\ Root \in Paths \union {Root}
    BY DEF States
  <2>2. RecordsType(Forget(kept, {p})) /\ TargetsFree(Forget(kept, {p}))
    BY <1>8, ForgetType
  <2>3. QED
    BY <2>1, <2>2, UpsertType
<1>10. RecordsType(Upsert(kept, p, "renamed", q)) /\ TargetsFree(Upsert(kept, p, "renamed", q))
  <2>1. "renamed" \in States /\ q \in Paths \union {Root} /\ real[q] = NoFile
    BY <1>2 DEF States, TargetIsFree
  <2>2. QED
    BY <1>8, <2>1, UpsertType
<1>11. changes' = IF records[p].state = "created"
                  THEN Upsert(Forget(kept, {p}), q, "created", Root)
                  ELSE Upsert(kept, p, "renamed", q)
  BY <1>2, <1>5, <1>7 DEF Renamed
<1>12. RecordsType(Renamed(records, p, q, tree)) /\ TargetsFree(Renamed(records, p, q, tree))
  BY <1>7, <1>9, <1>10 DEF Renamed
<1>13. QED
  BY <1>1, <1>2, <1>4, <1>5, <1>12, OperationStep

\* Before a commit starts, everything it will copy is in the shadow.
LEMMA StartCommitStep == ASSUME TreeInv, StartCommit PROVE TreeInv'
<1>1. /\ pc = "idle" /\ pc' = "commit" /\ UNCHANGED <<real, shadow, changes>>
      /\ todo' = {p \in Paths : Recorded(p)}
      /\ \A p \in Paths : Recorded(p) => Committable(p)
  BY DEF StartCommit
<1>2. GoodTree(real)' /\ GoodTree(shadow)' /\ RecordsType(changes)' /\ SameKind(shadow)'
  BY <1>1 DEF TreeInv, GoodTree, IsTree, RecordsType, SameKind
<1>3. \A p \in todo' : changes[p].state # "tombstone" => shadow[ShadowOf(p)] # NoFile
  BY <1>1 DEF Committable
<1>4. \A p \in todo' : (changes[p].state # "tombstone" => shadow[ShadowOf(p)] # NoFile)'
  BY <1>1, <1>3 DEF ShadowOf
<1>5. todo' \in SUBSET Paths
  BY <1>1
<1>6. QED
  BY <1>1, <1>2, <1>4, <1>5 DEF TreeInv

\* What a commit copies meets files with files and directories with directories.
LEMMA CommitCopy ==
    ASSUME TreeInv, pc = "commit", NEW p \in todo, changes[p].state # "tombstone",
           NEW t \in Paths, t = ShadowOf(p),
           NEW new, new = CopyOver(shadow, t, real, t)
    PROVE  /\ GoodTree(new)
           /\ \A x \in Paths : shadow[x] # NoFile /\ new[x] # NoFile => (shadow[x] = Dir <=> new[x] = Dir)
<1>1. GoodTree(shadow) /\ GoodTree(real) /\ SameKind(shadow) /\ shadow[t] # NoFile
  BY DEF TreeInv
<1>2. \A a \in Above[t] : shadow[a] = Dir /\ real[a] \in {NoFile, Dir}
  BY <1>1, AboveIsBelow, NodesAssumption DEF GoodTree, IsTree, SameKind
<1>3. \A x \in Paths : Within(t, x) => At(shadow, Under(t, t, x)) = shadow[x]
  BY UnderSame DEF At
<1>4. \A x \in Paths :
          Within(t, x) /\ real[x] # NoFile /\ At(shadow, Under(t, t, x)) # NoFile =>
              (real[x] = Dir <=> At(shadow, Under(t, t, x)) = Dir)
  BY <1>1, <1>3 DEF SameKind
<1>5. /\ GoodTree(CopyOver(shadow, t, real, t))
      /\ \A q \in Above[t] : CopyOver(shadow, t, real, t)[q] = Dir
      /\ \A q \in Paths : ~Within(t, q) /\ q \notin Above[t] =>
             CopyOver(shadow, t, real, t)[q] = real[q]
      /\ \A q \in Paths : Within(t, q) =>
             CopyOver(shadow, t, real, t)[q] =
                 IF At(shadow, Under(t, t, q)) # NoFile THEN At(shadow, Under(t, t, q)) ELSE real[q]
  BY ONLY <1>1, <1>2, <1>4, t \in Paths, CopyOverTree
<1>6. ASSUME NEW x \in Paths, shadow[x] # NoFile, new[x] # NoFile
      PROVE  shadow[x] = Dir <=> new[x] = Dir
  <2>1. CASE Within(t, x)
    BY <1>3, <1>5, <1>6, <2>1
  <2>2. CASE x \in Above[t]
    BY <1>2, <1>5, <2>2
  <2>3. CASE ~Within(t, x) /\ x \notin Above[t]
    BY <1>1, <1>5, <1>6, <2>3 DEF SameKind
  <2>4. QED
    BY <2>1, <2>2, <2>3
<1>7. QED
  BY <1>5, <1>6

\* A record is applied: a part of the shadow over the real directory, or a removal.
LEMMA ApplyStep == ASSUME TreeInv, Apply PROVE TreeInv'
<1>1. /\ pc = "commit" /\ todo # {} /\ ~Blocked(Current) /\ real' = Applied(Current)
      /\ todo' = todo \ {Current} /\ UNCHANGED <<shadow, changes, pc>>
  BY DEF Apply
<1>2. PICK p \in todo : p = Current
  BY <1>1, FirstIn DEF Current, TreeInv
<1>3. p \in Paths /\ GoodTree(real) /\ GoodTree(shadow) /\ SameKind(shadow) /\ RecordsType(changes)
  BY <1>1, <1>2 DEF TreeInv
<1>4. PICK new : new = Applied(p)
  OBVIOUS
<1>5. /\ GoodTree(new)
      /\ \A x \in Paths : shadow[x] # NoFile /\ new[x] # NoFile => (shadow[x] = Dir <=> new[x] = Dir)
  <2>1. CASE changes[p].state = "tombstone"
    <3>1. new = RemoveAll(real, p)
      BY <1>4, <2>1 DEF Applied
    <3>2. QED
      BY <1>3, <3>1, RemoveAllTree DEF SameKind
  <2>2. CASE changes[p].state = "renamed"
    <3>1. PICK t \in Paths : t = changes[p].target /\ t = ShadowOf(p)
      BY <1>3, <2>2 DEF RecordsType, ShadowOf
    <3>2. PICK copied : copied = CopyOver(shadow, t, real, t)
      OBVIOUS
    <3>3. /\ GoodTree(copied)
          /\ \A x \in Paths : shadow[x] # NoFile /\ copied[x] # NoFile => (shadow[x] = Dir <=> copied[x] = Dir)
      BY <1>1, <2>2, <3>1, <3>2, CommitCopy
    <3>4. new = RemoveAll(copied, p)
      BY <1>4, <2>2, <3>1, <3>2 DEF Applied
    <3>5. /\ GoodTree(RemoveAll(copied, p))
          /\ \A x \in Paths : RemoveAll(copied, p)[x] = IF Within(p, x) THEN NoFile ELSE copied[x]
      BY <1>3, <3>3, RemoveAllTree
    <3>6. QED
      BY <3>3, <3>4, <3>5
  <2>3. CASE changes[p].state # "tombstone" /\ changes[p].state # "renamed"
    <3>1. new = CopyOver(shadow, p, real, p) /\ p = ShadowOf(p)
      BY <1>4, <2>3 DEF Applied, ShadowOf
    <3>2. QED
      BY <1>1, <1>3, <2>3, <3>1, CommitCopy
  <2>4. QED
    BY <2>1, <2>2, <2>3
<1>6. real' = new
  BY <1>1, <1>2, <1>4
<1>7. GoodTree(real)' /\ GoodTree(shadow)' /\ RecordsType(changes)'
  BY <1>1, <1>3, <1>5, <1>6 DEF GoodTree, IsTree, RecordsType
<1>8. SameKind(shadow)'
  BY <1>1, <1>5, <1>6 DEF SameKind
<1>9. \A r \in todo' : (changes[r].state # "tombstone" => shadow[ShadowOf(r)] # NoFile)'
  BY <1>1 DEF TreeInv, ShadowOf
<1>10. todo' \in SUBSET Paths
  BY <1>1 DEF TreeInv
<1>11. QED
  BY <1>1, <1>7, <1>8, <1>9, <1>10 DEF TreeInv

\* A commit stops halfway and leaves both trees as they are.
LEMMA FailCommitStep == ASSUME TreeInv, FailCommit PROVE TreeInv'
<1>1. todo' = {} /\ pc' = "failed" /\ UNCHANGED <<real, shadow, changes>>
  BY DEF FailCommit
<1>2. GoodTree(real)' /\ GoodTree(shadow)' /\ RecordsType(changes)'
  BY <1>1 DEF TreeInv, GoodTree, IsTree, RecordsType
<1>3. QED
  BY <1>1, <1>2 DEF TreeInv

\* A directory and records of nothing.
LEMMA NothingType ==
    /\ GoodTree([p \in Paths |-> NoFile])
    /\ SameKind([p \in Paths |-> NoFile])
    /\ RecordsType([p \in Paths |-> NoRecord])
    /\ TargetsFree([p \in Paths |-> NoRecord])
<1>1. NoRecord \in Records /\ NoRecord.state # "renamed"
  BY DEF NoRecord, Records, States, Nodes
<1>2. QED
  BY <1>1 DEF GoodTree, IsTree, SameKind, RecordsType, TargetsFree, Nodes

\* At the end of a commit the shadow and the records go.
LEMMA FinishCommitStep == ASSUME TreeInv, FinishCommit PROVE TreeInv'
<1>1. /\ shadow' = [p \in Paths |-> NoFile] /\ changes' = [p \in Paths |-> NoRecord]
      /\ pc' = "idle" /\ UNCHANGED <<real, todo>>
  BY DEF FinishCommit
<1>2. GoodTree(real)' /\ GoodTree(shadow)' /\ RecordsType(changes)'
  BY <1>1, NothingType DEF TreeInv, GoodTree, IsTree, RecordsType
<1>3. TargetsFree(changes)' /\ SameKind(shadow)'
  BY <1>1, NothingType DEF TargetsFree, SameKind
<1>4. QED
  BY <1>1, <1>2, <1>3 DEF TreeInv

-----------------------------------------------------------------------------
(***************************************************************************)
(* Type correctness.                                                        *)
(***************************************************************************)

\* A rule starts with a real tree and nothing else.
LEMMA TreeInvInit == ASSUME Init PROVE TreeInv
<1>1. GoodTree(real)
  BY TreesAssumption DEF Init, GoodTree
<1>2. QED
  BY <1>1, NothingType DEF Init, TreeInv

\* Every step keeps the invariant.
LEMMA TreeInvNext == ASSUME TreeInv, [Next]_vars PROVE TreeInv'
<1>1. CASE UNCHANGED vars
  BY <1>1 DEF vars, TreeInv, GoodTree, IsTree, RecordsType, TargetsFree, SameKind, ShadowOf
<1>2. CASE Operation
  BY <1>2, LookStep, WriteStep, MakeDirectoryStep, DeleteStep, RenameStep, ListStep DEF Operation
<1>3. CASE Commit
  BY <1>3, StartCommitStep, ApplyStep, FailCommitStep, FinishCommitStep DEF Commit
<1>4. QED
  BY <1>1, <1>2, <1>3 DEF Next

\* The invariant holds at every step: a process that creates, deletes, renames or
\* looks at what it likes, and a commit that puts record after record into the real
\* directory, also one that stops halfway, keep two trees that agree.
THEOREM TreeInvariance == Spec => []TreeInv
<1>1. Init => TreeInv
  BY TreeInvInit
<1>2. TreeInv /\ [Next]_vars => TreeInv'
  BY TreeInvNext
<1>3. QED
  BY <1>1, <1>2, PTL DEF Spec

\* Neither the real directory nor the shadow ever has a file below nothing or below
\* a file: PrepareDirectoryView, PrepareRenamedTargetPath, a rename of a directory
\* and the copies of a commit make trees out of trees.
THEOREM TreeTypeCorrect == Spec => []TypeOK
<1>1. TreeInv => TypeOK
  BY DEF TreeInv, TypeOK, GoodTree, RecordsType
<1>2. QED
  BY <1>1, TreeInvariance, PTL
=============================================================================

-------------------------- MODULE OverlayRulesProofs --------------------------
(***************************************************************************)
(* Theorems about OverlayRules for any rules that are offered, any paths,   *)
(* any 8.3 names and any bounds, in any trouble.                            *)
(***************************************************************************)
EXTENDS OverlayRules, SequenceTheorems, TLAPS

-----------------------------------------------------------------------------
(***************************************************************************)
(* Prefixes.                                                                *)
(***************************************************************************)

\* A path is a prefix of another one that is as long and has its names.
LEMMA PrefixPointwise ==
    ASSUME NEW p \in Path, NEW q \in Path
    PROVE  IsPrefix(p, q) <=> Len(p) <= Len(q) /\ \A i \in 1 .. Len(p) : p[i] = q[i]
<1> USE DEF Path
<1>1. SubSeq(p, 1, Len(p)) = p
  BY SubSeqFull
<1>2. Len(p) <= Len(q) =>
          /\ SubSeq(q, 1, Len(p)) \in Path /\ Len(SubSeq(q, 1, Len(p))) = Len(p)
          /\ \A i \in 1 .. Len(p) : SubSeq(q, 1, Len(p))[i] = q[i]
  OBVIOUS
<1>3. Len(p) <= Len(q) /\ (\A i \in 1 .. Len(p) : p[i] = q[i]) => p = SubSeq(q, 1, Len(p))
  BY <1>2, SeqEqual
<1> QED BY <1>1, <1>2, <1>3 DEF IsPrefix

\* What starts a path that starts another one starts that one.
LEMMA PrefixTransitive ==
    ASSUME NEW p \in Path, NEW q \in Path, NEW f \in Path, IsPrefix(p, q), IsPrefix(q, f)
    PROVE  IsPrefix(p, f)
<1>1. Len(p) \in Nat /\ Len(q) \in Nat /\ Len(f) \in Nat
  BY DEF Path
<1> QED BY <1>1, PrefixPointwise

\* Of two paths that start the same one, one starts the other.
LEMMA PrefixesCompare ==
    ASSUME NEW p \in Path, NEW q \in Path, NEW f \in Path, IsPrefix(p, f), IsPrefix(q, f)
    PROVE  IsPrefix(p, q) \/ IsPrefix(q, p)
<1>1. Len(p) \in Nat /\ Len(q) \in Nat /\ Len(f) \in Nat
  BY DEF Path
<1>2. CASE Len(p) <= Len(q)
  BY <1>1, <1>2, PrefixPointwise
<1>3. CASE Len(q) <= Len(p)
  BY <1>1, <1>3, PrefixPointwise
<1> QED BY <1>1, <1>2, <1>3

\* So what starts them overlaps too.
LEMMA OverlapAbove ==
    ASSUME NEW p \in Path, NEW q \in Path, NEW f \in Path, NEW g \in Path,
           IsPrefix(p, f), IsPrefix(q, g), Overlap(f, g)
    PROVE  Overlap(p, q)
<1>1. CASE IsPrefix(f, g)
  BY <1>1, PrefixTransitive, PrefixesCompare DEF Overlap, SameOrChildPath
<1>2. CASE IsPrefix(g, f)
  BY <1>2, PrefixTransitive, PrefixesCompare DEF Overlap, SameOrChildPath
<1> QED BY <1>1, <1>2 DEF Overlap, SameOrChildPath

\* A path starts with itself.
LEMMA PrefixReflexive ==
    ASSUME NEW p \in Path
    PROVE  IsPrefix(p, p)
BY PrefixPointwise DEF Path

\* What one path put behind another has of names.
LEMMA PathConcat ==
    ASSUME NEW p \in Path, NEW q \in Path
    PROVE  /\ p \o q \in Path /\ Len(p \o q) = Len(p) + Len(q)
           /\ \A i \in 1 .. Len(p) : (p \o q)[i] = p[i]
           /\ \A i \in 1 .. Len(q) : (p \o q)[Len(p) + i] = q[i]
           /\ IsPrefix(p, p \o q)
<1>1. /\ p \o q \in Path /\ Len(p \o q) = Len(p) + Len(q)
      /\ \A i \in 1 .. Len(p) + Len(q) :
            (p \o q)[i] = IF i <= Len(p) THEN p[i] ELSE q[i - Len(p)]
  BY ConcatProperties DEF Path
<1>2. Len(p) \in Nat /\ Len(q) \in Nat
  BY DEF Path
<1>3. \A i \in 1 .. Len(p) : (p \o q)[i] = p[i]
  BY <1>1, <1>2
<1>4. \A i \in 1 .. Len(q) : (p \o q)[Len(p) + i] = q[i]
  <2>1. SUFFICES ASSUME NEW i \in 1 .. Len(q)
                 PROVE  (p \o q)[Len(p) + i] = q[i]
    OBVIOUS
  <2>2. /\ Len(p) + i \in 1 .. Len(p) + Len(q) /\ ~(Len(p) + i <= Len(p))
        /\ (Len(p) + i) - Len(p) = i
    BY <1>2
  <2> QED BY <1>1, <2>2
<1>5. IsPrefix(p, p \o q)
  <2>1. Len(p) <= Len(p \o q) /\ \A i \in 1 .. Len(p) : p[i] = (p \o q)[i]
    BY <1>1, <1>2, <1>3
  <2> QED BY <2>1, <1>1, PrefixPointwise
<1> QED BY <1>1, <1>3, <1>4, <1>5

\* What a path and one more name have of names.
LEMMA PathAppend ==
    ASSUME NEW p \in Path, NEW n \in Names
    PROVE  /\ Append(p, n) \in Path /\ Append(p, n) # <<>>
           /\ Len(Append(p, n)) = Len(p) + 1 /\ Append(p, n)[Len(p) + 1] = n
           /\ \A i \in 1 .. Len(p) : Append(p, n)[i] = p[i]
           /\ IsPrefix(p, Append(p, n))
<1>1. /\ Append(p, n) \in Path /\ Append(p, n) # <<>>
      /\ Len(Append(p, n)) = Len(p) + 1 /\ Append(p, n)[Len(p) + 1] = n
      /\ \A i \in 1 .. Len(p) : Append(p, n)[i] = p[i]
  BY AppendProperties DEF Path
<1>2. IsPrefix(p, Append(p, n))
  <2>1. Len(p) <= Len(Append(p, n)) /\ \A i \in 1 .. Len(p) : p[i] = Append(p, n)[i]
    BY <1>1 DEF Path
  <2> QED BY <2>1, <1>1, PrefixPointwise
<1> QED BY <1>1, <1>2

\* A path that starts with another one is that and its rest.
LEMMA PathRest ==
    ASSUME NEW p \in Path, NEW f \in Path, IsPrefix(p, f)
    PROVE  \A rest : rest = SubSeq(f, Len(p) + 1, Len(f)) =>
               /\ rest \in Path /\ Len(f) = Len(p) + Len(rest)
               /\ \A i \in 1 .. Len(rest) : rest[i] = f[Len(p) + i]
               /\ f = p \o rest
<1> SUFFICES ASSUME NEW rest, rest = SubSeq(f, Len(p) + 1, Len(f))
             PROVE  /\ rest \in Path /\ Len(f) = Len(p) + Len(rest)
                    /\ \A i \in 1 .. Len(rest) : rest[i] = f[Len(p) + i]
                    /\ f = p \o rest
  OBVIOUS
<1>1. Len(p) \in Nat /\ Len(f) \in Nat /\ Len(p) <= Len(f)
  BY PrefixPointwise DEF Path
<1>2. \A i \in Len(p) + 1 .. Len(f) : f[i] \in Names
  BY <1>1, ElementOfSeq DEF Path
<1>3. /\ rest \in Path /\ Len(rest) = Len(f) - Len(p)
      /\ \A i \in 1 .. Len(rest) : rest[i] = f[Len(p) + i]
  <2>1. /\ rest \in Seq(Names)
        /\ Len(rest) = IF Len(p) + 1 <= Len(f) THEN Len(f) - (Len(p) + 1) + 1 ELSE 0
        /\ \A i \in 1 .. Len(f) - (Len(p) + 1) + 1 : rest[i] = f[Len(p) + 1 + i - 1]
    BY <1>1, <1>2, SubSeqProperties
  <2>2. Len(rest) = Len(f) - Len(p)
    BY <2>1, <1>1
  <2> QED BY <2>1, <2>2, <1>1 DEF Path
<1>4. /\ p \o rest \in Path /\ Len(p \o rest) = Len(f)
      /\ \A i \in 1 .. Len(f) : (p \o rest)[i] = f[i]
  <2>1. /\ p \o rest \in Path /\ Len(p \o rest) = Len(p) + Len(rest)
        /\ \A i \in 1 .. Len(p) : (p \o rest)[i] = p[i]
        /\ \A i \in 1 .. Len(rest) : (p \o rest)[Len(p) + i] = rest[i]
    BY <1>3, PathConcat
  <2>2. SUFFICES ASSUME NEW i \in 1 .. Len(f), ~(i <= Len(p))
                 PROVE  (p \o rest)[i] = f[i]
    BY <2>1, <1>1, <1>3, PrefixPointwise
  <2>3. i - Len(p) \in 1 .. Len(rest) /\ Len(p) + (i - Len(p)) = i
    BY <2>2, <1>1, <1>3
  <2> QED BY <2>1, <2>3, <1>3
<1>5. f = p \o rest
  BY <1>4, SeqEqual DEF Path
<1> QED BY <1>1, <1>3, <1>5

-----------------------------------------------------------------------------
(***************************************************************************)
(* Long and short names.                                                    *)
(***************************************************************************)

\* A name has one long form, which is that of its 8.3 form too.
LEMMA LongNames ==
    /\ \A m \in DOMAIN ShortNames : LongName(ShortNames[m]) = m
    /\ \A n : LongName(LongName(n)) = LongName(n)
    /\ \A n \in Names : LongName(n) \in Names
<1>1. \A m \in DOMAIN ShortNames : LongName(ShortNames[m]) = m
  BY ShortNamesAssumption DEF LongName
<1>2. \A n : (\E m \in DOMAIN ShortNames : ShortNames[m] = n) \/ LongName(n) = n
  BY DEF LongName
<1>3. \A m \in DOMAIN ShortNames : LongName(m) = m
  BY <1>2, ShortNamesAssumption
<1>4. \A n : LongName(LongName(n)) = LongName(n)
  BY <1>1, <1>2, <1>3
<1>5. \A n \in Names : LongName(n) \in Names
  BY <1>1, <1>2, PathsAssumption
<1> QED BY <1>1, <1>4, <1>5

\* A path is normalised name by name.
LEMMA NormalizedPath ==
    ASSUME NEW p \in Path
    PROVE  /\ NormalizePath(p) \in Path /\ Len(NormalizePath(p)) = Len(p)
           /\ \A i \in 1 .. Len(p) : NormalizePath(p)[i] = LongName(p[i])
           /\ NormalizePath(NormalizePath(p)) = NormalizePath(p)
<1> DEFINE n == NormalizePath(p)
<1>1. DOMAIN p = 1 .. Len(p) /\ Len(p) \in Nat /\ \A i \in 1 .. Len(p) : p[i] \in Names
  BY LenProperties, ElementOfSeq DEF Path
<1>2. n = [i \in 1 .. Len(p) |-> LongName(p[i])]
  BY <1>1 DEF NormalizePath
<1>3. n \in [1 .. Len(p) -> Names]
  BY <1>1, <1>2, LongNames
<1>4. n \in Path /\ Len(n) = Len(p)
  <2>1. n \in Seq(Names)
    BY <1>1, <1>3, SeqDef
  <2>2. Len(n) = Len(p)
    BY <2>1, <1>1, <1>2, LenProperties
  <2> QED BY <2>1, <2>2 DEF Path
<1>5. NormalizePath(n) = n
  <2>1. DOMAIN n = 1 .. Len(p)
    BY <1>2
  <2>2. NormalizePath(n) = [i \in 1 .. Len(p) |-> LongName(n[i])]
    BY <2>1 DEF NormalizePath
  <2>3. \A i \in 1 .. Len(p) : LongName(n[i]) = n[i]
    BY <1>2, LongNames
  <2> QED BY <1>2, <2>2, <2>3
<1> QED BY <1>2, <1>4, <1>5

\* What starts a path starts it in the long form too.
LEMMA NormalizedPrefix ==
    ASSUME NEW p \in Path, NEW f \in Path, IsPrefix(p, f)
    PROVE  IsPrefix(NormalizePath(p), NormalizePath(f))
<1>1. Len(p) \in Nat /\ Len(f) \in Nat /\ Len(p) <= Len(f) /\ \A i \in 1 .. Len(p) : p[i] = f[i]
  BY PrefixPointwise DEF Path
<1>2. /\ Len(NormalizePath(p)) <= Len(NormalizePath(f))
      /\ \A i \in 1 .. Len(NormalizePath(p)) : NormalizePath(p)[i] = NormalizePath(f)[i]
  BY <1>1, NormalizedPath
<1> QED BY <1>2, NormalizedPath, PrefixPointwise

\* The driver finds a source that is given in its long form in any mix of long
\* and 8.3 names.
LEMMA MatchIsPrefix ==
    ASSUME NEW s \in Path, NormalizePath(s) = s, NEW path \in Path, NEW entry,
           entry.source = s, entry.alias = GetShortDosPath(s)
    PROVE  MatchSourcePathPrefix(entry, path) <=> IsPrefix(s, NormalizePath(path))
<1>1. /\ DOMAIN s = 1 .. Len(s) /\ Len(s) \in Nat /\ Len(path) \in Nat
      /\ DOMAIN path = 1 .. Len(path)
  BY LenProperties DEF Path
<1>2. \A i \in 1 .. Len(s) : LongName(s[i]) = s[i]
  BY NormalizedPath
<1>3. \A i \in 1 .. Len(s) : GetShortDosPath(s)[i] = ShortName(s[i])
  BY <1>1 DEF GetShortDosPath
<1>4. ASSUME NEW i \in 1 .. Len(s)
      PROVE  path[i] \in {s[i], ShortName(s[i])} <=> LongName(path[i]) = s[i]
  <2>1. path[i] = ShortName(s[i]) => path[i] = s[i] \/ LongName(path[i]) = s[i]
    BY LongNames DEF ShortName
  <2>2. LongName(path[i]) = s[i] => path[i] = s[i] \/ path[i] = ShortName(s[i])
    BY LongNames DEF LongName, ShortName
  <2> QED BY <1>2, <2>1, <2>2
<1>5. MatchSourcePathPrefix(entry, path) <=>
          Len(s) <= Len(path) /\ \A i \in 1 .. Len(s) : LongName(path[i]) = s[i]
  BY <1>1, <1>3, <1>4 DEF MatchSourcePathPrefix
<1>6. IsPrefix(s, NormalizePath(path)) <=>
          Len(s) <= Len(path) /\ \A i \in 1 .. Len(s) : LongName(path[i]) = s[i]
  BY <1>1, NormalizedPath, PrefixPointwise
<1> QED BY <1>5, <1>6

\* The names of trees moved aside do not occur in a path.
Clean(path) == \A i \in 1 .. Len(path) : path[i] \notin ToSet(StageNames)

\* A path without such names has none in its long form.
LEMMA CleanNormalized ==
    ASSUME NEW p \in Path, ~HasStageName(p)
    PROVE  Clean(NormalizePath(p))
<1>1. DOMAIN p = 1 .. Len(p)
  BY LenProperties DEF Path
<1> QED BY <1>1, NormalizedPath DEF Clean, HasStageName, IsStageName

-----------------------------------------------------------------------------
(***************************************************************************)
(* The inductive form of TypeOK.                                            *)
(***************************************************************************)
WrittenPaths == {NormalizePath(p) : p \in Opened}
Statuses == {"pending", "running", "done", "failed"}
Rows == [id : Names, path : Path, status : Statuses]
Places == {"idle", "delete", "apply", "forget", "enqueue", "resume",
           "down", "cleanup", "remove", "mark"}

\* The service ended, or starts and goes through the queue.
Starting == {"down", "cleanup", "remove", "mark"}

SceneType ==
    /\ scene \in Scenes
    /\ staged \in Nat /\ staged <= scene.trees
    /\ stops \in Nat /\ stops <= MaxStops
    /\ dirs \subseteq SourcesOf(scene.offers) \union Removable

RulesType ==
    /\ rules \subseteq Table
    /\ \A r, q \in rules : r.id = q.id => r = q
    /\ \A r \in rules : r.id \in used

\* The rows of changes and of the queue, and their rules.
RowsType ==
    /\ \A c \in changes : Rule(c.id) # {} /\ c.path \in WrittenPaths
    /\ cleanup \in Seq(Rows)
    /\ \A i \in DOMAIN cleanup : Rule(cleanup[i].id) # {}

DiskType == disk \subseteq Path

OpType ==
    /\ op \in [pc : Places, id : Names \union {"none"}, action : {"none", "commit", "discard"},
               was : BOOLEAN, tree : Path, next : Nat, lost : BOOLEAN]
    /\ op.pc \in {"forget", "enqueue"} => Rule(op.id) # {}
    /\ op.pc \in {"cleanup", "remove", "mark"} => op.next > 0
    /\ op.pc \in {"remove", "mark"} => op.next <= Len(cleanup)

ReqType ==
    /\ req.pc \in {"idle", "copy", "record"}
    /\ req.rule \in Table \union {NoRule}
    /\ req.pc # "idle" => req.rule \in Table /\ req.path \in WrittenPaths
    /\ op.pc \in Starting => req.pc = "idle"

TypeInv == SceneType /\ RulesType /\ RowsType /\ DiskType /\ OpType /\ ReqType

\* What is known of every rule that an offer makes.
LEMMA TableFacts ==
    ASSUME SceneType
    PROVE  \A r \in Table :
               /\ r \in [id : Names, enabled : BOOLEAN, source : Path, store : Path]
               /\ NormalizePath(r.source) = r.source
               /\ NormalizePath(r.store) \in Path
               /\ Clean(NormalizePath(r.store))
<1>1. /\ scene.offers \subseteq [id : Names, source : Path, store : Path]
      /\ \A offer \in scene.offers : ~HasStageName(offer.store) /\ ~IsStageName(offer.id)
      /\ BoxesRoot \in Path /\ ~HasStageName(BoxesRoot)
  BY PathsAssumption, StageNamesAssumption DEF SceneType
<1>2. ASSUME NEW offer \in scene.offers
      PROVE  /\ NewRule(offer).store \in Path
             /\ Clean(NormalizePath(NewRule(offer).store))
  <2>1. CASE offer.store = <<>>
    <3>1. NewRule(offer).store = Append(BoxesRoot, offer.id)
      BY <2>1 DEF NewRule, DefaultStoreRootForRule
    <3>2. /\ Append(BoxesRoot, offer.id) \in Path
          /\ Len(Append(BoxesRoot, offer.id)) = Len(BoxesRoot) + 1
          /\ Append(BoxesRoot, offer.id)[Len(BoxesRoot) + 1] = offer.id
          /\ \A i \in 1 .. Len(BoxesRoot) : Append(BoxesRoot, offer.id)[i] = BoxesRoot[i]
      BY <1>1, PathAppend
    <3>3. DOMAIN BoxesRoot = 1 .. Len(BoxesRoot) /\ Len(BoxesRoot) \in Nat
          /\ DOMAIN Append(BoxesRoot, offer.id) = 1 .. Len(BoxesRoot) + 1
      BY <1>1, <3>2, LenProperties DEF Path
    <3>4. ~HasStageName(Append(BoxesRoot, offer.id))
      BY <1>1, <3>2, <3>3 DEF HasStageName
    <3> QED BY <3>1, <3>2, <3>4, CleanNormalized
  <2>2. CASE offer.store # <<>>
    <3>1. offer.store \in Path /\ NewRule(offer).store = NormalizePath(offer.store)
      BY <1>1, <2>2 DEF NewRule
    <3> QED BY <1>1, <3>1, NormalizedPath, CleanNormalized
  <2> QED BY <2>1, <2>2
<1>3. ASSUME NEW offer \in scene.offers
      PROVE  /\ NormalizePath(offer.source) \in Path
             /\ NormalizePath(NormalizePath(offer.source)) = NormalizePath(offer.source)
  <2>1. offer.source \in Path
    BY <1>1
  <2> QED BY <2>1, NormalizedPath
<1>4. ASSUME NEW r \in Table
      PROVE  /\ r \in [id : Names, enabled : BOOLEAN, source : Path, store : Path]
             /\ NormalizePath(r.source) = r.source
             /\ Clean(NormalizePath(r.store))
  <2>1. PICK offer \in scene.offers : r.store = NewRule(offer).store
    BY DEF Table
  <2>2. PICK other \in scene.offers : r.source = NormalizePath(other.source)
    BY DEF Table, SourcesOf
  <2>3. r.id \in Names
    BY <1>1 DEF Table
  <2> QED BY <1>2, <1>3, <2>1, <2>2, <2>3 DEF Table
<1>5. \A r \in Table : NormalizePath(r.store) \in Path
  BY <1>4, NormalizedPath
<1> QED BY <1>4, <1>5

\* The rule that an offer makes is one of them.
LEMMA NewRuleType ==
    ASSUME SceneType, NEW offer \in scene.offers
    PROVE  NewRule(offer) \in Table
BY DEF NewRule, Table, SourcesOf

\* The paths that are written have no name of a tree moved aside.
LEMMA WrittenFacts ==
    \A p \in WrittenPaths : p \in Path /\ Clean(p) /\ NormalizePath(p) = p
<1>1. \A p \in Opened : p \in Path /\ ~HasStageName(p)
  BY PathsAssumption, StageNamesAssumption
<1>2. ASSUME NEW p \in Opened
      PROVE  NormalizePath(p) \in Path /\ Clean(NormalizePath(p))
             /\ NormalizePath(NormalizePath(p)) = NormalizePath(p)
  BY <1>1, NormalizedPath, CleanNormalized
<1> QED BY <1>2 DEF WrittenPaths

(***************************************************************************)
(* Which actions write what.                                                *)
(***************************************************************************)

\* Rules that differ in no more than whether they are enabled.
Twins(r, q) == r.id = q.id /\ r.source = q.source /\ r.store = q.store

\* A rule is enabled or disabled and all others stay as they are.
LEMMA EnableKeepsRules ==
    ASSUME SceneType, RulesType, NEW rule \in rules, NEW b \in BOOLEAN
    PROVE  LET now == WithEnabled(rule, b) IN
           /\ now \subseteq Table
           /\ \A r, q \in now : r.id = q.id => r = q
           /\ \A r \in now : \E q \in rules : Twins(r, q)
           /\ \A r \in rules : \E q \in now : Twins(r, q)
<1> DEFINE new == [rule EXCEPT !.enabled = b]
           now == WithEnabled(rule, b)
<1>1. rule \in Table /\ rule.id \in Names
  BY TableFacts DEF RulesType
<1>2. new \in Table /\ Twins(new, rule)
  BY <1>1 DEF Table, Twins
<1>3. \A r \in now : r = new \/ (r \in rules /\ r.id # rule.id)
  BY DEF WithEnabled, Without
<1>4. \A r \in rules : r = rule \/ r \in now
  BY DEF WithEnabled, Without, RulesType
<1>5. new \in now
  BY DEF WithEnabled
<1>6. now \subseteq Table
  BY <1>2, <1>3 DEF RulesType
<1>7. \A r, q \in now : r.id = q.id => r = q
  BY <1>2, <1>3 DEF Twins, RulesType
<1>8. \A r \in now : \E q \in rules : Twins(r, q)
  BY <1>2, <1>3 DEF Twins
<1>9. \A r \in rules : \E q \in now : Twins(r, q)
  BY <1>2, <1>4, <1>5 DEF Twins
<1> QED BY <1>6, <1>7, <1>8, <1>9

\* What a step does with each variable.
LEMMA Writers ==
    ASSUME [Next]_vars
    PROVE  /\ scene' = scene /\ stops' \in {stops, stops + 1} /\ (stops' # stops => stops < MaxStops)
           /\ dirs' \subseteq dirs \union Removable
           /\ \/ rules' = rules /\ used' = used
              \/ \E offer \in scene.offers : AddRule(offer)
              \/ \E rule \in rules, b \in BOOLEAN : rules' = WithEnabled(rule, b) /\ used' = used
              \/ DeleteRule
           /\ \/ cache' = Pushed(rules')
              \/ cache' = cache
           /\ changes' = changes \/ Record \/ DeleteRule \/ Forget
           /\ \/ cleanup' = cleanup
              \/ DeleteRule \/ Enqueue \/ RefuseRow \/ BeginRow \/ FailRemoveTree \/ MarkDone
           /\ \/ disk' = disk
              \/ Copy \/ RemoveShadow \/ Isolate \/ FailForget \/ RemoveTree \/ FailRemoveTree
           /\ req' = req \/ (\E path \in Opened : Request(path)) \/ Copy \/ req' = NoRequest
           /\ staged' = staged \/ Isolate
           /\ orphans \subseteq orphans'
<1> USE DEF tables, environment, queueing
<1>1. CASE UNCHANGED vars
  BY <1>1 DEF vars
<1>2. CASE RuleCommand
  <2>1. CASE \E offer \in scene.offers : AddRule(offer)
    BY <2>1 DEF AddRule, SetRules
  <2>2. CASE \E rule \in rules, enabled \in BOOLEAN : SetRuleEnabled(rule, enabled)
    BY <2>2 DEF SetRuleEnabled, SetRules
  <2>3. CASE \E rule \in rules : CheckDelete(rule)
    BY <2>3 DEF CheckDelete
  <2>4. CASE DeleteRule
    BY <2>4 DEF DeleteRule, SetRules
  <2>5. CASE FailDelete
    BY <2>5 DEF FailDelete
  <2> QED BY <1>2, <2>1, <2>2, <2>3, <2>4, <2>5 DEF RuleCommand
<1>3. CASE DriverRequest
  <2>1. CASE \E path \in Opened : Request(path)
    BY <2>1 DEF Request
  <2>2. CASE Copy
    BY <2>2 DEF Copy
  <2>3. CASE FailRequest
    BY <2>3 DEF FailRequest
  <2>4. CASE Record
    BY <2>4 DEF Record
  <2> QED BY <1>3, <2>1, <2>2, <2>3, <2>4 DEF DriverRequest
<1>4. CASE Operation
  <2>1. ASSUME NEW rule \in rules, NEW action \in {"commit", "discard"}, Begin(rule, action)
        PROVE  /\ UNCHANGED <<scene, stops, dirs, used, changes, cleanup, disk, req, staged, orphans>>
               /\ \/ rules' = WithEnabled(rule, FALSE) /\ cache' = Pushed(rules')
                  \/ UNCHANGED <<rules, cache>>
    BY <2>1 DEF Begin, SetRules
  <2>2. CASE FailApply
    BY <2>2 DEF FailApply
  <2>3. CASE RemoveShadow
    BY <2>3 DEF RemoveShadow
  <2>4. CASE Isolate
    BY <2>4 DEF Isolate
  <2>5. CASE Forget
    BY <2>5 DEF Forget
  <2>6. CASE FailForget
    BY <2>6 DEF FailForget
  <2>7. CASE Enqueue
    BY <2>7 DEF Enqueue
  <2>8. CASE FailEnqueue
    BY <2>8 DEF FailEnqueue
  <2>9. CASE Resume
    <3>1. /\ UNCHANGED <<scene, stops, dirs, used, changes, cleanup, disk, req, staged, orphans>>
          /\ \/ \E rule \in rules : rules' = WithEnabled(rule, TRUE) /\ cache' = Pushed(rules')
             \/ UNCHANGED <<rules, cache>>
      BY <2>9 DEF Resume, SetRules, Rule
    <3> QED BY <3>1
  <2> QED BY <1>4, <2>1, <2>2, <2>3, <2>4, <2>5, <2>6, <2>7, <2>8, <2>9 DEF Operation
<1>5. CASE Crash
  BY <1>5 DEF Crash
<1>6. CASE Start
  <2>1. /\ UNCHANGED <<scene, stops, dirs, used, changes, cleanup, disk, cache, req, staged, orphans>>
        /\ \/ \E rule \in rules : rules' = WithEnabled(rule, TRUE)
           \/ UNCHANGED rules
    BY <1>6 DEF Start, Rule
  <2> QED BY <2>1
<1>7. CASE ProcessCleanupQueue
  <2>1. CASE SkipRow
    BY <2>1 DEF SkipRow
  <2>2. CASE RefuseRow
    BY <2>2 DEF RefuseRow
  <2>3. CASE BeginRow
    BY <2>3 DEF BeginRow
  <2>4. CASE RemoveTree
    BY <2>4 DEF RemoveTree
  <2>5. CASE FailRemoveTree
    BY <2>5 DEF FailRemoveTree
  <2>6. CASE MarkDone
    BY <2>6 DEF MarkDone
  <2>7. CASE FinishStart
    BY <2>7 DEF FinishStart, SetRules
  <2> QED BY <1>7, <2>1, <2>2, <2>3, <2>4, <2>5, <2>6, <2>7 DEF ProcessCleanupQueue
<1>8. CASE \E source \in Removable : ToggleSource(source)
  BY <1>8 DEF ToggleSource
<1>9. CASE UsedUp
  BY <1>9 DEF UsedUp, vars
<1> QED BY <1>1, <1>2, <1>3, <1>4, <1>5, <1>6, <1>7, <1>8, <1>9 DEF Next

\* The rules stay well-formed.  No rule changes more than whether it is enabled,
\* none but AddRule adds one, and none but DeleteRule deletes one.
LEMMA RulesStep ==
    ASSUME SceneType, RulesType, [Next]_vars
    PROVE  /\ RulesType'
           /\ Table' = Table
           /\ \/ \A r \in rules' : \E q \in rules : Twins(r, q)
              \/ \E offer \in scene.offers : AddRule(offer)
           /\ \/ \A r \in rules : \E q \in rules' : Twins(r, q)
              \/ DeleteRule
<1>1. scene' = scene /\ Table' = Table
  BY Writers DEF Table, SourcesOf
<1>2. CASE rules' = rules /\ used' = used
  BY <1>1, <1>2 DEF RulesType, Twins
<1>3. ASSUME NEW offer \in scene.offers, AddRule(offer)
      PROVE  RulesType' /\ \A r \in rules : \E q \in rules' : Twins(r, q)
  <2>1. /\ rules' = rules \union {NewRule(offer)} /\ used' = used \union {offer.id}
        /\ offer.id \notin used
    BY <1>3 DEF AddRule, SetRules
  <2>2. NewRule(offer).id = offer.id
    BY DEF NewRule
  <2>3. rules' \subseteq Table
    BY <2>1, NewRuleType DEF RulesType
  <2>4. \A r, q \in rules' : r.id = q.id => r = q
    BY <2>1, <2>2 DEF RulesType
  <2>5. \A r \in rules' : r.id \in used'
    BY <2>1, <2>2 DEF RulesType
  <2>6. \A r \in rules : \E q \in rules' : Twins(r, q)
    BY <2>1 DEF Twins
  <2> QED BY <1>1, <2>3, <2>4, <2>5, <2>6 DEF RulesType
<1>4. ASSUME NEW rule \in rules, NEW b \in BOOLEAN, rules' = WithEnabled(rule, b), used' = used
      PROVE  /\ RulesType'
             /\ \A r \in rules' : \E q \in rules : Twins(r, q)
             /\ \A r \in rules : \E q \in rules' : Twins(r, q)
  <2>1. /\ rules' \subseteq Table
        /\ \A r, q \in rules' : r.id = q.id => r = q
        /\ \A r \in rules' : \E q \in rules : Twins(r, q)
        /\ \A r \in rules : \E q \in rules' : Twins(r, q)
    BY <1>4, EnableKeepsRules
  <2>2. \A r \in rules' : r.id \in used'
    BY <2>1, <1>4 DEF Twins, RulesType
  <2> QED BY <1>1, <2>1, <2>2 DEF RulesType
<1>5. CASE DeleteRule
  <2>1. rules' \subseteq rules /\ used' = used
    BY <1>5 DEF DeleteRule, SetRules, Without
  <2> QED BY <1>1, <2>1, <1>5 DEF RulesType, Twins
<1> QED BY <1>1, <1>2, <1>3, <1>4, <1>5, Writers

\* Unless a rule is deleted, every id that has a rule keeps it.
LEMMA RuleStays ==
    ASSUME SceneType, RulesType, [Next]_vars, ~DeleteRule, NEW id, Rule(id) # {}
    PROVE  Rule(id)' # {} /\ \A r \in Rule(id) : \E q \in Rule(id)' : Twins(r, q)
<1>1. \A r \in Rule(id) : \E q \in rules' : Twins(r, q)
  BY RulesStep DEF Rule
<1>2. \A r \in Rule(id) : \E q \in Rule(id)' : Twins(r, q)
  BY <1>1 DEF Rule, Twins
<1> QED BY <1>2

\* Counts and directories stay in their bounds.
LEMMA SceneStep ==
    ASSUME SceneType, [Next]_vars
    PROVE  SceneType'
<1>1. staged' \in Nat /\ staged' <= scene.trees
  <2>1. CASE Isolate
    <3>1. scene.trees \in Nat
      BY ScenesAssumption DEF SceneType
    <3>2. PICK rule \in Rule(op.id) :
              staged' = staged \/ (staged < scene.trees /\ staged' = staged + 1)
      BY <2>1 DEF Isolate
    <3> QED BY <3>1, <3>2 DEF SceneType
  <2> QED BY <2>1, Writers DEF SceneType
<1>2. stops' \in Nat /\ stops' <= MaxStops
  BY Writers, BoundsAssumption DEF SceneType
<1> QED BY <1>1, <1>2, Writers DEF SceneType, SourcesOf

\* The queue holds rows, and rows of changes and of the queue their rules.
LEMMA QueueRows ==
    ASSUME NEW queue \in Seq(Rows), NEW i \in 1 .. Len(queue), NEW status \in Statuses
    PROVE  LET new == [queue EXCEPT ![i].status = status] IN
           /\ new \in Seq(Rows) /\ Len(new) = Len(queue)
           /\ \A j \in 1 .. Len(queue) :
                 /\ new[j].id = queue[j].id /\ new[j].path = queue[j].path
                 /\ new[j].status = IF j = i THEN status ELSE queue[j].status
<1> DEFINE row == [queue[i] EXCEPT !.status = status]
           new == [queue EXCEPT ![i].status = status]
<1>1. queue[i] \in Rows
  BY ElementOfSeq
<1>2. row \in Rows /\ row.id = queue[i].id /\ row.path = queue[i].path /\ row.status = status
  BY <1>1 DEF Rows
<1>3. new = [queue EXCEPT ![i] = row]
  OBVIOUS
<1>4. /\ new \in Seq(Rows) /\ Len(new) = Len(queue)
      /\ \A j \in 1 .. Len(queue) : new[j] = IF j = i THEN row ELSE queue[j]
  BY <1>2, <1>3, ExceptSeq
<1> QED BY <1>2, <1>4

\* A status that is written is that of the row in hand.
StatusWritten(status) ==
    /\ op.next \in 1 .. Len(cleanup)
    /\ Len(cleanup') = Len(cleanup)
    /\ \A j \in 1 .. Len(cleanup) :
          /\ cleanup'[j].id = cleanup[j].id /\ cleanup'[j].path = cleanup[j].path
          /\ cleanup'[j].status = IF j = op.next THEN status ELSE cleanup[j].status

\* What may become of the queue.
LEMMA QueueStep ==
    ASSUME SceneType, RulesType, RowsType, OpType, [Next]_vars
    PROVE  /\ cleanup' \in Seq(Rows)
           /\ \/ ~DeleteRule /\ cleanup' = cleanup
              \/ /\ DeleteRule
                 /\ \A i \in 1 .. Len(cleanup') : \E j \in 1 .. Len(cleanup) :
                       cleanup'[i] = cleanup[j] /\ cleanup[j].id # op.id
                 /\ \A j \in 1 .. Len(cleanup) : cleanup[j].id # op.id =>
                       \E i \in 1 .. Len(cleanup') : cleanup'[i] = cleanup[j]
              \/ /\ Enqueue
                 /\ Len(cleanup') = Len(cleanup) + 1
                 /\ \A j \in 1 .. Len(cleanup) : cleanup'[j] = cleanup[j]
                 /\ cleanup'[Len(cleanup) + 1] =
                        [id |-> op.id, path |-> op.tree, status |-> "pending"]
              \/ (RefuseRow \/ FailRemoveTree) /\ StatusWritten("failed")
              \/ BeginRow /\ StatusWritten("running")
              \/ MarkDone /\ StatusWritten("done")
<1>1. cleanup \in Seq(Rows) /\ Len(cleanup) \in Nat /\ DOMAIN cleanup = 1 .. Len(cleanup)
  BY LenProperties DEF RowsType
<1>2. ASSUME NEW status \in Statuses, cleanup' = WithStatus(status), op.next \in 1 .. Len(cleanup)
      PROVE  cleanup' \in Seq(Rows) /\ StatusWritten(status)
  BY <1>1, <1>2, QueueRows DEF WithStatus, StatusWritten
<1>3. op.pc \in {"cleanup", "remove", "mark"} /\ op.next <= Len(cleanup) => op.next \in 1 .. Len(cleanup)
  BY <1>1 DEF OpType
<1>4. CASE DeleteRule
  <2>1. PICK n \in 0 .. Len(cleanup) : \E rows \in [1 .. n -> DOMAIN cleanup] :
            Keeps(rows, op.id) /\ cleanup' = [i \in 1 .. n |-> cleanup[rows[i]]]
    BY <1>4 DEF DeleteRule
  <2>2. PICK rows \in [1 .. n -> 1 .. Len(cleanup)] :
            Keeps(rows, op.id) /\ cleanup' = [i \in 1 .. n |-> cleanup[rows[i]]]
    BY <2>1, <1>1
  <2>3. \A i \in 1 .. n : cleanup[rows[i]] \in Rows
    BY <2>2, <1>1, ElementOfSeq
  <2>4. cleanup' \in [1 .. n -> Rows]
    BY <2>2, <2>3
  <2>5. n \in Nat
    BY <1>1
  <2>6. cleanup' \in Seq(Rows) /\ Len(cleanup') = n
    <3>1. cleanup' \in Seq(Rows)
      BY <2>4, <2>5, SeqDef
    <3>2. DOMAIN cleanup' = 1 .. n
      BY <2>2
    <3> QED BY <3>1, <3>2, <2>5, LenProperties
  <2>7. ToSet(rows) = {j \in 1 .. Len(cleanup) : cleanup[j].id # op.id}
    BY <2>2, <1>1 DEF Keeps
  <2>8. \A i \in 1 .. n : rows[i] \in {j \in 1 .. Len(cleanup) : cleanup[j].id # op.id}
    BY <2>2, <2>7 DEF ToSet
  <2>9. ASSUME NEW j \in 1 .. Len(cleanup), cleanup[j].id # op.id
        PROVE  \E i \in 1 .. n : cleanup'[i] = cleanup[j]
    <3>1. j \in ToSet(rows)
      BY <2>7, <2>9
    <3>2. PICK i \in 1 .. n : rows[i] = j
      BY <3>1, <2>2 DEF ToSet
    <3> QED BY <3>2, <2>2
  <2>10. \A i \in 1 .. n : cleanup'[i] = cleanup[rows[i]]
    BY <2>2
  <2> QED BY <1>4, <2>6, <2>8, <2>9, <2>10
<1>5. CASE Enqueue
  <2>1. cleanup' = Append(cleanup, [id |-> op.id, path |-> op.tree, status |-> "pending"])
    BY <1>5 DEF Enqueue
  <2>2. [id |-> op.id, path |-> op.tree, status |-> "pending"] \in Rows
    <3>1. Rule(op.id) # {}
      BY <1>5 DEF Enqueue, OpType
    <3>2. \A r \in rules : r.id \in Names
      BY TableFacts DEF RulesType
    <3> QED BY <3>1, <3>2 DEF Rule, OpType, Rows, Statuses
  <2>3. /\ cleanup' \in Seq(Rows) /\ Len(cleanup') = Len(cleanup) + 1
        /\ \A j \in 1 .. Len(cleanup) : cleanup'[j] = cleanup[j]
        /\ cleanup'[Len(cleanup) + 1] = [id |-> op.id, path |-> op.tree, status |-> "pending"]
    BY <1>1, <2>1, <2>2, AppendProperties
  <2> QED BY <1>5, <2>3
<1>6. CASE RefuseRow
  <2>1. cleanup' = cleanup \/ (cleanup' = WithStatus("failed") /\ op.next \in 1 .. Len(cleanup))
    BY <1>3, <1>6 DEF RefuseRow, SetFailed
  <2>2. ~DeleteRule
    BY <1>6 DEF RefuseRow, DeleteRule
  <2> QED BY <1>1, <1>2, <1>6, <2>1, <2>2 DEF Statuses
<1>7. CASE FailRemoveTree
  <2>1. cleanup' = cleanup \/ (cleanup' = WithStatus("failed") /\ op.next \in 1 .. Len(cleanup))
    BY <1>3, <1>7 DEF FailRemoveTree, SetFailed, OpType
  <2>2. ~DeleteRule
    BY <1>7 DEF FailRemoveTree, DeleteRule
  <2> QED BY <1>1, <1>2, <1>7, <2>1, <2>2 DEF Statuses
<1>8. CASE BeginRow
  <2>1. cleanup' = WithStatus("running") /\ op.next \in 1 .. Len(cleanup)
    BY <1>3, <1>8 DEF BeginRow
  <2> QED BY <1>2, <1>8, <2>1 DEF Statuses
<1>9. CASE MarkDone
  <2>1. cleanup' = WithStatus("done") /\ op.next \in 1 .. Len(cleanup)
    BY <1>3, <1>9 DEF MarkDone, OpType
  <2> QED BY <1>2, <1>9, <2>1 DEF Statuses
<1> QED BY <1>1, <1>4, <1>5, <1>6, <1>7, <1>8, <1>9, Writers

\* Rows of changes and of the queue keep their rules.
LEMMA RowsStep ==
    ASSUME TypeInv, [Next]_vars
    PROVE  RowsType'
<1> USE DEF TypeInv
<1>1. ASSUME ~DeleteRule, NEW id, Rule(id) # {}
      PROVE  Rule(id)' # {}
  BY <1>1, RuleStays
<1>2. ASSUME DeleteRule, NEW id, Rule(id) # {}, id # op.id
      PROVE  Rule(id)' # {}
  BY <1>2 DEF DeleteRule, SetRules, Rule, Without
<1>3. \A c \in changes' : Rule(c.id)' # {} /\ c.path \in WrittenPaths
  <2>1. CASE DeleteRule
    <3>1. \A c \in changes' : c \in changes /\ c.id # op.id
      BY <2>1 DEF DeleteRule, ChangesOf
    <3> QED BY <2>1, <3>1, <1>2 DEF RowsType
  <2>2. CASE ~DeleteRule /\ (changes' = changes \/ Forget)
    <3>1. changes' \subseteq changes
      BY <2>2 DEF Forget
    <3> QED BY <2>2, <3>1, <1>1 DEF RowsType
  <2>3. CASE ~DeleteRule /\ Record
    <3>1. /\ changes' = changes \union {[id |-> req.rule.id, path |-> req.path]}
          /\ Rule(req.rule.id) # {} /\ req.path \in WrittenPaths
      BY <2>3 DEF Record, ReqType
    <3>2. \A c \in changes' : Rule(c.id) # {} /\ c.path \in WrittenPaths
      BY <3>1 DEF RowsType
    <3> QED BY <2>3, <3>2, <1>1
  <2> QED BY <2>1, <2>2, <2>3, Writers
<1>4. cleanup' \in Seq(Rows)
  BY QueueStep
<1>5. DOMAIN cleanup' = 1 .. Len(cleanup') /\ DOMAIN cleanup = 1 .. Len(cleanup) /\ Len(cleanup) \in Nat
  BY <1>4, LenProperties DEF RowsType
<1>6. ASSUME NEW i \in 1 .. Len(cleanup')
      PROVE  \E r \in rules' : r.id = cleanup'[i].id
  <2>1. \A j \in 1 .. Len(cleanup) : Rule(cleanup[j].id) # {}
    BY <1>5 DEF RowsType
  <2>2. CASE DeleteRule
    <3>1. ~Enqueue /\ ~RefuseRow /\ ~FailRemoveTree /\ ~BeginRow /\ ~MarkDone
      BY <2>2 DEF DeleteRule, Enqueue, RefuseRow, FailRemoveTree, BeginRow, MarkDone
    <3>2. PICK j \in 1 .. Len(cleanup) : cleanup'[i] = cleanup[j] /\ cleanup[j].id # op.id
      BY <2>2, <3>1, QueueStep
    <3>3. Rule(cleanup[j].id) # {}
      BY <2>1
    <3>4. PICK r \in rules : r.id = cleanup[j].id
      BY <3>3 DEF Rule
    <3>5. r \in rules'
      BY <2>2, <3>2, <3>4 DEF DeleteRule, SetRules, Without
    <3> QED BY <3>2, <3>4, <3>5
  <2>3. CASE ~DeleteRule
    <3>1. ASSUME NEW id, id = cleanup'[i].id, Rule(id) # {}
          PROVE  \E r \in rules' : r.id = cleanup'[i].id
      <4>1. PICK r \in rules : r.id = id
        BY <3>1 DEF Rule
      <4>2. PICK q \in rules' : Twins(r, q)
        BY <2>3, RulesStep
      <4> QED BY <3>1, <4>1, <4>2 DEF Twins
    <3>2. CASE \E j \in 1 .. Len(cleanup) : cleanup'[i].id = cleanup[j].id
      <4>1. PICK j \in 1 .. Len(cleanup) : cleanup'[i].id = cleanup[j].id
        BY <3>2
      <4>2. Rule(cleanup[j].id) # {}
        BY <2>1
      <4> QED BY <3>1, <4>1, <4>2
    <3>3. CASE cleanup' = cleanup
      BY <3>2, <3>3
    <3>4. CASE StatusWritten("failed") \/ StatusWritten("running") \/ StatusWritten("done")
      BY <3>2, <3>4 DEF StatusWritten
    <3>5. CASE /\ Enqueue /\ Len(cleanup') = Len(cleanup) + 1
               /\ \A j \in 1 .. Len(cleanup) : cleanup'[j] = cleanup[j]
               /\ cleanup'[Len(cleanup) + 1] =
                      [id |-> op.id, path |-> op.tree, status |-> "pending"]
      <4>1. CASE i = Len(cleanup) + 1
        <5>1. Rule(op.id) # {} /\ cleanup'[i].id = op.id
          BY <3>5, <4>1 DEF Enqueue, OpType
        <5> QED BY <3>1, <5>1
      <4>2. CASE i # Len(cleanup) + 1
        <5>1. i \in 1 .. Len(cleanup)
          BY <1>5, <3>5, <4>2
        <5> QED BY <3>2, <3>5, <5>1
      <4> QED BY <4>1, <4>2
    <3> QED BY <2>3, <3>3, <3>4, <3>5, QueueStep
  <2> QED BY <2>2, <2>3
<1>7. \A i \in DOMAIN cleanup' : \E r \in rules' : r.id = cleanup'[i].id
  BY <1>5, <1>6
<1> QED BY <1>3, <1>4, <1>7 DEF RowsType, Rule, WrittenPaths

\* Where the shadow tree of a rule is, and where it is moved aside.
LEMMA RootFacts ==
    ASSUME SceneType, NEW r \in Table
    PROVE  /\ DriveRoot(r) \in Path /\ Clean(DriveRoot(r))
           /\ IsPrefix(NormalizePath(r.store), DriveRoot(r))
           /\ Len(DriveRoot(r)) = Len(NormalizePath(r.store)) + 1
           /\ \A n \in 1 .. Len(StageNames) :
                 /\ StageNames[n] \in Names /\ StageNames[n] \in ToSet(StageNames)
                 /\ DiscardCleanupRoot(r, n) \in Path /\ DiscardCleanupRoot(r, n) # <<>>
                 /\ IsPrefix(NormalizePath(r.store), DiscardCleanupRoot(r, n))
                 /\ Len(DiscardCleanupRoot(r, n)) = Len(NormalizePath(r.store)) + 1
                 /\ DiscardCleanupRoot(r, n)[Len(NormalizePath(r.store)) + 1] = StageNames[n]
                 /\ \A i \in 1 .. Len(NormalizePath(r.store)) :
                       DiscardCleanupRoot(r, n)[i] = NormalizePath(r.store)[i]
<1> DEFINE store == NormalizePath(r.store)
<1>1. store \in Path /\ Clean(store) /\ Len(store) \in Nat
  BY TableFacts DEF Path
<1>2. "drive" \notin ToSet(StageNames) /\ "drive" \in Names
  <2>1. "drive" \notin ToSet(StageNames)
    BY StageNamesAssumption
  <2>2. "drive" \in Names
    BY PathsAssumption
  <2> QED BY <2>1, <2>2
<1>3. /\ DriveRoot(r) \in Path /\ IsPrefix(store, DriveRoot(r))
      /\ Len(DriveRoot(r)) = Len(store) + 1 /\ DriveRoot(r)[Len(store) + 1] = "drive"
      /\ \A i \in 1 .. Len(store) : DriveRoot(r)[i] = store[i]
  BY <1>1, <1>2, PathAppend DEF DriveRoot
<1>4. Clean(DriveRoot(r))
  BY <1>1, <1>2, <1>3 DEF Clean
<1>5. ASSUME NEW n \in 1 .. Len(StageNames)
      PROVE  StageNames[n] \in Names /\ StageNames[n] \in ToSet(StageNames)
  <2>1. StageNames \in Seq(Names) /\ DOMAIN StageNames = 1 .. Len(StageNames)
    BY PathsAssumption, LenProperties DEF Path
  <2> QED BY <2>1, ElementOfSeq DEF ToSet
<1>6. ASSUME NEW n \in 1 .. Len(StageNames)
      PROVE  LET root == DiscardCleanupRoot(r, n) IN
             /\ root \in Path /\ root # <<>> /\ IsPrefix(store, root)
             /\ Len(root) = Len(store) + 1 /\ root[Len(store) + 1] = StageNames[n]
             /\ \A i \in 1 .. Len(store) : root[i] = store[i]
  BY <1>1, <1>5, PathAppend DEF DiscardCleanupRoot
<1> QED BY <1>3, <1>4, <1>5, <1>6

\* The tree that is next to be moved aside has a name.
LEMMA NextStage ==
    ASSUME SceneType, staged < scene.trees
    PROVE  staged + 1 \in 1 .. Len(StageNames)
<1>1. scene.trees \in 0 .. Len(StageNames) /\ Len(StageNames) \in Nat
  BY ScenesAssumption, PathsAssumption DEF SceneType, Path
<1> QED BY <1>1 DEF SceneType

\* A file that a rename of a directory leaves was there before, or below the
\* directory's old place.
LEMMA MovedFacts ==
    ASSUME DiskType, NEW from \in Path, NEW to \in Path
    PROVE  /\ Moved(from, to) \subseteq Path
           /\ \A f \in Moved(from, to) :
                 \/ f \in disk /\ ~IsPrefix(from, f)
                 \/ \E g \in Tree(from) : LET rest == SubSeq(g, Len(from) + 1, Len(g)) IN
                       rest \in Path /\ f = to \o rest
           /\ \A f \in disk : ~IsPrefix(from, f) => f \in Moved(from, to)
<1>1. ASSUME NEW g \in Tree(from)
      PROVE  SubSeq(g, Len(from) + 1, Len(g)) \in Path
             /\ to \o SubSeq(g, Len(from) + 1, Len(g)) \in Path
  BY PathRest, PathConcat DEF Tree, DiskType
<1> QED BY <1>1 DEF Moved, Tree, DiskType

\* A shadow file is below the shadow tree of its rule.
LEMMA ShadowFacts ==
    ASSUME SceneType, NEW r \in Table, NEW p \in WrittenPaths
    PROVE  LET f == DriveRoot(r) \o p IN
           /\ f \in Path /\ Clean(f) /\ IsPrefix(DriveRoot(r), f)
           /\ \A c : c.path = p => ShadowOf(r, c) = f
<1>1. p \in Path /\ Clean(p) /\ NormalizePath(p) = p
  BY WrittenFacts
<1>2. DriveRoot(r) \in Path /\ Clean(DriveRoot(r)) /\ Len(DriveRoot(r)) \in Nat /\ Len(p) \in Nat
  BY <1>1, RootFacts DEF Path
<1> DEFINE f == DriveRoot(r) \o p
<1>3. /\ f \in Path /\ IsPrefix(DriveRoot(r), f) /\ Len(f) = Len(DriveRoot(r)) + Len(p)
      /\ \A i \in 1 .. Len(DriveRoot(r)) : f[i] = DriveRoot(r)[i]
      /\ \A i \in 1 .. Len(p) : f[Len(DriveRoot(r)) + i] = p[i]
  BY <1>1, <1>2, PathConcat
<1>4. ASSUME NEW i \in 1 .. Len(f)
      PROVE  f[i] \notin ToSet(StageNames)
  <2>1. CASE i <= Len(DriveRoot(r))
    BY <1>2, <1>3, <2>1 DEF Clean
  <2>2. CASE ~(i <= Len(DriveRoot(r)))
    <3>1. /\ i - Len(DriveRoot(r)) \in 1 .. Len(p)
          /\ Len(DriveRoot(r)) + (i - Len(DriveRoot(r))) = i
      BY <1>2, <1>3, <2>2
    <3>2. f[i] = p[i - Len(DriveRoot(r))]
      BY <1>3, <3>1
    <3> QED BY <1>1, <3>1, <3>2 DEF Clean
  <2> QED BY <2>1, <2>2
<1>5. \A c : c.path = p => ShadowOf(r, c) = f
  BY <1>1 DEF ShadowOf, MapRealPathToShadowPath
<1> QED BY <1>3, <1>4, <1>5 DEF Clean

\* Shadow files are at paths.
LEMMA DiskStep ==
    ASSUME TypeInv, [Next]_vars
    PROVE  DiskType'
<1> USE DEF TypeInv
<1>1. CASE Copy
  <2>1. disk' = disk \union {ShadowOf(req.rule, req)} /\ req.rule \in Table /\ req.path \in WrittenPaths
    BY <1>1 DEF Copy, ReqType
  <2>2. ShadowOf(req.rule, req) \in Path
    BY <2>1, ShadowFacts
  <2> QED BY <2>1, <2>2 DEF DiskType
<1>2. CASE RemoveShadow \/ RemoveTree \/ FailRemoveTree
  <2>1. disk' \subseteq disk
    BY <1>2 DEF RemoveShadow, RemoveTree, FailRemoveTree, Tree
  <2> QED BY <2>1 DEF DiskType
<1>3. CASE Isolate
  <2>1. PICK r \in Rule(op.id) : \/ disk' = disk
                                 \/ /\ staged < scene.trees
                                    /\ disk' = Moved(DriveRoot(r), DiscardCleanupRoot(r, staged + 1))
    BY <1>3 DEF Isolate
  <2>2. r \in Table
    BY <2>1 DEF Rule, RulesType
  <2> QED BY <2>1, <2>2, RootFacts, NextStage, MovedFacts DEF DiskType
<1>4. CASE FailForget
  <2>1. PICK r \in Rule(op.id) : disk' = disk \/ disk' = Moved(op.tree, DriveRoot(r))
    BY <1>4 DEF FailForget
  <2>2. r \in Table /\ op.tree \in Path
    BY <2>1 DEF Rule, RulesType, OpType
  <2> QED BY <2>1, <2>2, RootFacts, MovedFacts DEF DiskType
<1> QED BY <1>1, <1>2, <1>3, <1>4, Writers DEF DiskType

\* What the pipe thread does has its rule and its row.
LEMMA OpStep ==
    ASSUME TypeInv, [Next]_vars
    PROVE  OpType'
<1> USE DEF TypeInv, tables, environment, queueing
<1>1. ASSUME ~DeleteRule, NEW id, \E r \in rules : r.id = id
      PROVE  \E r \in rules' : r.id = id
  <2>1. PICK r \in rules : r.id = id
    BY <1>1
  <2>2. PICK q \in rules' : Twins(r, q)
    BY <1>1, RulesStep
  <2> QED BY <2>1, <2>2 DEF Twins
<1>2. CASE op' = op /\ cleanup' = cleanup /\ ~DeleteRule
  BY <1>1, <1>2 DEF OpType, Rule
<1>3. ASSUME op' \in [pc : Places, id : Names \union {"none"}, action : {"none", "commit", "discard"},
                      was : BOOLEAN, tree : Path, next : Nat, lost : BOOLEAN],
             op'.pc \notin {"forget", "enqueue", "cleanup", "remove", "mark"}
      PROVE  OpType'
  BY <1>3 DEF OpType
<1>4. <<>> \in Path
  BY EmptySeq DEF Path
<1>5. Idle \in [pc : Places, id : Names \union {"none"}, action : {"none", "commit", "discard"},
                was : BOOLEAN, tree : Path, next : Nat, lost : BOOLEAN]
  BY <1>4 DEF Idle, Places
<1>6. \A r \in rules : r.id \in Names /\ r.enabled \in BOOLEAN /\ r \in Table
  BY TableFacts DEF RulesType
<1>7. Len(cleanup) \in Nat
  BY DEF RowsType
<1>8. CASE RuleCommand
  <2>1. CASE \E offer \in scene.offers : AddRule(offer)
    <3>1. op' = op /\ cleanup' = cleanup /\ op.pc = "idle"
      BY <2>1 DEF AddRule
    <3> QED BY <1>2, <3>1 DEF DeleteRule
  <2>2. CASE \E rule \in rules, enabled \in BOOLEAN : SetRuleEnabled(rule, enabled)
    <3>1. op' = op /\ cleanup' = cleanup /\ op.pc = "idle"
      BY <2>2 DEF SetRuleEnabled
    <3> QED BY <1>2, <3>1 DEF DeleteRule
  <2>3. ASSUME NEW rule \in rules, CheckDelete(rule)
        PROVE  OpType'
    <3>1. op' = [Idle EXCEPT !.pc = "delete", !.id = rule.id]
      BY <2>3 DEF CheckDelete
    <3> QED BY <1>3, <1>5, <1>6, <3>1 DEF Places
  <2>4. CASE DeleteRule \/ FailDelete
    <3>1. op' = Idle
      BY <2>4 DEF DeleteRule, FailDelete
    <3> QED BY <1>3, <1>5, <3>1 DEF Idle
  <2> QED BY <1>8, <2>1, <2>2, <2>3, <2>4 DEF RuleCommand
<1>9. CASE DriverRequest
  <2>1. op' = op /\ cleanup' = cleanup
    BY <1>9 DEF DriverRequest, Request, Copy, FailRequest, Record
  <2>2. CASE DeleteRule
    <3>1. op' # op
      BY <2>2 DEF DeleteRule, Idle
    <3> QED BY <2>1, <3>1
  <2> QED BY <1>2, <2>1, <2>2
<1>10. CASE Operation
  <2>1. ASSUME NEW rule \in rules, NEW action \in {"commit", "discard"}, Begin(rule, action)
        PROVE  OpType'
    <3>1. op' = [Idle EXCEPT !.pc = "apply", !.id = rule.id, !.action = action, !.was = rule.enabled]
      BY <2>1 DEF Begin
    <3> QED BY <1>3, <1>5, <1>6, <3>1 DEF Places
  <2>2. CASE FailApply
    <3>1. op' = [op EXCEPT !.pc = "resume"]
      BY <2>2 DEF FailApply
    <3> QED BY <1>3, <3>1 DEF OpType, Places
  <2>3. CASE RemoveShadow
    <3>1. op' = [op EXCEPT !.pc = "forget"] /\ Rule(op.id) # {} /\ ~DeleteRule
      BY <2>3 DEF RemoveShadow, DeleteRule
    <3> QED BY <1>1, <3>1 DEF OpType, Places, Rule
  <2>4. CASE Isolate
    <3>1. PICK r \in Rule(op.id) :
              \/ op' = [op EXCEPT !.pc = "forget"]
              \/ /\ staged < scene.trees
                 /\ op' = [op EXCEPT !.pc = "forget", !.tree = DiscardCleanupRoot(r, staged + 1)]
      BY <2>4 DEF Isolate
    <3>2. r \in Table /\ ~DeleteRule
      BY <2>4, <1>6 DEF Isolate, DeleteRule, Rule
    <3>3. staged < scene.trees => DiscardCleanupRoot(r, staged + 1) \in Path
      BY <3>2, NextStage, RootFacts
    <3>4. op' \in [pc : Places, id : Names \union {"none"}, action : {"none", "commit", "discard"},
                   was : BOOLEAN, tree : Path, next : Nat, lost : BOOLEAN]
          /\ op'.pc = "forget" /\ op'.id = op.id
      BY <3>1, <3>3 DEF OpType, Places
    <3>5. \E q \in rules : q.id = op.id
      BY <3>1 DEF Rule
    <3> QED BY <1>1, <3>2, <3>4, <3>5 DEF OpType, Rule
  <2>5. CASE Forget
    <3>1. op' = [op EXCEPT !.pc = IF op.tree = <<>> THEN "resume" ELSE "enqueue"] /\ ~DeleteRule
          /\ op.pc = "forget"
      BY <2>5 DEF Forget, DeleteRule
    <3> QED BY <1>1, <3>1 DEF OpType, Places, Rule
  <2>6. CASE FailForget \/ Enqueue \/ FailEnqueue
    <3>1. op' = [op EXCEPT !.pc = "resume", !.tree = <<>>]
      BY <2>6 DEF FailForget, Enqueue, FailEnqueue
    <3> QED BY <1>3, <1>4, <3>1 DEF OpType, Places
  <2>7. CASE Resume
    <3>1. op' = Idle
      BY <2>7 DEF Resume
    <3> QED BY <1>3, <1>5, <3>1 DEF Idle
  <2> QED BY <1>10, <2>1, <2>2, <2>3, <2>4, <2>5, <2>6, <2>7 DEF Operation
<1>11. CASE Crash
  <2>1. op' = [op EXCEPT !.pc = "down"]
    BY <1>11 DEF Crash
  <2>2. op' \in [pc : Places, id : Names \union {"none"}, action : {"none", "commit", "discard"},
                 was : BOOLEAN, tree : Path, next : Nat, lost : BOOLEAN]
        /\ op'.pc = "down"
    BY <2>1 DEF OpType, Places
  <2> QED BY <1>3, <2>2
<1>12. CASE Start
  <2>1. op' = [Idle EXCEPT !.pc = "cleanup", !.next = 1]
    BY <1>12 DEF Start
  <2>2. op' \in [pc : Places, id : Names \union {"none"}, action : {"none", "commit", "discard"},
                 was : BOOLEAN, tree : Path, next : Nat, lost : BOOLEAN]
        /\ op'.pc = "cleanup" /\ op'.next = 1
    BY <1>5, <2>1 DEF Idle, Places
  <2>3. op'.next > 0 /\ op'.pc \notin {"forget", "enqueue", "remove", "mark"}
    BY <2>2
  <2> QED BY <2>2, <2>3 DEF OpType
<1>13. CASE ProcessCleanupQueue
  <2>1. ASSUME op.next > 0, op' = NextRow \/ op' = [NextRow EXCEPT !.lost = TRUE]
        PROVE  OpType'
    <3>1. op' \in [pc : Places, id : Names \union {"none"}, action : {"none", "commit", "discard"},
                   was : BOOLEAN, tree : Path, next : Nat, lost : BOOLEAN]
          /\ op'.pc = "cleanup" /\ op'.next = op.next + 1
      <4> DEFINE next == [op EXCEPT !.pc = "cleanup", !.next = op.next + 1]
      <4>1. op.next + 1 \in Nat /\ "cleanup" \in Places
        BY DEF OpType, Places
      <4>2. next \in [pc : Places, id : Names \union {"none"}, action : {"none", "commit", "discard"},
                       was : BOOLEAN, tree : Path, next : Nat, lost : BOOLEAN]
            /\ next.pc = "cleanup" /\ next.next = op.next + 1
        BY <4>1 DEF OpType
      <4>3. op' = next \/ op' = [next EXCEPT !.lost = TRUE]
        BY <2>1 DEF NextRow
      <4> HIDE DEF next
      <4> QED BY <4>2, <4>3
    <3>2. op'.next > 0 /\ op'.pc \notin {"forget", "enqueue", "remove", "mark"}
      BY <2>1, <3>1 DEF OpType
    <3> QED BY <3>1, <3>2 DEF OpType
  <2>2. CASE SkipRow
    BY <2>1, <2>2 DEF SkipRow, OpType
  <2>3. CASE RefuseRow
    BY <2>1, <2>3 DEF RefuseRow, SetFailed, OpType
  <2>4. CASE BeginRow
    <3>1. op' = [op EXCEPT !.pc = "remove"] /\ op.next <= Len(cleanup) /\ op.pc = "cleanup"
      BY <2>4 DEF BeginRow
    <3>2. Len(cleanup') = Len(cleanup)
      <4>1. ~DeleteRule /\ ~Enqueue /\ ~MarkDone
        BY <2>4 DEF BeginRow, DeleteRule, Enqueue, MarkDone
      <4> QED BY <4>1, QueueStep DEF StatusWritten
    <3> QED BY <3>1, <3>2 DEF OpType, Places
  <2>5. CASE RemoveTree
    <3>1. op' = [op EXCEPT !.pc = "mark"] /\ cleanup' = cleanup /\ op.pc = "remove"
      BY <2>5 DEF RemoveTree
    <3> QED BY <3>1 DEF OpType, Places
  <2>6. CASE FailRemoveTree
    BY <2>1, <2>6 DEF FailRemoveTree, SetFailed, OpType
  <2>7. CASE MarkDone
    BY <2>1, <2>7 DEF MarkDone, OpType
  <2>8. CASE FinishStart
    <3>1. op' = Idle
      BY <2>8 DEF FinishStart
    <3> QED BY <1>3, <1>5, <3>1 DEF Idle
  <2> QED BY <1>13, <2>2, <2>3, <2>4, <2>5, <2>6, <2>7, <2>8 DEF ProcessCleanupQueue
<1>14. CASE UNCHANGED vars \/ UsedUp \/ \E source \in Removable : ToggleSource(source)
  <2>1. op' = op /\ cleanup' = cleanup
    BY <1>14 DEF vars, UsedUp, ToggleSource
  <2>2. CASE DeleteRule
    <3>1. op' # op
      BY <2>2 DEF DeleteRule, Idle
    <3> QED BY <2>1, <3>1
  <2> QED BY <1>2, <2>1, <2>2
<1> QED BY <1>8, <1>9, <1>10, <1>11, <1>12, <1>13, <1>14 DEF Next

\* A request holds a rule as it read it, and none is there while the service is down
\* or starts.
LEMMA ReqStep ==
    ASSUME TypeInv, [Next]_vars
    PROVE  ReqType'
<1> USE DEF TypeInv
<1>1. Table' = Table
  BY RulesStep
<1>2. /\ req'.pc \in {"idle", "copy", "record"}
      /\ req'.rule \in Table \union {NoRule}
      /\ req'.pc # "idle" => req'.rule \in Table /\ req'.path \in WrittenPaths
  <2>1. ASSUME NEW path \in Opened, Request(path)
        PROVE  <1>2!:
    <3>1. PICK rule \in rules :
              req' = [pc |-> "copy", rule |-> rule, path |-> NormalizePath(path)]
      BY <2>1 DEF Request
    <3> QED BY <3>1 DEF RulesType, WrittenPaths
  <2>2. CASE Copy
    <3>1. req.pc = "copy" /\ req' = [req EXCEPT !.pc = "record"]
      BY <2>2 DEF Copy
    <3>2. req'.rule = req.rule /\ req'.path = req.path /\ req'.pc \in {"record", req.pc}
      BY <3>1
    <3> QED BY <3>1, <3>2 DEF ReqType
  <2>3. CASE req' = NoRequest
    BY <2>3 DEF NoRequest, NoRule
  <2> QED BY <2>1, <2>2, <2>3, Writers DEF ReqType
<1>3. op'.pc \in Starting => req'.pc = "idle"
  <2>1. CASE Crash
    BY <2>1 DEF Crash, NoRequest
  <2>2. CASE op.pc \in Starting
    <3>1. req.pc = "idle" /\ ~Copy /\ \A path \in Opened : ~Request(path) \/ op.pc = "down"
      BY <2>2 DEF ReqType, Request, Running, Starting, Copy
    <3>2. \A path \in Opened : ~Request(path)
      BY <3>1 DEF Request, Running
    <3> QED BY <3>1, <3>2, Writers DEF NoRequest
  <2>3. CASE op.pc \notin Starting /\ ~Crash
    <3>1. op'.pc \notin Starting
      <4>1. CASE RuleCommand
        <5>1. \A offer \in scene.offers : AddRule(offer) => op' = op
          BY DEF AddRule
        <5>2. \A rule \in rules, enabled \in BOOLEAN : SetRuleEnabled(rule, enabled) => op' = op
          BY DEF SetRuleEnabled
        <5>3. \A rule \in rules : CheckDelete(rule) => op'.pc = "delete"
          BY DEF CheckDelete, Idle
        <5>4. DeleteRule \/ FailDelete => op'.pc = "idle"
          BY DEF DeleteRule, FailDelete, Idle
        <5> QED BY <2>3, <4>1, <5>1, <5>2, <5>3, <5>4 DEF RuleCommand, Starting
      <4>2. CASE DriverRequest
        BY <2>3, <4>2 DEF DriverRequest, Request, Copy, FailRequest, Record
      <4>3. CASE Operation
        <5>1. \A rule \in rules, action \in {"commit", "discard"} :
                  Begin(rule, action) => op'.pc = "apply"
          BY DEF Begin, Idle
        <5>2. FailApply \/ FailForget \/ Enqueue \/ FailEnqueue => op'.pc = "resume"
          BY DEF FailApply, FailForget, Enqueue, FailEnqueue, OpType
        <5>3. RemoveShadow \/ Isolate => op'.pc = "forget"
          BY DEF RemoveShadow, Isolate, OpType
        <5>4. Forget => op'.pc \in {"resume", "enqueue"}
          BY DEF Forget, OpType
        <5>5. Resume => op'.pc = "idle"
          BY DEF Resume, Idle
        <5> QED BY <4>3, <5>1, <5>2, <5>3, <5>4, <5>5 DEF Operation, Starting
      <4>4. CASE Start \/ ProcessCleanupQueue
        BY <2>3, <4>4 DEF Start, ProcessCleanupQueue, SkipRow, RefuseRow, BeginRow, RemoveTree,
                          FailRemoveTree, MarkDone, FinishStart, Starting, Idle
      <4>5. CASE UNCHANGED vars \/ UsedUp \/ \E source \in Removable : ToggleSource(source)
        BY <2>3, <4>5 DEF vars, UsedUp, ToggleSource
      <4> QED BY <2>3, <4>1, <4>2, <4>3, <4>4, <4>5 DEF Next
    <3> QED BY <3>1
  <2> QED BY <2>1, <2>2, <2>3
<1> QED BY <1>1, <1>2, <1>3 DEF ReqType, WrittenPaths, Starting

\* Every step keeps the inductive form.
LEMMA TypeStep ==
    ASSUME TypeInv, [Next]_vars
    PROVE  TypeInv'
<1> USE DEF TypeInv
<1> QED BY SceneStep, RulesStep, RowsStep, DiskStep, OpStep, ReqStep

\* Where the pipe thread may go, and what it then does in a start.
LEMMA PlaceStep ==
    ASSUME TypeInv, [Next]_vars
    PROVE  \/ op' = op /\ cleanup' = cleanup
           \/ op'.pc \notin {"cleanup", "remove", "mark"}
           \/ Start \/ SkipRow \/ RefuseRow \/ FailRemoveTree \/ BeginRow \/ RemoveTree \/ MarkDone
<1> USE DEF tables
<1>1. CASE RuleCommand
  <2>1. \A offer \in scene.offers : AddRule(offer) => op' = op /\ cleanup' = cleanup
    BY DEF AddRule
  <2>2. \A rule \in rules, enabled \in BOOLEAN :
            SetRuleEnabled(rule, enabled) => op' = op /\ cleanup' = cleanup
    BY DEF SetRuleEnabled
  <2>3. \A rule \in rules : CheckDelete(rule) => op'.pc = "delete"
    BY DEF CheckDelete, Idle
  <2>4. DeleteRule \/ FailDelete => op'.pc = "idle"
    BY DEF DeleteRule, FailDelete, Idle
  <2> QED BY <1>1, <2>1, <2>2, <2>3, <2>4 DEF RuleCommand
<1>2. CASE DriverRequest
  BY <1>2 DEF DriverRequest, Request, Copy, FailRequest, Record
<1>3. CASE Operation
  <2>1. \A rule \in rules, action \in {"commit", "discard"} :
            Begin(rule, action) => op'.pc = "apply"
    BY DEF Begin, Idle
  <2>2. FailApply \/ FailForget \/ Enqueue \/ FailEnqueue => op'.pc = "resume"
    BY DEF FailApply, FailForget, Enqueue, FailEnqueue, TypeInv, OpType
  <2>3. RemoveShadow \/ Isolate => op'.pc = "forget"
    BY DEF RemoveShadow, Isolate, TypeInv, OpType
  <2>4. Forget => op'.pc \in {"resume", "enqueue"}
    BY DEF Forget, TypeInv, OpType
  <2>5. Resume => op'.pc = "idle"
    BY DEF Resume, Idle
  <2> QED BY <1>3, <2>1, <2>2, <2>3, <2>4, <2>5 DEF Operation
<1>4. CASE Crash
  BY <1>4 DEF Crash, TypeInv, OpType
<1>5. CASE Start \/ ProcessCleanupQueue
  <2>1. FinishStart => op'.pc = "idle"
    BY DEF FinishStart, Idle
  <2> QED BY <1>5, <2>1 DEF ProcessCleanupQueue
<1>6. CASE UNCHANGED vars \/ UsedUp \/ \E source \in Removable : ToggleSource(source)
  BY <1>6 DEF vars, UsedUp, ToggleSource
<1> QED BY <1>1, <1>2, <1>3, <1>4, <1>5, <1>6 DEF Next

\* It holds at the beginning.
LEMMA TypeInit ==
    ASSUME Init
    PROVE  TypeInv
<1>1. scene \in Scenes /\ staged = 0 /\ stops = 0 /\ dirs = SourcesOf(scene.offers)
  BY DEF Init
<1>2. scene.trees \in 0 .. Len(StageNames) /\ Len(StageNames) \in Nat
  BY <1>1, ScenesAssumption, PathsAssumption DEF Path
<1>3. SceneType
  BY <1>1, <1>2, BoundsAssumption DEF SceneType
<1>4. RulesType
  BY DEF Init, RulesType
<1>5. RowsType
  BY EmptySeq DEF Init, RowsType
<1>6. OpType
  BY EmptySeq DEF Init, OpType, Idle, Places, Path
<1>7. DiskType /\ ReqType
  BY DEF Init, DiskType, ReqType, NoRequest, Idle, Starting
<1> QED BY <1>3, <1>4, <1>5, <1>6, <1>7 DEF TypeInv

\* Every variable of OverlayRules has its type, and rows of changes and of the
\* cleanup queue name a rule that exists (metadata_store.cpp, foreign keys), also
\* when a request or a discard races the deletion of the rule.
THEOREM RulesTypeCorrect == Spec => []TypeOK
<1>1. Init => TypeInv
  BY TypeInit
<1>2. TypeInv /\ [Next]_vars => TypeInv'
  BY TypeStep
<1>3. TypeInv => TypeOK
  <2> SUFFICES ASSUME TypeInv
               PROVE  TypeOK
    OBVIOUS
  <2>1. \A row \in ToSet(cleanup) : Rule(row.id) # {} /\ row.status \in Statuses
    <3>1. \A i \in DOMAIN cleanup : cleanup[i] \in Rows
      BY LenProperties, ElementOfSeq DEF TypeInv, RowsType
    <3> QED BY <3>1 DEF ToSet, TypeInv, RowsType, Rows
  <2> QED BY <2>1 DEF TypeInv, TypeOK, SceneType, RulesType, RowsType, OpType, ReqType,
                      WrittenPaths, Statuses, Places
<1> QED BY <1>1, <1>2, <1>3, PTL DEF Spec

-----------------------------------------------------------------------------
(***************************************************************************)
(* The queue and a start that goes through it.                              *)
(***************************************************************************)

\* The rows before the one in hand have their last status, unless one could not
\* be written.
SettleInv ==
    op.pc \in {"cleanup", "remove", "mark"} /\ ~op.lost =>
        \A i \in 1 .. Len(cleanup) : i < op.next => cleanup[i].status \in {"done", "failed"}

\* A row is settled before the next one is in hand.
LEMMA SettleStep ==
    ASSUME TypeInv, SettleInv, [Next]_vars
    PROVE  SettleInv'
<1> USE DEF TypeInv
<1>1. Len(cleanup) \in Nat /\ op.next \in Nat /\ \A i \in 1 .. Len(cleanup) : cleanup[i].status \in Statuses
  <2>1. \A i \in 1 .. Len(cleanup) : cleanup[i] \in Rows
    BY ElementOfSeq DEF RowsType
  <2> QED BY <2>1 DEF RowsType, OpType, Rows
<1>2. CASE op' = op /\ cleanup' = cleanup
  BY <1>2 DEF SettleInv
<1>3. CASE op'.pc \notin {"cleanup", "remove", "mark"}
  BY <1>3 DEF SettleInv
<1>4. CASE Start
  <2>1. op'.next = 1
    BY <1>4 DEF Start, Idle
  <2> QED BY <2>1 DEF SettleInv
<1>5. CASE SkipRow
  <2>1. /\ op.pc = "cleanup" /\ cleanup' = cleanup /\ op.next <= Len(cleanup)
        /\ cleanup[op.next].status \notin {"pending", "running"}
        /\ op'.lost = op.lost /\ op'.next = op.next + 1
    BY <1>5 DEF SkipRow, tables, Waits, Row, NextRow, OpType
  <2>2. cleanup[op.next].status \in {"done", "failed"}
    BY <1>1, <2>1 DEF OpType, Statuses
  <2> QED BY <1>1, <2>1, <2>2 DEF SettleInv
<1>6. CASE RefuseRow \/ FailRemoveTree
  <2>1. op.pc \in {"cleanup", "remove"}
    BY <1>6 DEF RefuseRow, FailRemoveTree
  <2>2. CASE cleanup' = WithStatus("failed") /\ op' = NextRow
    <3>1. op'.next = op.next + 1 /\ op'.lost = op.lost
      BY <2>2 DEF NextRow, OpType
    <3>2. op.next \in 1 .. Len(cleanup)
      BY <1>1, <1>6 DEF RefuseRow, FailRemoveTree, OpType
    <3>3. /\ Len(cleanup') = Len(cleanup)
          /\ \A j \in 1 .. Len(cleanup) :
                cleanup'[j].status = IF j = op.next THEN "failed" ELSE cleanup[j].status
      BY <2>2, <3>2, QueueRows DEF WithStatus, RowsType, Statuses
    <3> QED BY <1>1, <2>1, <3>1, <3>2, <3>3 DEF SettleInv
  <2>3. CASE op' = [NextRow EXCEPT !.lost = TRUE]
    <3>1. op'.lost
      BY <2>3 DEF NextRow, OpType
    <3> QED BY <3>1 DEF SettleInv
  <2> QED BY <1>6, <2>2, <2>3 DEF RefuseRow, FailRemoveTree, SetFailed
<1>7. CASE BeginRow
  <2>1. /\ op.pc = "cleanup" /\ op.next <= Len(cleanup) /\ cleanup' = WithStatus("running")
        /\ op'.next = op.next /\ op'.lost = op.lost
    BY <1>7 DEF BeginRow, OpType
  <2>2. op.next \in 1 .. Len(cleanup)
    BY <1>1, <2>1 DEF OpType
  <2>3. /\ Len(cleanup') = Len(cleanup)
        /\ \A j \in 1 .. Len(cleanup) :
              cleanup'[j].status = IF j = op.next THEN "running" ELSE cleanup[j].status
    BY <2>1, <2>2, QueueRows DEF WithStatus, RowsType, Statuses
  <2> QED BY <1>1, <2>1, <2>3 DEF SettleInv
<1>8. CASE RemoveTree
  <2>1. op.pc = "remove" /\ cleanup' = cleanup /\ op'.next = op.next /\ op'.lost = op.lost
    BY <1>8 DEF RemoveTree, tables, OpType
  <2> QED BY <2>1 DEF SettleInv
<1>9. CASE MarkDone
  <2>1. /\ op.pc = "mark" /\ op.next <= Len(cleanup) /\ cleanup' = WithStatus("done")
        /\ op'.next = op.next + 1 /\ op'.lost = op.lost
    BY <1>9 DEF MarkDone, NextRow, OpType
  <2>2. op.next \in 1 .. Len(cleanup)
    BY <1>1, <2>1 DEF OpType
  <2>3. /\ Len(cleanup') = Len(cleanup)
        /\ \A j \in 1 .. Len(cleanup) :
              cleanup'[j].status = IF j = op.next THEN "done" ELSE cleanup[j].status
    BY <2>1, <2>2, QueueRows DEF WithStatus, RowsType, Statuses
  <2> QED BY <1>1, <2>1, <2>2, <2>3 DEF SettleInv
<1>10. \/ op' = op /\ cleanup' = cleanup
       \/ op'.pc \notin {"cleanup", "remove", "mark"}
       \/ Start \/ SkipRow \/ RefuseRow \/ FailRemoveTree \/ BeginRow \/ RemoveTree \/ MarkDone
  BY PlaceStep
<1> QED BY <1>2, <1>3, <1>4, <1>5, <1>6, <1>7, <1>8, <1>9, <1>10

\* A start that gets through the queue leaves each row done or failed
\* (ProcessCleanupQueue, overlay_operations.cpp:1081), for every queue and after any
\* ends of the service.
THEOREM StartsSettleTheQueue == Spec => StartSettlesQueue
<1>1. TypeInv /\ SettleInv /\ [Next]_vars =>
          [op.pc = "cleanup" /\ op.next > Len(cleanup) /\ op'.pc = "idle" /\ ~op.lost =>
              \A row \in ToSet(cleanup') : row.status \in {"done", "failed"}]_vars
  <2> SUFFICES ASSUME TypeInv, SettleInv, [Next]_vars,
                      op.pc = "cleanup", op.next > Len(cleanup), ~op.lost
               PROVE  \A row \in ToSet(cleanup') : row.status \in {"done", "failed"}
    OBVIOUS
  <2>1. Len(cleanup) \in Nat /\ op.next \in Nat /\ DOMAIN cleanup = 1 .. Len(cleanup)
    BY LenProperties DEF TypeInv, RowsType, OpType
  <2>2. ~DeleteRule /\ ~Enqueue /\ op.next \notin 1 .. Len(cleanup)
    BY <2>1 DEF DeleteRule, Enqueue
  <2>3. cleanup' = cleanup
    BY <2>2, QueueStep DEF TypeInv, StatusWritten
  <2>4. \A i \in 1 .. Len(cleanup) : cleanup[i].status \in {"done", "failed"}
    BY <2>1 DEF SettleInv
  <2> QED BY <2>1, <2>3, <2>4 DEF ToSet
<1>2. Init => TypeInv /\ SettleInv
  BY TypeInit DEF Init, Idle, SettleInv
<1>3. (TypeInv /\ SettleInv) /\ [Next]_vars => (TypeInv /\ SettleInv)'
  BY TypeStep, SettleStep
<1> QED BY <1>1, <1>2, <1>3, PTL DEF Spec, StartSettlesQueue

-----------------------------------------------------------------------------
(***************************************************************************)
(* Rules that stand together, and the trees that are moved aside.           *)
(***************************************************************************)

\* No source is a whole drive, or overlaps another source or any store.
SoundInv ==
    \A r \in rules :
        /\ Len(r.source) > 1
        /\ ~Overlap(r.source, NormalizePath(r.store))
        /\ \A q \in rules : r.id # q.id =>
              ~Overlap(r.source, q.source) /\ ~Overlap(r.source, NormalizePath(q.store))

\* Such a tree is that of its rule.
StageOf(id, path) ==
    \E r \in rules, n \in 1 .. Len(StageNames) : r.id = id /\ path = DiscardCleanupRoot(r, n)

\* So are those in the queue and in hand.
StageInv ==
    /\ \A i \in 1 .. Len(cleanup) : StageOf(cleanup[i].id, cleanup[i].path)
    /\ op.pc = "enqueue" => op.tree # <<>>
    /\ op.tree # <<>> =>
          \/ op.pc \in {"forget", "enqueue"} /\ StageOf(op.id, op.tree)
          \/ op.pc = "down" /\ op.tree \in orphans

\* A rule is added where it stands together with all others, and enabling a rule
\* moves nothing.
LEMMA SoundStep ==
    ASSUME TypeInv, SoundInv, [Next]_vars
    PROVE  SoundInv'
<1> USE DEF TypeInv
<1>1. CASE \A r \in rules' : \E q \in rules : Twins(r, q)
  <2>1. SUFFICES ASSUME NEW r \in rules'
                 PROVE  /\ Len(r.source) > 1
                        /\ ~Overlap(r.source, NormalizePath(r.store))
                        /\ \A q \in rules' : r.id # q.id =>
                              ~Overlap(r.source, q.source) /\ ~Overlap(r.source, NormalizePath(q.store))
    BY DEF SoundInv
  <2>2. PICK old \in rules : Twins(r, old)
    BY <1>1
  <2>3. ASSUME NEW q \in rules', r.id # q.id
        PROVE  ~Overlap(r.source, q.source) /\ ~Overlap(r.source, NormalizePath(q.store))
    <3>1. PICK other \in rules : Twins(q, other)
      BY <1>1
    <3> QED BY <2>2, <2>3, <3>1 DEF Twins, SoundInv
  <2> QED BY <2>2, <2>3 DEF Twins, SoundInv
<1>2. ASSUME NEW offer \in scene.offers, AddRule(offer)
      PROVE  SoundInv'
  <2> DEFINE new == NewRule(offer)
  <2>1. /\ rules' = rules \union {new} /\ offer.id \notin used /\ new.id = offer.id
        /\ ValidateOverlayRuleSet(rules, new, dirs)
    BY <1>2 DEF AddRule, SetRules, NewRule
  <2>2. NormalizePath(new.source) = new.source
    BY NewRuleType, TableFacts
  <2>3. \A r \in rules : NormalizePath(r.source) = r.source /\ r.id # new.id
    BY <2>1, TableFacts DEF RulesType
  <2>4. Len(new.source) > 1 /\ ~Overlap(new.source, NormalizePath(new.store))
    BY <2>1, <2>2 DEF ValidateOverlayRuleSet, ValidateOverlayRule
  <2>5. \A r \in rules : /\ ~Overlap(new.source, r.source)
                         /\ ~Overlap(new.source, NormalizePath(r.store))
                         /\ ~Overlap(r.source, NormalizePath(new.store))
    BY <2>1, <2>2, <2>3 DEF ValidateOverlayRuleSet, CanStandTogether
  <2>6. \A r \in rules : ~Overlap(r.source, new.source)
    BY <2>5 DEF Overlap
  <2> HIDE DEF new
  <2> QED BY <2>1, <2>4, <2>5, <2>6 DEF SoundInv
<1> QED BY <1>1, <1>2, RulesStep

\* A tree moved aside stays that of its rule.
LEMMA StageStays ==
    ASSUME TypeInv, [Next]_vars, NEW id, NEW path, StageOf(id, path), DeleteRule => id # op.id
    PROVE  \E r \in rules', n \in 1 .. Len(StageNames) : r.id = id /\ path = DiscardCleanupRoot(r, n)
<1> USE DEF TypeInv
<1>1. PICK r \in rules, n \in 1 .. Len(StageNames) : r.id = id /\ path = DiscardCleanupRoot(r, n)
  BY DEF StageOf
<1>2. \E q \in rules' : Twins(r, q)
  <2>1. CASE DeleteRule
    BY <1>1, <2>1 DEF DeleteRule, SetRules, Without, Twins
  <2> QED BY <2>1, RulesStep
<1>3. PICK q \in rules' : Twins(r, q)
  BY <1>2
<1> QED BY <1>1, <1>3 DEF Twins, DiscardCleanupRoot

\* Which actions touch the tree in hand.
LEMMA TreeWriters ==
    ASSUME TypeInv, StageInv, [Next]_vars
    PROVE  /\ op' = op \/ op'.tree = <<>> \/ Isolate \/ Forget \/ Crash
           /\ op'.pc = "enqueue" => (op' = op \/ op'.tree # <<>>)
<1> USE DEF TypeInv
<1>1. CASE RuleCommand
  <2>1. \A offer \in scene.offers : AddRule(offer) => op' = op
    BY DEF AddRule
  <2>2. \A rule \in rules, enabled \in BOOLEAN : SetRuleEnabled(rule, enabled) => op' = op
    BY DEF SetRuleEnabled
  <2>3. \A rule \in rules : CheckDelete(rule) => op'.tree = <<>> /\ op'.pc = "delete"
    BY DEF CheckDelete, Idle
  <2>4. DeleteRule \/ FailDelete => op'.tree = <<>> /\ op'.pc = "idle"
    BY DEF DeleteRule, FailDelete, Idle
  <2> QED BY <1>1, <2>1, <2>2, <2>3, <2>4 DEF RuleCommand
<1>2. CASE DriverRequest
  BY <1>2 DEF DriverRequest, Request, Copy, FailRequest, Record
<1>3. CASE Operation
  <2>1. \A rule \in rules, action \in {"commit", "discard"} :
            Begin(rule, action) => op'.tree = <<>> /\ op'.pc = "apply"
    BY DEF Begin, Idle
  <2>2. FailForget \/ Enqueue \/ FailEnqueue => op'.tree = <<>> /\ op'.pc = "resume"
    BY DEF FailForget, Enqueue, FailEnqueue, OpType
  <2>3. FailApply \/ RemoveShadow => op'.tree = <<>> /\ op'.pc # "enqueue"
    BY DEF FailApply, RemoveShadow, OpType, StageInv
  <2>4. Resume => op'.tree = <<>> /\ op'.pc = "idle"
    BY DEF Resume, Idle
  <2>5. Isolate => op'.pc = "forget"
    BY DEF Isolate, OpType
  <2>6. Forget => (op'.pc = "enqueue" => op'.tree # <<>>)
    BY DEF Forget, OpType
  <2> QED BY <1>3, <2>1, <2>2, <2>3, <2>4, <2>5, <2>6 DEF Operation
<1>4. CASE Crash
  BY <1>4 DEF Crash, OpType
<1>5. CASE Start
  BY <1>5 DEF Start, Idle
<1>6. CASE ProcessCleanupQueue
  <2>1. op.pc \in {"cleanup", "remove", "mark"} /\ op.tree = <<>>
    BY <1>6 DEF ProcessCleanupQueue, SkipRow, RefuseRow, BeginRow, RemoveTree, FailRemoveTree,
                MarkDone, FinishStart, StageInv
  <2>2. NextRow.tree = <<>> /\ [NextRow EXCEPT !.lost = TRUE].tree = <<>>
        /\ NextRow.pc = "cleanup" /\ [NextRow EXCEPT !.lost = TRUE].pc = "cleanup"
    BY <2>1 DEF NextRow, OpType
  <2>3. SkipRow \/ RefuseRow \/ FailRemoveTree \/ MarkDone => op'.tree = <<>> /\ op'.pc = "cleanup"
    BY <2>2 DEF SkipRow, RefuseRow, FailRemoveTree, MarkDone, SetFailed
  <2>4. BeginRow \/ RemoveTree => op'.tree = <<>> /\ op'.pc # "enqueue"
    BY <2>1 DEF BeginRow, RemoveTree, OpType
  <2>5. FinishStart => op'.tree = <<>> /\ op'.pc = "idle"
    BY DEF FinishStart, Idle
  <2> QED BY <1>6, <2>3, <2>4, <2>5 DEF ProcessCleanupQueue
<1>7. CASE UNCHANGED vars \/ UsedUp \/ \E source \in Removable : ToggleSource(source)
  BY <1>7 DEF vars, UsedUp, ToggleSource
<1> QED BY <1>1, <1>2, <1>3, <1>4, <1>5, <1>6, <1>7 DEF Next

\* What is moved aside and queued is the tree of its rule.
LEMMA StageStep ==
    ASSUME TypeInv, StageInv, [Next]_vars
    PROVE  StageInv'
<1> USE DEF TypeInv, tables, queueing
<1> DEFINE Stays(id, path) ==
        \E r \in rules', n \in 1 .. Len(StageNames) : r.id = id /\ path = DiscardCleanupRoot(r, n)
<1>0. Len(cleanup) \in Nat
  BY DEF RowsType
<1>1. \A i \in 1 .. Len(cleanup') : Stays(cleanup'[i].id, cleanup'[i].path)
  <2>1. SUFFICES ASSUME NEW i \in 1 .. Len(cleanup')
                 PROVE  Stays(cleanup'[i].id, cleanup'[i].path)
    OBVIOUS
  <2>2. ASSUME NEW j \in 1 .. Len(cleanup), DeleteRule => cleanup[j].id # op.id,
               cleanup'[i].id = cleanup[j].id, cleanup'[i].path = cleanup[j].path
        PROVE  Stays(cleanup'[i].id, cleanup'[i].path)
    <3>1. StageOf(cleanup[j].id, cleanup[j].path)
      BY DEF StageInv
    <3>2. Stays(cleanup[j].id, cleanup[j].path)
      BY <2>2, <3>1, StageStays
    <3> QED BY <2>2, <3>2
  <2>3. CASE DeleteRule
    <3>1. ~Enqueue /\ ~RefuseRow /\ ~FailRemoveTree /\ ~BeginRow /\ ~MarkDone
      BY <2>3 DEF DeleteRule, Enqueue, RefuseRow, FailRemoveTree, BeginRow, MarkDone
    <3> QED BY <2>2, <2>3, <3>1, QueueStep
  <2>4. CASE ~DeleteRule /\ cleanup' = cleanup
    BY <2>2, <2>4
  <2>5. CASE ~DeleteRule /\ (StatusWritten("failed") \/ StatusWritten("running") \/ StatusWritten("done"))
    BY <2>2, <2>5 DEF StatusWritten
  <2>6. CASE /\ Enqueue
             /\ Len(cleanup') = Len(cleanup) + 1
             /\ \A j \in 1 .. Len(cleanup) : cleanup'[j] = cleanup[j]
             /\ cleanup'[Len(cleanup) + 1] =
                    [id |-> op.id, path |-> op.tree, status |-> "pending"]
    <3>1. ~DeleteRule
      BY <2>6 DEF Enqueue, DeleteRule
    <3>2. CASE i = Len(cleanup) + 1
      <4>1. StageOf(op.id, op.tree)
        BY <2>6 DEF StageInv, Enqueue
      <4>2. Stays(op.id, op.tree)
        BY <3>1, <4>1, StageStays
      <4> QED BY <2>6, <3>2, <4>2
    <3>3. CASE i # Len(cleanup) + 1
      <4>1. i \in 1 .. Len(cleanup)
        BY <1>0, <2>6, <3>3
      <4> QED BY <2>2, <2>6, <3>1, <4>1
    <3> QED BY <3>2, <3>3
  <2> QED BY <2>3, <2>4, <2>5, <2>6, QueueStep
<1>2. op'.tree # <<>> =>
          \/ op'.pc \in {"forget", "enqueue"} /\ Stays(op'.id, op'.tree)
          \/ op'.pc = "down" /\ op'.tree \in orphans'
  <2>1. CASE op' = op
    <3>1. ~DeleteRule \/ op.tree = <<>>
      BY DEF DeleteRule, StageInv
    <3>2. op.tree # <<>> /\ op.pc \in {"forget", "enqueue"} => Stays(op.id, op.tree)
      BY <3>1, StageStays DEF StageInv
    <3> QED BY <2>1, <3>2, Writers DEF StageInv
  <2>2. CASE op'.tree = <<>>
    BY <2>2
  <2>3. CASE Isolate /\ op'.tree # <<>>
    <3>1. op.tree = <<>> /\ ~DeleteRule
      BY <2>3 DEF Isolate, StageInv, DeleteRule
    <3>2. PICK r \in Rule(op.id) :
              \/ op' = [op EXCEPT !.pc = "forget"]
              \/ /\ staged < scene.trees
                 /\ op' = [op EXCEPT !.pc = "forget", !.tree = DiscardCleanupRoot(r, staged + 1)]
      BY <2>3 DEF Isolate
    <3>3. /\ staged < scene.trees /\ op'.tree = DiscardCleanupRoot(r, staged + 1)
          /\ op'.pc = "forget" /\ op'.id = op.id
      BY <2>3, <3>1, <3>2 DEF OpType
    <3>4. StageOf(op'.id, op'.tree)
      BY <3>2, <3>3, NextStage DEF StageOf, Rule
    <3>5. Stays(op'.id, op'.tree)
      <4>1. PICK id, path : id = op'.id /\ path = op'.tree
        OBVIOUS
      <4>2. StageOf(id, path)
        BY <3>4, <4>1
      <4>3. Stays(id, path)
        BY <3>1, <4>2, StageStays
      <4> QED BY <4>1, <4>3
    <3> QED BY <3>3, <3>5
  <2>4. CASE Forget
    <3>1. /\ op.pc = "forget" /\ op'.tree = op.tree /\ op'.id = op.id /\ ~DeleteRule
          /\ op'.pc = IF op.tree = <<>> THEN "resume" ELSE "enqueue"
      BY <2>4 DEF Forget, DeleteRule, OpType
    <3>2. op.tree # <<>> => Stays(op.id, op.tree)
      BY <3>1, StageStays DEF StageInv
    <3> QED BY <3>1, <3>2
  <2>5. CASE Crash
    BY <2>5 DEF Crash, OpType
  <2>6. CASE op.tree = <<>> /\ op'.tree = op.tree
    BY <2>6
  <2> QED BY <2>1, <2>2, <2>3, <2>4, <2>5, <2>6, TreeWriters
<1>3. op'.pc = "enqueue" => op'.tree # <<>>
  BY TreeWriters DEF StageInv
<1> QED BY <1>1, <1>2, <1>3 DEF StageInv, StageOf

\* The cleanup of a queued tree touches no source of any rule
\* (ProcessCleanupQueue, overlay_operations.cpp:1081), however rules came and went
\* and sources disappeared since it was queued.
THEOREM SourcesAreSpared == Spec => []QueueSparesSources
<1>1. Init => TypeInv /\ SoundInv /\ StageInv
  BY TypeInit DEF Init, Idle, SoundInv, StageInv
<1>2. (TypeInv /\ SoundInv /\ StageInv) /\ [Next]_vars => (TypeInv /\ SoundInv /\ StageInv)'
  BY TypeStep, SoundStep, StageStep
<1>3. TypeInv /\ SoundInv /\ StageInv => QueueSparesSources
  <2> SUFFICES ASSUME TypeInv, SoundInv, StageInv, NEW row \in ToSet(cleanup), NEW rule \in rules,
                      Overlap(row.path, rule.source)
               PROVE  FALSE
    BY DEF QueueSparesSources
  <2>1. PICK i \in 1 .. Len(cleanup) : row = cleanup[i]
    BY LenProperties DEF ToSet, TypeInv, RowsType
  <2>2. PICK r \in rules, n \in 1 .. Len(StageNames) : row.path = DiscardCleanupRoot(r, n)
    BY <2>1 DEF StageInv, StageOf
  <2>3. r \in Table /\ rule \in Table
    BY DEF TypeInv, RulesType
  <2>4. /\ NormalizePath(r.store) \in Path /\ rule.source \in Path /\ row.path \in Path
        /\ IsPrefix(NormalizePath(r.store), row.path) /\ IsPrefix(rule.source, rule.source)
    BY <2>2, <2>3, TableFacts, RootFacts, PrefixReflexive DEF TypeInv
  <2>5. Overlap(NormalizePath(r.store), rule.source)
    BY <2>4, OverlapAbove
  <2>6. Overlap(rule.source, NormalizePath(r.store))
    BY <2>5 DEF Overlap
  <2>7. r.id = rule.id => r = rule
    BY DEF TypeInv, RulesType
  <2> QED BY <2>6, <2>7 DEF SoundInv
<1> QED BY <1>1, <1>2, <1>3, PTL DEF Spec

(***************************************************************************)
(* Whose shadow files an operation takes.                                   *)
(***************************************************************************)

\* No shadow file of a path that is opened is in a tree moved aside.
LEMMA ShadowsAreNotStaged ==
    ASSUME SceneType, NEW r \in Table, NEW n \in 1 .. Len(StageNames), NEW f \in Path, Clean(f)
    PROVE  ~IsPrefix(DiscardCleanupRoot(r, n), f)
<1> DEFINE k == Len(NormalizePath(r.store)) + 1
<1>1. /\ DiscardCleanupRoot(r, n) \in Path /\ Len(DiscardCleanupRoot(r, n)) = k
      /\ DiscardCleanupRoot(r, n)[k] \in ToSet(StageNames)
  BY RootFacts
<1>2. k \in 1 .. k /\ Len(f) \in Nat
  BY TableFacts DEF Path
<1>3. IsPrefix(DiscardCleanupRoot(r, n), f) => k \in 1 .. Len(f) /\ f[k] = DiscardCleanupRoot(r, n)[k]
  BY <1>1, <1>2, PrefixPointwise
<1> QED BY <1>1, <1>3 DEF Clean

\* Two rules have their shadow trees in the way of each other only if their stores
\* overlap.
LEMMA ShadowsApart ==
    ASSUME TypeInv, NEW r \in rules, NEW q \in rules, NEW f \in Path,
           IsPrefix(DriveRoot(r), f), IsPrefix(DriveRoot(q), f)
    PROVE  q = r \/ ~StoresApart(q, r)
<1>1. r \in Table /\ q \in Table
  BY DEF TypeInv, RulesType
<1>2. /\ NormalizePath(r.store) \in Path /\ IsPrefix(NormalizePath(r.store), DriveRoot(r)) /\ DriveRoot(r) \in Path
      /\ NormalizePath(q.store) \in Path /\ IsPrefix(NormalizePath(q.store), DriveRoot(q)) /\ DriveRoot(q) \in Path
  BY <1>1, TableFacts, RootFacts DEF TypeInv
<1>3. IsPrefix(NormalizePath(r.store), f) /\ IsPrefix(NormalizePath(q.store), f)
  BY <1>2, PrefixTransitive
<1>4. Overlap(NormalizePath(q.store), NormalizePath(r.store))
  BY <1>2, <1>3, PrefixesCompare DEF Overlap, SameOrChildPath
<1>5. q.id = r.id => q = r
  BY DEF TypeInv, RulesType
<1> QED BY <1>4, <1>5 DEF StoresApart

\* The shadow of a recorded change goes only with a commit or discard of its own
\* rule or of one whose store overlaps (Commit, Discard and ProcessCleanupQueue in
\* overlay_operations.cpp), and never in a start, whatever rules are there.
THEOREM OthersKeepTheirShadows == Spec => OthersUntouched
<1>1. Init => TypeInv /\ StageInv
  BY TypeInit DEF Init, Idle, StageInv
<1>2. (TypeInv /\ StageInv) /\ [Next]_vars => (TypeInv /\ StageInv)'
  BY TypeStep, StageStep
<1>3. TypeInv /\ StageInv /\ [Next]_vars =>
          [\A rule \in rules : \A c \in ChangesOf(rule.id) :
              ShadowOf(rule, c) \in disk /\ ShadowOf(rule, c) \notin disk' =>
                  \E q \in Rule(op.id) : q = rule \/ ~StoresApart(q, rule)]_vars
  <2> SUFFICES ASSUME TypeInv, StageInv, [Next]_vars, NEW rule \in rules, NEW c \in ChangesOf(rule.id),
                      NEW f, f = ShadowOf(rule, c), f \in disk, f \notin disk'
               PROVE  \E q \in Rule(op.id) : q = rule \/ ~StoresApart(q, rule)
    OBVIOUS
  <2>1. rule \in Table /\ c.path \in WrittenPaths
    BY DEF TypeInv, RulesType, RowsType, ChangesOf
  <2>2. f \in Path /\ Clean(f) /\ IsPrefix(DriveRoot(rule), f)
    BY <2>1, ShadowFacts DEF TypeInv
  <2>3. ASSUME NEW q \in Rule(op.id), IsPrefix(DriveRoot(q), f)
        PROVE  \E r \in Rule(op.id) : r = rule \/ ~StoresApart(r, rule)
    BY <2>2, <2>3, ShadowsApart DEF Rule
  <2>4. CASE RemoveShadow
    <3>1. PICK q \in Rule(op.id) : disk' = disk \ Tree(DriveRoot(q))
      BY <2>4 DEF RemoveShadow
    <3> QED BY <2>3, <3>1 DEF Tree
  <2>5. CASE Isolate
    <3>1. PICK q \in Rule(op.id) :
              disk' = disk \/ (/\ staged < scene.trees
                               /\ disk' = Moved(DriveRoot(q), DiscardCleanupRoot(q, staged + 1)))
      BY <2>5 DEF Isolate
    <3>2. q \in Table
      BY DEF Rule, TypeInv, RulesType
    <3>3. IsPrefix(DriveRoot(q), f)
      BY <3>1, <3>2, MovedFacts, RootFacts, NextStage DEF TypeInv
    <3> QED BY <2>3, <3>3
  <2>6. CASE FailForget
    <3>1. PICK q \in Rule(op.id) : /\ op.tree # <<>> /\ op.pc = "forget"
                                   /\ disk' = Moved(op.tree, DriveRoot(q))
      BY <2>6 DEF FailForget
    <3>2. StageOf(op.id, op.tree) /\ op.tree \in Path
      BY <3>1 DEF StageInv, TypeInv, OpType
    <3>3. q \in Table /\ \A r \in rules : r \in Table
      BY DEF Rule, TypeInv, RulesType
    <3>4. IsPrefix(op.tree, f)
      BY <3>1, <3>2, <3>3, MovedFacts, RootFacts DEF TypeInv
    <3> QED BY <2>2, <3>2, <3>3, <3>4, ShadowsAreNotStaged DEF StageOf, TypeInv
  <2>7. CASE RemoveTree \/ FailRemoveTree
    <3>1. op.pc = "remove" /\ f \in Tree(Row.path)
      BY <2>7 DEF RemoveTree, FailRemoveTree
    <3>2. op.next \in 1 .. Len(cleanup)
      BY <3>1 DEF TypeInv, OpType, RowsType
    <3>3. StageOf(Row.id, Row.path) /\ IsPrefix(Row.path, f)
      BY <3>1, <3>2 DEF StageInv, Row, Tree
    <3>4. \A r \in rules : r \in Table
      BY DEF TypeInv, RulesType
    <3> QED BY <2>2, <3>3, <3>4, ShadowsAreNotStaged DEF StageOf, TypeInv
  <2>8. CASE Copy
    BY <2>8 DEF Copy
  <2> QED BY <2>4, <2>5, <2>6, <2>7, <2>8, Writers
<1> QED BY <1>1, <1>2, <1>3, PTL DEF Spec, OthersUntouched

-----------------------------------------------------------------------------
(***************************************************************************)
(* The driver's cache.                                                      *)
(***************************************************************************)

\* What the driver has is of rules that are there, enabled or not.
CacheInv == \A e \in cache : \E r \in rules : e = CacheEntry(r)

\* A push replaces the cache, and no rule is deleted without one.
LEMMA CacheStep ==
    ASSUME TypeInv, CacheInv, [Next]_vars
    PROVE  CacheInv'
<1> USE DEF TypeInv
<1>1. CASE cache' = Pushed(rules')
  BY <1>1 DEF Pushed, CacheInv
<1>2. CASE cache' = cache /\ ~DeleteRule
  <2>1. SUFFICES ASSUME NEW e \in cache
                 PROVE  \E r \in rules' : e = CacheEntry(r)
    BY <1>2 DEF CacheInv
  <2>2. PICK r \in rules : e = CacheEntry(r)
    BY DEF CacheInv
  <2>3. PICK q \in rules' : Twins(r, q)
    BY <1>2, RulesStep
  <2>4. CacheEntry(q) = CacheEntry(r)
    BY <2>3 DEF Twins, CacheEntry, MapRealPathToShadowPath, DriveRoot
  <2> QED BY <2>2, <2>3, <2>4
<1>3. DeleteRule => cache' = Pushed(rules')
  BY DEF DeleteRule, SetRules
<1> QED BY <1>1, <1>2, <1>3, Writers

\* The names below a source, which is no whole drive, come in their long form, with
\* which alone the driver finds the shadow that the service made.
LongBelowSources ==
    \A s \in Scenes : \A offer \in s.offers, path \in Opened :
        Len(offer.source) > 1 /\ IsPrefix(NormalizePath(offer.source), NormalizePath(path)) =>
            \A i \in 1 .. Len(path) : i > Len(offer.source) => LongName(path[i]) = path[i]

\* What is known of an entry and its rule.
LEMMA EntryFacts ==
    ASSUME TypeInv, NEW r \in rules, NEW e, e = CacheEntry(r)
    PROVE  /\ r \in Table /\ e.id = r.id /\ e.source = r.source
           /\ e.source \in Path /\ NormalizePath(e.source) = e.source
           /\ e.alias = GetShortDosPath(e.source)
           /\ e.store = DriveRoot(r) \o e.source /\ e.store \in Path
           /\ DriveRoot(r) \in Path /\ NormalizePath(r.store) \in Path /\ r.store \in Path
           /\ IsPrefix(DriveRoot(r), e.store) /\ IsPrefix(NormalizePath(r.store), DriveRoot(r))
           /\ IsPrefix(NormalizePath(r.store), e.store)
           /\ NormalizePath(NormalizePath(r.store)) = NormalizePath(r.store)
<1>1. r \in Table
  BY DEF TypeInv, RulesType
<1>2. /\ r.source \in Path /\ NormalizePath(r.source) = r.source
      /\ DriveRoot(r) \in Path /\ NormalizePath(r.store) \in Path /\ r.store \in Path
      /\ IsPrefix(NormalizePath(r.store), DriveRoot(r))
  BY <1>1, TableFacts, RootFacts DEF TypeInv
<1>3. /\ e.id = r.id /\ e.source = r.source /\ e.alias = GetShortDosPath(r.source)
      /\ e.store = DriveRoot(r) \o r.source
  BY <1>2 DEF CacheEntry, MapRealPathToShadowPath
<1>4. e.store \in Path /\ IsPrefix(DriveRoot(r), e.store)
  BY <1>2, <1>3, PathConcat
<1>5. IsPrefix(NormalizePath(r.store), e.store)
  BY <1>2, <1>4, PrefixTransitive
<1> QED BY <1>1, <1>2, <1>3, <1>4, <1>5, NormalizedPath

\* A path below a source is in no store, and no other rule's source is above it.
LEMMA FoundBySource ==
    ASSUME TypeInv, SoundInv, CacheInv, NEW entry \in cache, NEW path \in Path,
           IsPrefix(entry.source, NormalizePath(path))
    PROVE  FindSourceRuleForPath(cache, path, entry)
<1>1. PICK r \in rules : entry = CacheEntry(r)
  BY DEF CacheInv
<1>2. NormalizePath(path) \in Path
  BY NormalizedPath
<1>3. ASSUME NEW e \in cache, IsPrefix(e.store, path)
      PROVE  FALSE
  <2>1. PICK q \in rules : e = CacheEntry(q)
    BY DEF CacheInv
  <2>2. IsPrefix(NormalizePath(q.store), path)
    BY <1>3, <2>1, EntryFacts, PrefixTransitive
  <2>3. IsPrefix(NormalizePath(q.store), NormalizePath(path))
    BY <2>1, <2>2, EntryFacts, NormalizedPrefix
  <2>4. Overlap(r.source, NormalizePath(q.store))
    BY <1>1, <1>2, <2>1, <2>3, EntryFacts, PrefixesCompare DEF Overlap, SameOrChildPath
  <2>5. r.id = q.id => r = q
    BY DEF TypeInv, RulesType
  <2> QED BY <2>4, <2>5 DEF SoundInv
<1>4. ASSUME NEW e \in cache
      PROVE  MatchSourcePathPrefix(e, path) <=> IsPrefix(e.source, NormalizePath(path))
  <2>1. PICK q \in rules : e = CacheEntry(q)
    BY DEF CacheInv
  <2> QED BY <2>1, EntryFacts, MatchIsPrefix
<1>5. ASSUME NEW e \in cache, IsPrefix(e.source, NormalizePath(path))
      PROVE  e = entry
  <2>1. PICK q \in rules : e = CacheEntry(q)
    BY DEF CacheInv
  <2>2. Overlap(r.source, q.source)
    BY <1>1, <1>2, <1>5, <2>1, EntryFacts, PrefixesCompare DEF Overlap, SameOrChildPath
  <2>3. r.id = q.id
    BY <2>2 DEF SoundInv
  <2> QED BY <1>1, <2>1, <2>3 DEF TypeInv, RulesType
<1>6. {e \in cache : MatchSourcePathPrefix(e, path)} = {entry}
  BY <1>4, <1>5
<1>7. ~IsStorePathLocked(cache, path)
  BY <1>3 DEF IsStorePathLocked, SameOrChildPath
<1> QED BY <1>6, <1>7 DEF FindSourceRuleForPath, FindSourceRule

\* What follows the first of two paths put together is the second.
LEMMA RestOfConcat ==
    ASSUME NEW p \in Path, NEW q \in Path
    PROVE  SubSeq(p \o q, Len(p) + 1, Len(p \o q)) = q
<1>1. PICK f, back : f = p \o q /\ back = SubSeq(f, Len(p) + 1, Len(f))
  OBVIOUS
<1>2. /\ f \in Path /\ Len(f) = Len(p) + Len(q) /\ IsPrefix(p, f)
      /\ \A i \in 1 .. Len(q) : f[Len(p) + i] = q[i]
  BY <1>1, PathConcat
<1>3. /\ back \in Path /\ Len(f) = Len(p) + Len(back)
      /\ \A i \in 1 .. Len(back) : back[i] = f[Len(p) + i]
  <2>1. f \in Path /\ IsPrefix(p, f) /\ back = SubSeq(f, Len(p) + 1, Len(f))
    BY <1>1, <1>2
  <2>2. \A rest : rest = SubSeq(f, Len(p) + 1, Len(f)) =>
            /\ rest \in Path /\ Len(f) = Len(p) + Len(rest)
            /\ \A i \in 1 .. Len(rest) : rest[i] = f[Len(p) + i]
            /\ f = p \o rest
    BY <2>1, PathRest
  <2> QED BY <2>1, <2>2
<1>4. Len(p) \in Nat /\ Len(q) \in Nat /\ Len(back) \in Nat
  BY <1>3 DEF Path
<1>5. Len(back) = Len(q)
  BY <1>2, <1>3, <1>4
<1>6. back = q
  BY <1>2, <1>3, <1>5, SeqEqual DEF Path
<1> QED BY <1>1, <1>6

\* Names that are long already are the same in the long form of a path.
LEMMA LongRest ==
    ASSUME NEW s \in Path, NEW path \in Path, IsPrefix(s, NormalizePath(path)),
           \A i \in 1 .. Len(path) : i > Len(s) => LongName(path[i]) = path[i]
    PROVE  SubSeq(path, Len(s) + 1, Len(path)) =
               SubSeq(NormalizePath(path), Len(s) + 1, Len(NormalizePath(path)))
<1>1. PICK real, tail, rest : /\ real = NormalizePath(path)
                              /\ tail = SubSeq(path, Len(s) + 1, Len(path))
                              /\ rest = SubSeq(real, Len(s) + 1, Len(real))
  OBVIOUS
<1>2. /\ real \in Path /\ Len(real) = Len(path) /\ Len(path) \in Nat /\ Len(s) \in Nat
      /\ \A i \in 1 .. Len(path) : real[i] = LongName(path[i])
      /\ IsPrefix(s, real)
  BY <1>1, NormalizedPath DEF Path
<1>3. Len(s) <= Len(path)
  BY <1>2, PrefixPointwise
<1>4. /\ rest \in Path /\ Len(real) = Len(s) + Len(rest) /\ Len(rest) \in Nat
      /\ \A i \in 1 .. Len(rest) : rest[i] = real[Len(s) + i]
  <2>1. /\ rest \in Path /\ Len(real) = Len(s) + Len(rest)
        /\ \A i \in 1 .. Len(rest) : rest[i] = real[Len(s) + i]
    <3>1. real \in Path /\ IsPrefix(s, real) /\ rest = SubSeq(real, Len(s) + 1, Len(real))
      BY <1>1, <1>2
    <3>2. \A r : r = SubSeq(real, Len(s) + 1, Len(real)) =>
              /\ r \in Path /\ Len(real) = Len(s) + Len(r)
              /\ \A i \in 1 .. Len(r) : r[i] = real[Len(s) + i]
              /\ real = s \o r
      BY <3>1, PathRest
    <3> QED BY <3>1, <3>2
  <2> QED BY <2>1 DEF Path
<1>5. \A i \in Len(s) + 1 .. Len(path) : path[i] \in Names
  BY <1>2, ElementOfSeq DEF Path
<1>6. /\ tail \in Seq(Names)
      /\ Len(tail) = IF Len(s) + 1 <= Len(path) THEN Len(path) - (Len(s) + 1) + 1 ELSE 0
      /\ \A i \in 1 .. Len(path) - (Len(s) + 1) + 1 : tail[i] = path[Len(s) + 1 + i - 1]
  <2>1. Len(s) + 1 \in Int /\ Len(path) \in Int
    BY <1>2
  <2> QED BY <1>1, <1>5, <2>1, SubSeqProperties
<1>7. Len(tail) = Len(rest)
  <2>1. Len(tail) = Len(path) - Len(s)
    <3>1. Len(s) \in Nat /\ Len(path) \in Nat /\ Len(s) <= Len(path)
      BY <1>2, <1>3
    <3> QED BY <1>6, <3>1
  <2>2. Len(path) = Len(s) + Len(rest) /\ Len(s) \in Nat /\ Len(rest) \in Nat /\ Len(path) \in Nat
    BY <1>2, <1>4
  <2> QED BY <2>1, <2>2
<1>8. ASSUME NEW i \in 1 .. Len(tail)
      PROVE  tail[i] = rest[i]
  <2>1. Len(s) + i \in 1 .. Len(path) /\ Len(s) + i > Len(s) /\ i \in 1 .. Len(rest)
    BY <1>2, <1>4, <1>7
  <2>2. tail[i] = path[Len(s) + i]
    BY <1>2, <1>3, <1>6, <1>7, <1>4
  <2>3. rest[i] = LongName(path[Len(s) + i])
    BY <1>2, <1>4, <2>1
  <2> QED BY <2>1, <2>2, <2>3
<1>9. tail = rest
  BY <1>4, <1>6, <1>7, <1>8, SeqEqual DEF Path
<1> QED BY <1>1, <1>9

\* What the driver puts behind the matched part is what the service has there.
LEMMA SameShadow ==
    ASSUME TypeInv, SoundInv, LongBelowSources, NEW r \in rules, NEW entry, entry = CacheEntry(r),
           NEW path \in Opened, IsPrefix(entry.source, NormalizePath(path))
    PROVE  /\ path \in Path
           /\ BuildShadowPath(entry, path) = DriveRoot(r) \o NormalizePath(path)
           /\ BuildShadowPath(entry, path) \in Path
           /\ IsPrefix(entry.store, BuildShadowPath(entry, path))
           /\ BuildRealPathFromShadow(entry, BuildShadowPath(entry, path)) = NormalizePath(path)
<1>1. path \in Path
  BY PathsAssumption
<1>2. PICK s, real, rest : /\ s = entry.source /\ real = NormalizePath(path)
                           /\ rest = SubSeq(real, Len(s) + 1, Len(real))
  OBVIOUS
<1>3. /\ s \in Path /\ DriveRoot(r) \in Path /\ entry.store = DriveRoot(r) \o s /\ entry.store \in Path
      /\ real \in Path
  BY <1>1, <1>2, EntryFacts, NormalizedPath
<1>4. \A i \in 1 .. Len(path) : i > Len(s) => LongName(path[i]) = path[i]
  <2>1. scene \in Scenes /\ r \in Table /\ s = r.source
    BY <1>2, EntryFacts DEF TypeInv, SceneType
  <2>2. PICK offer \in scene.offers : s = NormalizePath(offer.source)
    BY <2>1 DEF Table, SourcesOf
  <2>3. offer.source \in Path
    BY <2>1, PathsAssumption
  <2>4. Len(offer.source) = Len(s) /\ Len(s) > 1
    BY <2>1, <2>2, <2>3, NormalizedPath DEF SoundInv
  <2>5. IsPrefix(NormalizePath(offer.source), NormalizePath(path))
    BY <1>2, <2>2
  <2> QED BY <2>1, <2>2, <2>4, <2>5 DEF LongBelowSources
<1>5. rest \in Path /\ real = s \o rest
  <2>1. real \in Path /\ IsPrefix(s, real) /\ rest = SubSeq(real, Len(s) + 1, Len(real))
    BY <1>2, <1>3
  <2>2. \A t : t = SubSeq(real, Len(s) + 1, Len(real)) =>
            /\ t \in Path /\ Len(real) = Len(s) + Len(t)
            /\ \A i \in 1 .. Len(t) : t[i] = real[Len(s) + i]
            /\ real = s \o t
    BY <1>3, <2>1, PathRest
  <2> QED BY <2>1, <2>2
<1>6. SubSeq(path, Len(s) + 1, Len(path)) = rest
  BY <1>1, <1>2, <1>3, <1>4, LongRest
<1>7. BuildShadowPath(entry, path) = entry.store \o rest
  BY <1>2, <1>6 DEF BuildShadowPath
<1>8. entry.store \o rest = DriveRoot(r) \o real
  BY <1>3, <1>5, ConcatAssociative DEF Path
<1>9. entry.store \o rest \in Path /\ IsPrefix(entry.store, entry.store \o rest)
  BY <1>3, <1>5, PathConcat
<1>10. BuildRealPathFromShadow(entry, entry.store \o rest) = real
  BY <1>2, <1>3, <1>5, RestOfConcat DEF BuildRealPathFromShadow
<1> QED BY <1>1, <1>2, <1>7, <1>8, <1>9, <1>10

\* From its shadow the driver finds the rule again where the stores are apart.
LEMMA FoundByStore ==
    ASSUME TypeInv, SoundInv, CacheInv, NEW r \in rules, NEW entry \in cache, entry = CacheEntry(r),
           NEW shadow \in Path, IsPrefix(entry.store, shadow), \A p, q \in rules : StoresApart(p, q)
    PROVE  FindSourceOrStoreRuleForPath(cache, shadow, entry)
<1>1. IsPrefix(NormalizePath(r.store), shadow) /\ NormalizePath(shadow) \in Path
  BY EntryFacts, PrefixTransitive, NormalizedPath
<1>2. IsPrefix(NormalizePath(r.store), NormalizePath(shadow))
  BY <1>1, EntryFacts, NormalizedPrefix
<1>3. ASSUME NEW e \in cache
      PROVE  ~MatchSourcePathPrefix(e, shadow)
  <2>1. PICK q \in rules : e = CacheEntry(q)
    BY DEF CacheInv
  <2>2. SUFFICES ASSUME IsPrefix(e.source, NormalizePath(shadow))
                 PROVE  FALSE
    BY <2>1, EntryFacts, MatchIsPrefix
  <2>3. Overlap(q.source, NormalizePath(r.store))
    BY <1>1, <1>2, <2>1, <2>2, EntryFacts, PrefixesCompare DEF Overlap, SameOrChildPath
  <2>4. q.id = r.id => q = r
    BY DEF TypeInv, RulesType
  <2> QED BY <2>3, <2>4 DEF SoundInv
<1>4. ASSUME NEW e \in cache, IsPrefix(e.store, shadow)
      PROVE  e = entry
  <2>1. PICK q \in rules : e = CacheEntry(q)
    BY DEF CacheInv
  <2>2. IsPrefix(NormalizePath(q.store), shadow)
    BY <1>4, <2>1, EntryFacts, PrefixTransitive
  <2>3. Overlap(NormalizePath(q.store), NormalizePath(r.store))
    BY <1>1, <2>1, <2>2, EntryFacts, PrefixesCompare DEF Overlap, SameOrChildPath
  <2>4. q.id = r.id
    BY <2>3 DEF StoresApart
  <2> QED BY <2>1, <2>4 DEF TypeInv, RulesType
<1>5. \A e \in cache : ~FindSourceRule(cache, shadow, e)
  BY <1>3 DEF FindSourceRule
<1>6. {e \in cache : IsPrefix(e.store, shadow)} = {entry}
  BY <1>4
<1> QED BY <1>5, <1>6 DEF FindSourceOrStoreRuleForPath, FindStoreRule, SameOrChildPath

\* What the driver has cached redirects a path, however the names down to the source
\* are spelled, by the one rule whose source it is below and to where the service
\* keeps its shadow, and back (FindSourceRuleForPath, BuildShadowPath and
\* BuildRealPathFromShadow in Driver.c, MapRealPathToShadowPath in
\* path_overlay_common.cpp), for any rules that were accepted together, if the
\* names below the source come in their long form.
THEOREM RedirectsAreRight == ASSUME LongBelowSources PROVE Spec => []RedirectsToShadow
<1>1. Init => TypeInv /\ SoundInv /\ CacheInv
  BY TypeInit DEF Init, SoundInv, CacheInv
<1>2. (TypeInv /\ SoundInv /\ CacheInv) /\ [Next]_vars => (TypeInv /\ SoundInv /\ CacheInv)'
  BY TypeStep, SoundStep, CacheStep
<1>3. TypeInv /\ SoundInv /\ CacheInv => RedirectsToShadow
  <2> SUFFICES ASSUME TypeInv, SoundInv, CacheInv, NEW entry \in cache, NEW path \in Opened,
                      IsPrefix(entry.source, NormalizePath(path)),
                      NEW shadow, shadow = BuildShadowPath(entry, path)
               PROVE  /\ FindSourceRuleForPath(cache, path, entry)
                      /\ \E rule \in Rule(entry.id) : shadow = MapRealPathToShadowPath(rule, path)
                      /\ BuildRealPathFromShadow(entry, shadow) = NormalizePath(path)
                      /\ (\A r, q \in rules : StoresApart(r, q)) =>
                            FindSourceOrStoreRuleForPath(cache, shadow, entry)
    BY DEF RedirectsToShadow, SameOrChildPath
  <2>1. PICK r \in rules : entry = CacheEntry(r)
    BY DEF CacheInv
  <2>2. /\ path \in Path /\ shadow = DriveRoot(r) \o NormalizePath(path) /\ shadow \in Path
        /\ IsPrefix(entry.store, shadow) /\ BuildRealPathFromShadow(entry, shadow) = NormalizePath(path)
    BY <2>1, SameShadow
  <2>3. r \in Rule(entry.id)
    BY <2>1, EntryFacts DEF Rule
  <2>4. shadow = MapRealPathToShadowPath(r, path)
    BY <2>2 DEF MapRealPathToShadowPath
  <2>5. FindSourceRuleForPath(cache, path, entry)
    BY <2>2, FoundBySource
  <2>6. (\A p, q \in rules : StoresApart(p, q)) => FindSourceOrStoreRuleForPath(cache, shadow, entry)
    BY <2>1, <2>2, FoundByStore
  <2> QED BY <2>2, <2>3, <2>4, <2>5, <2>6
<1> QED BY <1>1, <1>2, <1>3, PTL DEF Spec

-----------------------------------------------------------------------------
(***************************************************************************)
(* Trees that were moved aside.                                             *)
(***************************************************************************)

\* A path down to the first name of a tree moved aside.
StageRoot(root) ==
    /\ root \in Path /\ Len(root) >= 1
    /\ root[Len(root)] \in ToSet(StageNames)
    /\ \A j \in 1 .. Len(root) : j < Len(root) => root[j] \notin ToSet(StageNames)

\* The queue knows it as not removed, or its row was lost.
Known(root) ==
    \/ root \in orphans
    \/ \E i \in 1 .. Len(cleanup) : cleanup[i].path = root /\ cleanup[i].status # "done"

\* Every tree moved aside is known or in hand.
KnownInv ==
    \A f \in disk : \A root \in Path :
        StageRoot(root) /\ IsPrefix(root, f) => Known(root) \/ root = op.tree

\* The trees in the tree in hand are known when it is moved back.
BackInv ==
    op.pc = "forget" /\ op.tree # <<>> =>
        \A f \in disk, r \in rules : IsPrefix(op.tree, f) /\ r.id = op.id =>
            \A root \in Path :
                /\ StageRoot(root)
                /\ IsPrefix(root, DriveRoot(r) \o SubSeq(f, Len(op.tree) + 1, Len(f)))
                => Known(root)

\* The names of the trees that are to be moved aside are new.
FreshInv ==
    \A f \in disk : \A i \in 1 .. Len(f) : \A m \in 1 .. Len(StageNames) :
        m > staged => f[i] # StageNames[m]

\* The tree that is marked as removed is gone.
MarkInv == op.pc = "mark" => \A f \in disk : ~IsPrefix(Row.path, f)

StagedInv == KnownInv /\ BackInv /\ FreshInv /\ MarkInv

\* Of the paths of a file one at most is such a root.
LEMMA OneStageRoot ==
    ASSUME NEW f \in Path, NEW p, NEW q, StageRoot(p), StageRoot(q), IsPrefix(p, f), IsPrefix(q, f)
    PROVE  p = q
<1>1. /\ p \in Path /\ q \in Path /\ Len(p) \in Nat /\ Len(q) \in Nat /\ Len(p) >= 1 /\ Len(q) >= 1
  BY DEF StageRoot, Path
<1>2. /\ \A i \in 1 .. Len(p) : p[i] = f[i]
      /\ \A i \in 1 .. Len(q) : q[i] = f[i]
  BY <1>1, PrefixPointwise
<1>3. ~(Len(p) < Len(q))
  <2> SUFFICES ASSUME Len(p) < Len(q)
               PROVE  FALSE
    OBVIOUS
  <2>1. Len(p) \in 1 .. Len(p) /\ Len(p) \in 1 .. Len(q)
    BY <1>1
  <2>2. p[Len(p)] = q[Len(p)]
    BY <1>2, <2>1
  <2> QED BY <2>1, <2>2 DEF StageRoot
<1>4. ~(Len(q) < Len(p))
  <2> SUFFICES ASSUME Len(q) < Len(p)
               PROVE  FALSE
    OBVIOUS
  <2>1. Len(q) \in 1 .. Len(q) /\ Len(q) \in 1 .. Len(p)
    BY <1>1
  <2>2. p[Len(q)] = q[Len(q)]
    BY <1>2, <2>1
  <2> QED BY <2>1, <2>2 DEF StageRoot
<1>5. Len(p) = Len(q)
  BY <1>1, <1>3, <1>4
<1>6. \A i \in 1 .. Len(p) : p[i] = q[i]
  BY <1>2, <1>5
<1> QED BY <1>1, <1>5, <1>6, SeqEqual DEF Path

\* A shadow file of a path that is opened has none.
LEMMA CleanHasNoRoot ==
    ASSUME NEW f \in Path, Clean(f), NEW root, StageRoot(root)
    PROVE  ~IsPrefix(root, f)
<1> SUFFICES ASSUME IsPrefix(root, f)
             PROVE  FALSE
  OBVIOUS
<1>1. root \in Path /\ Len(root) \in Nat /\ Len(f) \in Nat /\ Len(root) >= 1
  BY DEF StageRoot, Path
<1>2. Len(root) <= Len(f) /\ \A i \in 1 .. Len(root) : root[i] = f[i]
  BY <1>1, PrefixPointwise
<1>3. Len(root) \in 1 .. Len(root) /\ Len(root) \in 1 .. Len(f)
  BY <1>1, <1>2
<1> QED BY <1>2, <1>3 DEF StageRoot, Clean

\* The place that a rule's tree is moved aside to is one.
LEMMA StageIsRoot ==
    ASSUME SceneType, NEW r \in Table, NEW n \in 1 .. Len(StageNames)
    PROVE  StageRoot(DiscardCleanupRoot(r, n))
<1>1. PICK root, store : root = DiscardCleanupRoot(r, n) /\ store = NormalizePath(r.store)
  OBVIOUS
<1>2. /\ root \in Path /\ Len(root) = Len(store) + 1
      /\ root[Len(store) + 1] \in ToSet(StageNames)
      /\ \A i \in 1 .. Len(store) : root[i] = store[i]
  BY <1>1, RootFacts
<1>3. store \in Path /\ Clean(store) /\ Len(store) \in Nat
  BY <1>1, TableFacts DEF Path
<1>4. Len(root) >= 1 /\ root[Len(root)] \in ToSet(StageNames)
  BY <1>2, <1>3
<1>5. ASSUME NEW j \in 1 .. Len(root), j < Len(root)
      PROVE  root[j] \notin ToSet(StageNames)
  <2>1. j \in 1 .. Len(store)
    BY <1>2, <1>3, <1>5
  <2> QED BY <1>2, <1>3, <2>1 DEF Clean
<1> QED BY <1>1, <1>2, <1>4, <1>5 DEF StageRoot

\* The property says no more.
LEMMA StagedTreeIsRoot ==
    ASSUME NEW f \in Path, NEW root, StagedTree(f, root)
    PROVE  StageRoot(root) /\ IsPrefix(root, f)
<1>1. Len(f) \in Nat /\ DOMAIN f = 1 .. Len(f) /\ \A k \in 1 .. Len(f) : f[k] \in Names
  BY LenProperties, ElementOfSeq DEF Path
<1>2. PICK i \in 1 .. Len(f) :
          /\ root = SubSeq(f, 1, i) /\ f[i] \in ToSet(StageNames)
          /\ \A j \in 1 .. (i - 1) : f[j] \notin ToSet(StageNames)
  BY <1>1 DEF StagedTree
<1>3. root \in Path /\ Len(root) = i /\ \A j \in 1 .. i : root[j] = f[j]
  <2>1. \A k \in 1 .. i : f[k] \in Names
    BY <1>1
  <2>2. 1 \in Int /\ i \in Int /\ 1 <= i
    OBVIOUS
  <2>3. /\ SubSeq(f, 1, i) \in Seq(Names)
        /\ Len(SubSeq(f, 1, i)) = IF 1 <= i THEN i - 1 + 1 ELSE 0
        /\ \A j \in 1 .. i - 1 + 1 : SubSeq(f, 1, i)[j] = f[1 + j - 1]
    BY <2>1, <2>2, SubSeqProperties
  <2> QED BY <1>2, <2>2, <2>3 DEF Path
<1>4. IsPrefix(root, f)
  BY <1>1, <1>3, PrefixPointwise
<1>5. ASSUME NEW j \in 1 .. Len(root), j < Len(root)
      PROVE  root[j] \notin ToSet(StageNames)
  <2>1. j \in 1 .. (i - 1) /\ j \in 1 .. i
    BY <1>3, <1>5
  <2> QED BY <1>2, <1>3, <2>1
<1>6. Len(root) >= 1 /\ root[Len(root)] \in ToSet(StageNames)
  <2>1. i >= 1 /\ i \in 1 .. i
    OBVIOUS
  <2> QED BY <1>2, <1>3, <2>1
<1> QED BY <1>3, <1>4, <1>5, <1>6 DEF StageRoot

\* What the queue knows as not removed it forgets only when it marks it as removed.
LEMMA KnownStays ==
    ASSUME TypeInv, [Next]_vars, NEW root, Known(root)
    PROVE  Known(root)' \/ (MarkDone /\ root = Row.path)
<1> USE DEF TypeInv
<1>1. CASE root \in orphans
  BY <1>1, Writers DEF Known
<1>2. ASSUME NEW i \in 1 .. Len(cleanup), cleanup[i].path = root, cleanup[i].status # "done"
      PROVE  Known(root)' \/ (MarkDone /\ root = Row.path)
  <2>0. Len(cleanup) \in Nat
    BY DEF RowsType
  <2>1. CASE cleanup' = cleanup
    BY <1>2, <2>1 DEF Known
  <2>2. CASE /\ DeleteRule
             /\ \A j \in 1 .. Len(cleanup) : cleanup[j].id # op.id =>
                   \E k \in 1 .. Len(cleanup') : cleanup'[k] = cleanup[j]
    <3>1. CASE cleanup[i].id # op.id
      BY <1>2, <2>2, <3>1 DEF Known
    <3>2. CASE cleanup[i].id = op.id
      <4>1. i \in DOMAIN cleanup
        BY LenProperties DEF RowsType
      <4>2. cleanup[i] \in ToSet(cleanup)
        BY <4>1 DEF ToSet
      <4>3. root \in orphans'
        BY <1>2, <2>2, <3>2, <4>2 DEF DeleteRule
      <4> QED BY <4>3 DEF Known
    <3> QED BY <3>1, <3>2
  <2>3. CASE /\ Len(cleanup') = Len(cleanup) + 1
             /\ \A j \in 1 .. Len(cleanup) : cleanup'[j] = cleanup[j]
    <3>1. i \in 1 .. Len(cleanup') /\ cleanup'[i] = cleanup[i]
      BY <2>0, <2>3
    <3> QED BY <1>2, <3>1 DEF Known
  <2>4. CASE StatusWritten("failed") \/ StatusWritten("running")
    BY <1>2, <2>4 DEF StatusWritten, Known
  <2>5. CASE MarkDone /\ StatusWritten("done")
    <3>1. CASE i = op.next
      BY <1>2, <2>5, <3>1 DEF Row
    <3>2. CASE i # op.next
      BY <1>2, <2>5, <3>2 DEF StatusWritten, Known
    <3> QED BY <3>1, <3>2
  <2> QED BY <2>1, <2>2, <2>3, <2>4, <2>5, QueueStep
<1> QED BY <1>1, <1>2 DEF Known

\* The tree in hand is queued, or known as lost, unless it is moved back.
LEMMA TreeKept ==
    ASSUME TypeInv, StageInv, [Next]_vars, NEW tree, tree = op.tree, tree # <<>>
    PROVE  \/ op'.tree = tree
           \/ Known(tree)'
           \/ FailForget /\ \E rule \in Rule(op.id) : disk' = Moved(tree, DriveRoot(rule))
<1> USE DEF TypeInv
<1>1. CASE op.tree \in orphans
  BY <1>1, Writers DEF Known
<1>2. CASE op' = op
  BY <1>2
<1>3. CASE Crash
  BY <1>3 DEF Crash, Known
<1>4. CASE Forget
  BY <1>4 DEF Forget, OpType
<1>5. CASE FailForget
  BY <1>5 DEF FailForget, Known
<1>6. CASE FailEnqueue
  BY <1>6 DEF FailEnqueue, Known
<1>7. CASE Enqueue
  <2>1. /\ cleanup' = Append(cleanup, [id |-> op.id, path |-> op.tree, status |-> "pending"])
        /\ cleanup \in Seq(Rows) /\ Len(cleanup) \in Nat
    BY <1>7 DEF Enqueue, RowsType
  <2>2. ~DeleteRule /\ ~RefuseRow /\ ~FailRemoveTree /\ ~BeginRow /\ ~MarkDone
    BY <1>7 DEF Enqueue, DeleteRule, RefuseRow, FailRemoveTree, BeginRow, MarkDone
  <2>3. cleanup' # cleanup
    BY <2>1, AppendProperties
  <2>4. /\ Len(cleanup') = Len(cleanup) + 1
        /\ cleanup'[Len(cleanup) + 1] = [id |-> op.id, path |-> op.tree, status |-> "pending"]
    BY <2>2, <2>3, QueueStep
  <2>5. Len(cleanup) + 1 \in 1 .. Len(cleanup')
    BY <2>1, <2>4
  <2>6. \E i \in 1 .. Len(cleanup') : cleanup'[i].path = tree /\ cleanup'[i].status # "done"
    BY <2>4, <2>5
  <2> QED BY <2>6 DEF Known
<1>8. CASE op.tree \notin orphans /\ op.pc \in {"forget", "enqueue"}
  <2>1. CASE RuleCommand
    <3>1. \A offer \in scene.offers : ~AddRule(offer)
      BY <1>8 DEF AddRule
    <3>2. \A rule \in rules, enabled \in BOOLEAN : ~SetRuleEnabled(rule, enabled)
      BY <1>8 DEF SetRuleEnabled
    <3>3. \A rule \in rules : ~CheckDelete(rule)
      BY <1>8 DEF CheckDelete
    <3>4. ~DeleteRule /\ ~FailDelete
      BY <1>8 DEF DeleteRule, FailDelete
    <3> QED BY <2>1, <3>1, <3>2, <3>3, <3>4 DEF RuleCommand
  <2>2. CASE DriverRequest
    BY <1>2, <2>2 DEF DriverRequest, Request, Copy, FailRequest, Record
  <2>3. CASE Operation
    <3>1. \A rule \in rules, action \in {"commit", "discard"} : ~Begin(rule, action)
      BY <1>8 DEF Begin
    <3>2. ~FailApply /\ ~RemoveShadow /\ ~Isolate /\ ~Resume
      BY <1>8 DEF FailApply, RemoveShadow, Isolate, Resume
    <3> QED BY <1>4, <1>5, <1>6, <1>7, <2>3, <3>1, <3>2 DEF Operation
  <2>4. ~Start /\ ~ProcessCleanupQueue
    BY <1>8 DEF Start, ProcessCleanupQueue, SkipRow, RefuseRow, BeginRow, RemoveTree,
                FailRemoveTree, MarkDone, FinishStart
  <2>5. CASE UNCHANGED vars \/ UsedUp \/ \E source \in Removable : ToggleSource(source)
    BY <1>2, <2>5 DEF vars, UsedUp, ToggleSource
  <2> QED BY <1>3, <2>1, <2>2, <2>3, <2>4, <2>5 DEF Next
<1> QED BY <1>1, <1>8 DEF StageInv

\* A rename of a directory makes no names.
LEMMA MovedNames ==
    ASSUME DiskType, NEW from \in Path, NEW to \in Path, NEW f \in Moved(from, to),
           NEW i \in 1 .. Len(f)
    PROVE  \/ \E j \in 1 .. Len(to) : f[i] = to[j]
           \/ \E g \in disk : \E j \in 1 .. Len(g) : f[i] = g[j]
<1>1. CASE f \in disk
  BY <1>1
<1>2. ASSUME NEW g \in Tree(from), NEW rest,
             rest = SubSeq(g, Len(from) + 1, Len(g)), f = to \o rest
      PROVE  \/ \E j \in 1 .. Len(to) : f[i] = to[j]
             \/ \E h \in disk : \E j \in 1 .. Len(h) : f[i] = h[j]
  <2>1. g \in disk /\ g \in Path /\ IsPrefix(from, g)
    BY DEF Tree, DiskType
  <2>2. \A r : r = SubSeq(g, Len(from) + 1, Len(g)) =>
            /\ r \in Path /\ Len(g) = Len(from) + Len(r)
            /\ \A k \in 1 .. Len(r) : r[k] = g[Len(from) + k]
            /\ g = from \o r
    BY <2>1, PathRest
  <2>3. /\ rest \in Path /\ Len(g) = Len(from) + Len(rest)
        /\ \A k \in 1 .. Len(rest) : rest[k] = g[Len(from) + k]
    BY <1>2, <2>2
  <2>4. /\ Len(f) = Len(to) + Len(rest)
        /\ \A k \in 1 .. Len(to) : f[k] = to[k]
        /\ \A k \in 1 .. Len(rest) : f[Len(to) + k] = rest[k]
    BY <1>2, <2>3, PathConcat
  <2>5. Len(to) \in Nat /\ Len(rest) \in Nat /\ Len(from) \in Nat
    BY <2>3 DEF Path
  <2>6. CASE i <= Len(to)
    BY <2>4, <2>5, <2>6
  <2>7. CASE ~(i <= Len(to))
    <3>1. PICK k \in 1 .. Len(rest) : i = Len(to) + k
      <4>1. i - Len(to) \in 1 .. Len(rest) /\ i = Len(to) + (i - Len(to))
        BY <2>4, <2>5, <2>7
      <4> QED BY <4>1
    <3>2. f[i] = g[Len(from) + k] /\ Len(from) + k \in 1 .. Len(g)
      BY <2>3, <2>4, <2>5, <3>1
    <3> QED BY <2>1, <3>2
  <2> QED BY <2>6, <2>7
<1> QED BY <1>1, <1>2 DEF Moved, Tree

\* The names of trees that were not moved aside yet are nowhere.
LEMMA FreshStep ==
    ASSUME TypeInv, FreshInv, [Next]_vars
    PROVE  FreshInv'
<1> USE DEF TypeInv
<1>1. CASE disk' \subseteq disk /\ staged' = staged
  BY <1>1 DEF FreshInv
<1>2. CASE Copy
  <2>1. /\ disk' = disk \union {ShadowOf(req.rule, req)} /\ staged' = staged
        /\ req.rule \in Table /\ req.path \in WrittenPaths
    BY <1>2 DEF Copy, ReqType, queueing
  <2>2. Clean(ShadowOf(req.rule, req))
    BY <2>1, ShadowFacts
  <2>3. \A m \in 1 .. Len(StageNames) : StageNames[m] \in ToSet(StageNames)
    BY LenProperties, PathsAssumption DEF ToSet, Path
  <2>4. \A i \in 1 .. Len(ShadowOf(req.rule, req)) : \A m \in 1 .. Len(StageNames) :
            ShadowOf(req.rule, req)[i] # StageNames[m]
    BY <2>2, <2>3 DEF Clean
  <2> QED BY <2>1, <2>4 DEF FreshInv
<1>3. ASSUME NEW from \in Path, NEW to \in Path, disk' = Moved(from, to),
             staged <= staged', staged' \in Nat,
             \A j \in 1 .. Len(to) : \A m \in 1 .. Len(StageNames) : m > staged' => to[j] # StageNames[m]
      PROVE  FreshInv'
  <2> SUFFICES ASSUME NEW f \in disk', NEW i \in 1 .. Len(f), NEW m \in 1 .. Len(StageNames),
                      m > staged', f[i] = StageNames[m]
               PROVE  FALSE
    BY DEF FreshInv
  <2>1. m > staged
    BY <1>3, PathsAssumption DEF SceneType, Path
  <2>2. \/ \E j \in 1 .. Len(to) : f[i] = to[j]
        \/ \E g \in disk : \E j \in 1 .. Len(g) : f[i] = g[j]
    BY <1>3, MovedNames
  <2> QED BY <1>3, <2>1, <2>2 DEF FreshInv
<1>4. CASE Isolate
  <2>1. PICK r \in Rule(op.id) :
            \/ disk' = disk /\ staged' = staged
            \/ /\ staged < scene.trees /\ staged' = staged + 1
               /\ disk' = Moved(DriveRoot(r), DiscardCleanupRoot(r, staged + 1))
    BY <1>4 DEF Isolate
  <2>2. r \in Table
    BY DEF Rule, RulesType
  <2>3. CASE /\ staged < scene.trees /\ staged' = staged + 1
             /\ disk' = Moved(DriveRoot(r), DiscardCleanupRoot(r, staged + 1))
    <3>1. PICK n : n = staged + 1
      OBVIOUS
    <3>2. PICK to, store : to = DiscardCleanupRoot(r, n) /\ store = NormalizePath(r.store)
      OBVIOUS
    <3>3. n \in 1 .. Len(StageNames) /\ staged' = n /\ staged <= n /\ n \in Nat
      BY <2>3, <3>1, NextStage DEF SceneType
    <3>4. /\ to \in Path /\ Len(to) = Len(store) + 1 /\ to[Len(store) + 1] = StageNames[n]
          /\ \A i \in 1 .. Len(store) : to[i] = store[i]
          /\ \A m \in 1 .. Len(StageNames) : StageNames[m] \in ToSet(StageNames)
      BY <2>2, <3>2, <3>3, RootFacts
    <3>5. store \in Path /\ Clean(store) /\ Len(store) \in Nat
      BY <2>2, <3>2, TableFacts DEF Path
    <3>6. ASSUME NEW j \in 1 .. Len(to), NEW m \in 1 .. Len(StageNames), m > n
          PROVE  to[j] # StageNames[m]
      <4>1. CASE j = Len(store) + 1
        <5>1. n \in DOMAIN StageNames /\ m \in DOMAIN StageNames /\ n # m
          BY <3>3, <3>6, LenProperties, PathsAssumption DEF Path
        <5>2. StageNames[n] # StageNames[m]
          BY <5>1, StageNamesAssumption DEF IsInjective
        <5> QED BY <3>4, <4>1, <5>2
      <4>2. CASE j # Len(store) + 1
        <5>1. j \in 1 .. Len(store)
          BY <3>4, <3>5, <4>2
        <5> QED BY <3>4, <3>5, <5>1 DEF Clean
      <4> QED BY <4>1, <4>2
    <3>7. DriveRoot(r) \in Path /\ disk' = Moved(DriveRoot(r), to)
      BY <2>2, <2>3, <3>1, <3>2, RootFacts
    <3> QED BY <1>3, <3>3, <3>4, <3>6, <3>7
  <2> QED BY <1>1, <2>1, <2>3
<1>5. CASE FailForget
  <2>1. PICK r \in Rule(op.id) : disk' = disk \/ disk' = Moved(op.tree, DriveRoot(r))
    BY <1>5 DEF FailForget
  <2>2. r \in Table /\ op.tree \in Path /\ staged' = staged /\ staged \in Nat
    BY <1>5 DEF Rule, RulesType, OpType, FailForget, SceneType
  <2>3. DriveRoot(r) \in Path /\ Clean(DriveRoot(r))
    BY <2>2, RootFacts
  <2>4. \A m \in 1 .. Len(StageNames) : StageNames[m] \in ToSet(StageNames)
    BY LenProperties, PathsAssumption DEF ToSet, Path
  <2>5. \A j \in 1 .. Len(DriveRoot(r)) : \A m \in 1 .. Len(StageNames) :
            m > staged' => DriveRoot(r)[j] # StageNames[m]
    BY <2>3, <2>4 DEF Clean
  <2>6. disk' = Moved(op.tree, DriveRoot(r)) => FreshInv'
    BY <1>3, <2>2, <2>3, <2>5
  <2> QED BY <1>1, <2>1, <2>2, <2>6
<1>6. CASE RemoveShadow \/ RemoveTree \/ FailRemoveTree
  <2>1. disk' \subseteq disk /\ staged' = staged
    BY <1>6 DEF RemoveShadow, RemoveTree, FailRemoveTree, Tree, queueing
  <2> QED BY <1>1, <2>1
<1> QED BY <1>1, <1>2, <1>4, <1>5, <1>6, Writers

\* A start marks a row only after it has removed its tree.
LEMMA MarkStep ==
    ASSUME TypeInv, MarkInv, [Next]_vars
    PROVE  MarkInv'
<1> USE DEF TypeInv
<1>1. CASE op' = op /\ cleanup' = cleanup /\ op.pc = "mark"
  <2>1. req.pc = "idle"
    BY <1>1 DEF ReqType, Starting
  <2>2. ~Copy
    BY <2>1 DEF Copy
  <2>3. ~RemoveShadow /\ ~Isolate /\ ~FailForget /\ ~RemoveTree /\ ~FailRemoveTree
    BY <1>1 DEF RemoveShadow, Isolate, FailForget, RemoveTree, FailRemoveTree
  <2>4. disk' = disk
    BY <2>2, <2>3, Writers
  <2> QED BY <1>1, <2>4 DEF MarkInv, Row
<1>2. CASE RemoveTree
  <2>1. /\ disk' = disk \ Tree(Row.path) /\ cleanup' = cleanup /\ op'.next = op.next
    BY <1>2 DEF RemoveTree, tables, OpType
  <2> QED BY <2>1 DEF MarkInv, Row, Tree
<1>3. CASE op'.pc # "mark"
  BY <1>3 DEF MarkInv
<1>4. Start \/ SkipRow \/ RefuseRow \/ FailRemoveTree \/ BeginRow \/ MarkDone => op'.pc # "mark"
  <2>1. NextRow.pc = "cleanup" /\ [NextRow EXCEPT !.lost = TRUE].pc = "cleanup"
    BY DEF NextRow, OpType
  <2>2. SkipRow \/ RefuseRow \/ FailRemoveTree \/ MarkDone => op'.pc = "cleanup"
    BY <2>1 DEF SkipRow, RefuseRow, FailRemoveTree, MarkDone, SetFailed
  <2> QED BY <2>2 DEF Start, BeginRow, Idle, OpType
<1> QED BY <1>1, <1>2, <1>3, <1>4, PlaceStep

\* No file is where a tree is moved aside to.
LEMMA StageIsEmpty ==
    ASSUME SceneType, DiskType, FreshInv, NEW r \in Table, NEW n \in 1 .. Len(StageNames),
           n > staged, NEW f \in disk
    PROVE  ~IsPrefix(DiscardCleanupRoot(r, n), f)
<1> SUFFICES ASSUME IsPrefix(DiscardCleanupRoot(r, n), f)
             PROVE  FALSE
  OBVIOUS
<1>1. PICK to, k : to = DiscardCleanupRoot(r, n) /\ k = Len(NormalizePath(r.store)) + 1
  OBVIOUS
<1>2. to \in Path /\ Len(to) = k /\ to[k] = StageNames[n] /\ f \in Path /\ IsPrefix(to, f)
  BY <1>1, RootFacts DEF DiskType
<1>3. k \in 1 .. k /\ Len(f) \in Nat
  BY <1>1, <1>2, TableFacts DEF Path
<1>4. k \in 1 .. Len(f) /\ f[k] = to[k]
  BY <1>2, <1>3, PrefixPointwise
<1> QED BY <1>2, <1>4 DEF FreshInv

\* What is moved back was there before, and its trees are known.
LEMMA BackStep ==
    ASSUME TypeInv, StageInv, KnownInv, BackInv, FreshInv, [Next]_vars
    PROVE  BackInv'
<1> USE DEF TypeInv
<1>1. SUFFICES ASSUME NEW tree, tree = op'.tree, op'.pc = "forget", tree # <<>>,
                      NEW f \in disk', NEW r \in rules', IsPrefix(tree, f), r.id = op'.id,
                      NEW root \in Path, StageRoot(root),
                      IsPrefix(root, DriveRoot(r) \o SubSeq(f, Len(tree) + 1, Len(f)))
               PROVE  Known(root)'
  BY DEF BackInv
<1>2. CASE op' = op
  <2>1. /\ ~Copy \/ (disk' = disk \union {ShadowOf(req.rule, req)} /\ req.rule \in Table
                     /\ req.path \in WrittenPaths)
        /\ ~RemoveShadow /\ ~Isolate /\ ~FailForget /\ ~RemoveTree /\ ~FailRemoveTree
        /\ ~DeleteRule /\ ~MarkDone /\ \A offer \in scene.offers : ~AddRule(offer)
    BY <1>1, <1>2 DEF Copy, ReqType, RemoveShadow, Isolate, FailForget, RemoveTree, FailRemoveTree,
                      DeleteRule, MarkDone, AddRule, OpType
  <2>2. PICK old \in rules : Twins(r, old)
    BY <2>1, RulesStep
  <2>3. DriveRoot(old) = DriveRoot(r) /\ old.id = op.id
    BY <1>1, <1>2, <2>2 DEF Twins, DriveRoot
  <2>4. f \in disk
    <3>1. CASE Copy
      <4>1. Clean(ShadowOf(req.rule, req)) /\ ShadowOf(req.rule, req) \in Path
        BY <2>1, <3>1, ShadowFacts
      <4>2. StageOf(op.id, tree)
        BY <1>1, <1>2 DEF StageInv
      <4>3. PICK q \in rules, n \in 1 .. Len(StageNames) : tree = DiscardCleanupRoot(q, n)
        BY <4>2 DEF StageOf
      <4>4. q \in Table
        BY DEF RulesType
      <4>5. ~IsPrefix(tree, ShadowOf(req.rule, req))
        BY <4>1, <4>3, <4>4, ShadowsAreNotStaged
      <4> QED BY <1>1, <2>1, <3>1, <4>5
    <3>2. CASE ~Copy
      BY <2>1, <3>2, Writers
    <3> QED BY <3>1, <3>2
  <2>5. Known(root)
    BY <1>1, <1>2, <2>3, <2>4 DEF BackInv
  <2> QED BY <2>1, <2>5, KnownStays
<1>3. CASE Isolate
  <2>1. /\ op.pc = "apply" /\ rules' = rules /\ ~MarkDone
    BY <1>3 DEF Isolate, tables, MarkDone
  <2>2. op.tree = <<>>
    BY <2>1 DEF StageInv
  <2>3. PICK q \in Rule(op.id), n \in {staged + 1} :
            /\ staged < scene.trees
            /\ disk' = Moved(DriveRoot(q), DiscardCleanupRoot(q, n))
            /\ op' = [op EXCEPT !.pc = "forget", !.tree = DiscardCleanupRoot(q, n)]
    <3>1. PICK q \in Rule(op.id) :
              \/ op' = [op EXCEPT !.pc = "forget"]
              \/ /\ staged < scene.trees
                 /\ disk' = Moved(DriveRoot(q), DiscardCleanupRoot(q, staged + 1))
                 /\ op' = [op EXCEPT !.pc = "forget", !.tree = DiscardCleanupRoot(q, staged + 1)]
      BY <1>3 DEF Isolate
    <3>2. op' # [op EXCEPT !.pc = "forget"]
      BY <1>1, <2>2 DEF OpType
    <3> QED BY <3>1, <3>2
  <2>4. /\ n \in 1 .. Len(StageNames) /\ n > staged
        /\ tree = DiscardCleanupRoot(q, n) /\ op'.id = op.id
    BY <1>1, <2>3, NextStage DEF OpType, SceneType
  <2>5. q = r /\ r \in Table /\ r \in rules
    BY <1>1, <2>1, <2>3, <2>4 DEF Rule, RulesType
  <2>6. tree \in Path /\ DriveRoot(r) \in Path
    BY <2>4, <2>5, RootFacts
  <2>7. f \notin disk
    BY <1>1, <2>4, <2>5, StageIsEmpty
  <2>8. PICK g \in Tree(DriveRoot(r)) : f = tree \o SubSeq(g, Len(DriveRoot(r)) + 1, Len(g))
    BY <2>3, <2>4, <2>5, <2>7 DEF Moved
  <2>9. PICK rest : rest = SubSeq(g, Len(DriveRoot(r)) + 1, Len(g))
    OBVIOUS
  <2>10. g \in disk /\ g \in Path /\ IsPrefix(DriveRoot(r), g)
    BY DEF Tree, DiskType
  <2>11. rest \in Path /\ g = DriveRoot(r) \o rest
    <3>1. \A t : t = SubSeq(g, Len(DriveRoot(r)) + 1, Len(g)) =>
              /\ t \in Path /\ Len(g) = Len(DriveRoot(r)) + Len(t)
              /\ \A i \in 1 .. Len(t) : t[i] = g[Len(DriveRoot(r)) + i]
              /\ g = DriveRoot(r) \o t
      BY <2>6, <2>10, PathRest
    <3> QED BY <2>9, <3>1
  <2>12. SubSeq(f, Len(tree) + 1, Len(f)) = rest
    BY <2>6, <2>8, <2>9, <2>11, RestOfConcat
  <2>13. IsPrefix(root, g)
    BY <1>1, <2>11, <2>12
  <2>14. root # <<>>
    BY <1>1 DEF StageRoot
  <2>15. Known(root)
    BY <1>1, <2>2, <2>10, <2>13, <2>14 DEF KnownInv
  <2> QED BY <2>1, <2>15, KnownStays
<1>4. CASE Forget \/ Crash
  BY <1>1, <1>4 DEF Forget, Crash, OpType
<1> QED BY <1>1, <1>2, <1>3, <1>4, TreeWriters

\* A tree moved aside is in hand or known.
LEMMA KnownStep ==
    ASSUME TypeInv, StageInv, StagedInv, [Next]_vars
    PROVE  KnownInv'
<1> USE DEF TypeInv
<1>1. SUFFICES ASSUME NEW f \in disk', NEW root \in Path, StageRoot(root), IsPrefix(root, f)
               PROVE  Known(root)' \/ root = op'.tree
  BY DEF KnownInv
<1>2. root # <<>>
  BY <1>1 DEF StageRoot
<1>3. ASSUME Known(root), MarkDone => f \in disk
      PROVE  Known(root)'
  <2>1. MarkDone => root # Row.path
    BY <1>1, <1>3 DEF StagedInv, MarkInv, MarkDone
  <2> QED BY <1>3, <2>1, KnownStays
<1>4. CASE /\ FailForget /\ op.tree # <<>>
         /\ \E rule \in Rule(op.id) : disk' = Moved(op.tree, DriveRoot(rule))
  <2>1. PICK r \in Rule(op.id) : disk' = Moved(op.tree, DriveRoot(r)) /\ op.tree # <<>> /\ op.pc = "forget"
    BY <1>4 DEF FailForget
  <2>2. ~MarkDone
    BY <2>1 DEF MarkDone
  <2>3. CASE f \in disk /\ ~IsPrefix(op.tree, f)
    BY <1>1, <1>3, <2>2, <2>3 DEF StagedInv, KnownInv
  <2>4. ASSUME NEW g \in Tree(op.tree), f = DriveRoot(r) \o SubSeq(g, Len(op.tree) + 1, Len(g))
        PROVE  Known(root)
    <3>1. g \in disk /\ IsPrefix(op.tree, g) /\ r \in rules /\ r.id = op.id
      BY DEF Tree, Rule
    <3> QED BY <1>1, <2>1, <2>4, <3>1 DEF StagedInv, BackInv
  <2>5. \/ f \in disk /\ ~IsPrefix(op.tree, f)
        \/ \E g \in Tree(op.tree) : f = DriveRoot(r) \o SubSeq(g, Len(op.tree) + 1, Len(g))
    BY <2>1 DEF Moved, Tree
  <2> QED BY <1>3, <2>2, <2>3, <2>4, <2>5
<1>5. CASE /\ f \in disk
           /\ ~(/\ FailForget /\ op.tree # <<>>
                /\ \E rule \in Rule(op.id) : disk' = Moved(op.tree, DriveRoot(rule)))
  <2>1. Known(root) \/ root = op.tree
    BY <1>1, <1>5 DEF StagedInv, KnownInv
  <2>2. root = op.tree => op'.tree = root \/ Known(root)'
    BY <1>2, <1>5, TreeKept
  <2> QED BY <1>3, <1>5, <2>1, <2>2
<1>6. CASE FailForget /\ f \notin disk
  BY <1>1, <1>4, <1>6 DEF FailForget
<1>7. CASE Copy /\ f \notin disk
  <2>1. /\ f = ShadowOf(req.rule, req) /\ req.rule \in Table /\ req.path \in WrittenPaths
    BY <1>7 DEF Copy, ReqType
  <2>2. Clean(f) /\ f \in Path
    BY <2>1, ShadowFacts
  <2> QED BY <1>1, <2>2, CleanHasNoRoot
<1>8. CASE Isolate /\ f \notin disk
  <2>1. PICK q \in Rule(op.id), n \in {staged + 1} :
            /\ staged < scene.trees
            /\ disk' = Moved(DriveRoot(q), DiscardCleanupRoot(q, n))
            /\ op' = [op EXCEPT !.pc = "forget", !.tree = DiscardCleanupRoot(q, n)]
    BY <1>8 DEF Isolate
  <2>2. q \in Table /\ n \in 1 .. Len(StageNames)
    BY <2>1, NextStage DEF Rule, RulesType
  <2>3. PICK to : to = DiscardCleanupRoot(q, n)
    OBVIOUS
  <2>4. to \in Path /\ StageRoot(to) /\ DriveRoot(q) \in Path /\ op'.tree = to
    BY <2>1, <2>2, <2>3, RootFacts, StageIsRoot DEF OpType
  <2>5. PICK rest \in Path : f = to \o rest
    <3>1. f \in Moved(DriveRoot(q), to) /\ f \notin disk
      BY <1>8, <2>1, <2>3
    <3>2. PICK g \in Tree(DriveRoot(q)) : LET rest == SubSeq(g, Len(DriveRoot(q)) + 1, Len(g)) IN
              rest \in Path /\ f = to \o rest
      BY <2>4, <3>1, MovedFacts
    <3> QED BY <3>2
  <2>6. f \in Path /\ IsPrefix(to, f)
    BY <2>4, <2>5, PathConcat
  <2>7. root = to
    BY <1>1, <2>4, <2>6, OneStageRoot
  <2> QED BY <2>4, <2>7
<1>9. RemoveShadow \/ RemoveTree \/ FailRemoveTree => f \in disk
  BY <1>1 DEF RemoveShadow, RemoveTree, FailRemoveTree, Tree
<1> QED BY <1>1, <1>4, <1>5, <1>6, <1>7, <1>8, <1>9, Writers

\* Whatever fails and wherever the service ends, a tree that a discard moved aside is in
\* hand or in the queue as not removed until it is gone (Discard and ProcessCleanupQueue,
\* overlay_operations.cpp:1037, 1081), for every set of rules, with the stores of one
\* rule below those of another or not.
THEOREM StagedTreesAreQueued == Spec => []StagedIsQueued
<1> DEFINE Inv == TypeInv /\ StageInv /\ StagedInv
<1>1. Init => Inv
  <2> SUFFICES ASSUME Init
               PROVE  Inv
    OBVIOUS
  <2>1. disk = {} /\ op = Idle /\ cleanup = <<>>
    BY DEF Init
  <2> QED BY <2>1, TypeInit DEF Idle, StageInv, StagedInv, KnownInv, BackInv, FreshInv, MarkInv
<1>2. Inv /\ [Next]_vars => Inv'
  BY TypeStep, StageStep, KnownStep, BackStep, FreshStep, MarkStep DEF StagedInv
<1>3. Inv => StagedIsQueued
  <2> SUFFICES ASSUME Inv, NEW f \in disk, NEW root \in Prefixes(f), StagedTree(f, root)
               PROVE  \/ root \in orphans \/ root = op.tree
                      \/ \E row \in ToSet(cleanup) : row.path = root /\ row.status # "done"
    BY DEF StagedIsQueued
  <2>1. f \in Path
    BY DEF TypeInv, DiskType
  <2>2. StageRoot(root) /\ IsPrefix(root, f)
    BY <2>1, StagedTreeIsRoot
  <2>3. Known(root) \/ root = op.tree
    BY <2>2 DEF StagedInv, KnownInv, StageRoot
  <2>4. \A i \in 1 .. Len(cleanup) : cleanup[i] \in ToSet(cleanup)
    BY LenProperties DEF ToSet, TypeInv, RowsType
  <2> QED BY <2>3, <2>4 DEF Known
<1> QED BY <1>1, <1>2, <1>3, PTL DEF Spec
=============================================================================

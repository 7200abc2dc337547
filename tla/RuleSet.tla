------------------------------ MODULE RuleSet ------------------------------
(***************************************************************************)
(* Paths and rules as the service (path_overlay_common.cpp) and the driver  *)
(* (Driver.c) compute with them: which rules may stand together, where the  *)
(* shadow of a path is, and which rule the driver finds for a path.         *)
(*                                                                          *)
(* A path is the sequence of its names, the drive first.  Case, slashes and *)
(* the difference between "C:" and its NT device are gone with that, empty  *)
(* and UNC paths are left out, and so are the lengths of paths.             *)
(***************************************************************************)
EXTENDS Naturals, Sequences, SequencesExt, FiniteSets

CONSTANTS
    ShortNames,  \* the 8.3 name of each name that has one
    PlainFiles,  \* paths of plain files that somebody names as a store
    Links,       \* reparse points
    BoxesRoot    \* where the stores are that the service chooses

\* No name is the 8.3 name of another, and no two names share one.
ASSUME ShortNamesAssumption ==
    /\ \A n \in DOMAIN ShortNames : ShortNames[n] \notin DOMAIN ShortNames
    /\ \A n, m \in DOMAIN ShortNames : ShortNames[n] = ShortNames[m] => n = m

-----------------------------------------------------------------------------
\* GetLongPathName and GetShortPathName of one name.
LongName(n) ==
    IF \E m \in DOMAIN ShortNames : ShortNames[m] = n
    THEN CHOOSE m \in DOMAIN ShortNames : ShortNames[m] = n
    ELSE n
ShortName(n) == IF n \in DOMAIN ShortNames THEN ShortNames[n] ELSE n

NormalizePath(p) == [i \in DOMAIN p |-> LongName(p[i])]
GetShortDosPath(p) == [i \in DOMAIN p |-> ShortName(p[i])]

SameOrChildPath(parent, child) == IsPrefix(parent, child)
Overlap(p, q) == SameOrChildPath(p, q) \/ SameOrChildPath(q, p)

DefaultStoreRootForRule(id) == Append(BoxesRoot, id)

(***************************************************************************)
(* A rule is a record with its id, source and store.  `dirs' are the        *)
(* directories that exist.                                                  *)
(***************************************************************************)
ValidateOverlayRule(rule, dirs) ==
    LET source == NormalizePath(rule.source)
        store  == NormalizePath(rule.store)
    IN  /\ Len(source) > 1
        /\ ~Overlap(source, store)
        /\ source \in dirs \ Links
        /\ store \notin PlainFiles

\* Stores are not compared with each other.
CanStandTogether(rule, other) ==
    LET source == NormalizePath(rule.source)
        store  == NormalizePath(rule.store)
        otherSource == NormalizePath(other.source)
        otherStore  == NormalizePath(other.store)
    IN  /\ ~Overlap(source, otherSource)
        /\ ~Overlap(source, otherStore)
        /\ ~Overlap(otherSource, store)

\* Variant: the candidate's store is not compared with the other sources.
ValidateSourcesOnly(existing, candidate, dirs) ==
    /\ ValidateOverlayRule(candidate, dirs)
    /\ \A rule \in existing :
          rule.id # candidate.id => ~Overlap(candidate.source, rule.source)

ValidateOverlayRuleSet(existing, candidate, dirs) ==
    /\ ValidateOverlayRule(candidate, dirs)
    /\ \A rule \in existing :
          rule.id # candidate.id =>
              ValidateOverlayRule(rule, dirs) /\ CanStandTogether(candidate, rule)

\* Whether a reparse point lies on the way from the source down to the path.
PassesThrough(rule, real) ==
    \E link \in Links :
        /\ IsStrictPrefix(NormalizePath(rule.source), link)
        /\ IsPrefix(link, NormalizePath(real))

DriveRoot(rule) == Append(NormalizePath(rule.store), "drive")

ValidateRealPathInRule(rule, real, dirs) ==
    /\ ValidateOverlayRule(rule, dirs)
    /\ SameOrChildPath(NormalizePath(rule.source), NormalizePath(real))

\* For paths that ValidateRealPathInRule admits.
MapRealPathToShadowPath(rule, real) == DriveRoot(rule) \o NormalizePath(real)

(***************************************************************************)
(* The driver.  Its cache is a set of entries, one per enabled rule; the    *)
(* store of an entry is the shadow of the source.                           *)
(***************************************************************************)
CacheEntry(rule) ==
    [id     |-> rule.id,
     source |-> NormalizePath(rule.source),
     alias  |-> GetShortDosPath(NormalizePath(rule.source)),
     store  |-> MapRealPathToShadowPath(rule, rule.source)]

\* Variant: the 8.3 form is used only as a whole.
MatchWholeAlias(entry, path) ==
    SameOrChildPath(entry.source, path) \/ SameOrChildPath(entry.alias, path)

\* Each name of the source may come in its long or its 8.3 form.
MatchSourcePathPrefix(entry, path) ==
    /\ Len(entry.source) <= Len(path)
    /\ \A i \in DOMAIN entry.source : path[i] \in {entry.source[i], entry.alias[i]}

\* A path that two entries match has no rule.
FindSourceRule(cache, path, entry) ==
    {e \in cache : MatchSourcePathPrefix(e, path)} = {entry}
FindStoreRule(cache, path, entry) ==
    {e \in cache : SameOrChildPath(e.store, path)} = {entry}

IsStorePathLocked(cache, path) == \E e \in cache : SameOrChildPath(e.store, path)

FindSourceRuleForPath(cache, path, entry) ==
    /\ ~IsStorePathLocked(cache, path)
    /\ FindSourceRule(cache, path, entry)

FindSourceOrStoreRuleForPath(cache, path, entry) ==
    \/ FindSourceRule(cache, path, entry)
    \/ /\ \A e \in cache : ~FindSourceRule(cache, path, e)
       /\ FindStoreRule(cache, path, entry)

\* Both keep what follows the matched part as it is.
BuildShadowPath(entry, path) ==
    entry.store \o SubSeq(path, Len(entry.source) + 1, Len(path))
BuildRealPathFromShadow(entry, shadow) ==
    entry.source \o SubSeq(shadow, Len(entry.store) + 1, Len(shadow))
=============================================================================

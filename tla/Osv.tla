-------------------------------- MODULE Osv --------------------------------
(* OSV records and the table they end in: app/vuln/osv.go, the dataset on     *)
(* disk of offline.go, and the merge of collect.go. An ecosystem is           *)
(* [family, version], an event of a range [kind, at].                         *)
EXTENDS Packages

\* Every version of the family is taken for the host's (for a mutant).
EcosystemMatchesAny(entry, host) == entry.family # ""

EcosystemMatches(entry, host) ==
  /\ entry.family # "" /\ host.family = entry.family
  /\ entry.version = host.version \/ entry.version = "" \/ host.version = ""

Zero == 0

\* What one event of a range does to the verdict on a version.
Boundary(version, affected, e) ==
  CASE e.kind = "introduced" ->
         affected \/ e.at = Zero \/ Comparator(version, e.at) >= 0
    [] e.kind = "last_affected" -> affected /\ Comparator(version, e.at) <= 0
    [] OTHER -> affected /\ Comparator(version, e.at) < 0

\* The events are walked in the order of the record; the fix named is the last.
MatchRange(r, version) ==
  LET affected[n \in 0..Len(r.events)] ==
        IF n = 0 THEN FALSE ELSE Boundary(version, affected[n - 1], r.events[n])
      fixes == {i \in DOMAIN r.events : r.events[i].kind = "fixed"}
  IN  [hit |-> affected[Len(r.events)],
       fixed |-> IF fixes = {} THEN NoVersion ELSE r.events[Max(fixes)].at]

FirstFixed(ranges) ==
  LET fixes == SelectSeq(FlattenSeq([i \in DOMAIN ranges |-> ranges[i].events]),
                         LAMBDA e : e.kind = "fixed")
  IN  IF fixes = <<>> THEN NoVersion ELSE fixes[1].at

\* Ranges of commits are not ranges of versions.
MatchAffected(a, version) ==
  LET hits == {i \in DOMAIN a.ranges : a.ranges[i].type # "GIT" /\ MatchRange(a.ranges[i], version).hit}
  IN  IF version \in a.versions THEN [hit |-> TRUE, fixed |-> FirstFixed(a.ranges)]
      ELSE IF hits # {} THEN [hit |-> TRUE, fixed |-> MatchRange(a.ranges[Min(hits)], version).fixed]
      ELSE [hit |-> FALSE, fixed |-> NoVersion]

\* The first affected block of the package that holds the version decides.
Match(entry, eco, p) ==
  LET blocks == {i \in DOMAIN entry.affected :
                   /\ entry.affected[i].package = p.name /\ EcosystemMatches(entry.affected[i].eco, eco)
                   /\ MatchAffected(entry.affected[i], p.version).hit}
  IN  IF entry.withdrawn \/ blocks = {} THEN [hit |-> FALSE, fixed |-> NoVersion]
      ELSE [hit |-> TRUE, fixed |-> MatchAffected(entry.affected[Min(blocks)], p.version).fixed]

\* Computed scores before labels; a vector that cannot be computed grades nothing.
Grade(entry) ==
  LET scored == {s \in ToSet(entry.vectors) : s # "unknown"}
      labels == SelectSeq(entry.labels, LAMBDA l : ParseSeverity(l) # "unknown")
  IN  IF scored # {} THEN CHOOSE s \in scored : \A t \in scored : Rank(t) <= Rank(s)
      ELSE IF labels # <<>> THEN ParseSeverity(labels[1]) ELSE "unknown"

\* A CVE before any other name.
PrimaryId(entry) ==
  LET cves == SelectSeq(<<entry.id>> \o entry.aliases, LAMBDA n : n.cve)
  IN  IF cves # <<>> THEN cves[1].name ELSE entry.id.name

FirstFixedFor(entry, name) ==
  LET fixes == SelectSeq(entry.affected, LAMBDA a :
                 a.package = name /\ FirstFixed(a.ranges) # NoVersion)
  IN  IF fixes = <<>> THEN NoVersion ELSE FirstFixed(fixes[1].ranges)

FromEntry(entry, p, source, fixed) ==
  [package |-> p.name, id |-> PrimaryId(entry), installed |-> p.version,
   fixed |-> IF fixed # NoVersion THEN fixed ELSE FirstFixedFor(entry, p.name),
   severity |-> Grade(entry), sources |-> {source}]

(***************************************************************************)
(* The dataset on disk                                                     *)
(***************************************************************************)
\* Whether a record is kept as it is read: it is not withdrawn and touches an
\* installed package in this host's ecosystem.
Indexed(entry, wanted, eco) ==
  /\ ~entry.withdrawn
  /\ \E i \in DOMAIN entry.affected :
       /\ wanted = {} \/ entry.affected[i].package \in wanted
       /\ EcosystemMatches(entry.affected[i].eco, eco)

\* Records up to the one that cannot be read; the rest of the dataset is lost.
LoadOffline(dataset, readable, wanted, eco) ==
  Picked(dataset, {i \in 1..readable : Indexed(dataset[i], wanted, eco)})

MatchOffline(db, packages, eco) ==
  LET rows(p) ==
        LET hits == Picked(db, {i \in DOMAIN db : Match(db[i], eco, p).hit})
        IN  [i \in DOMAIN hits |->
              FromEntry(hits[i], p, "offline-db", Match(hits[i], eco, p).fixed)]
  IN  FlattenSeq([i \in DOMAIN packages |-> rows(packages[i])])

(***************************************************************************)
(* The merge.  The table is sorted by grade, package and name, of which no *)
(* two rows have the same: its order is in the rows, which are a set.      *)
(***************************************************************************)
FirstOf(a, b) == IF a = NoVersion THEN b ELSE a

\* The graver of two grades stands (for a mutant).
JoinGraver(row, v) ==
  [row EXCEPT !.sources = @ \cup v.sources,
              !.severity = IF Rank(@) < Rank(v.severity) THEN v.severity ELSE @,
              !.fixed = FirstOf(@, v.fixed),
              !.installed = FirstOf(@, v.installed)]

\* The row there is, with what another feed adds to it: its name, and whatever
\* the row lacks. A grade is adopted, never replaced.
Join(row, v) ==
  [row EXCEPT !.sources = @ \cup v.sources,
              !.severity = IF @ = "unknown" THEN v.severity ELSE @,
              !.fixed = FirstOf(@, v.fixed),
              !.installed = FirstOf(@, v.installed)]

\* The same flaw in the same package.
OneFlaw(v, w) == v.package = w.package /\ v.id = w.id

Add(rows, v) ==
  LET same == {r \in rows : OneFlaw(r, v)}
  IN  IF v.package = "" THEN rows
      ELSE IF same = {} THEN rows \cup {v}
      ELSE (rows \ same) \cup {Join(r, v) : r \in same}

AddAll(rows, more) ==
  LET merged[n \in 0..Len(more)] == IF n = 0 THEN rows ELSE Add(merged[n - 1], more[n])
  IN  merged[Len(more)]

\* What is ungraded is never below the floor.
BelowFloor(severity, min) == severity # "unknown" /\ Rank(severity) < Rank(min)
SortAndFilter(rows, min) == {v \in rows : ~BelowFloor(v.severity, min)}

=============================================================================

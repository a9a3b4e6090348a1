--------------------------- MODULE Vulnerabilities ---------------------------
(* The updates and the vulnerabilities sections of one audit, on a host that  *)
(* is upgraded between any two of its commands: app/audit/audit.go calls the  *)
(* package manager, and app/vuln/collect.go merges the distribution's feed,   *)
(* the dataset on disk and the OSV API, any of which may fail at any request. *)
EXTENDS Osv

CONSTANTS
  Setups,      \* the runs: host, flags and the programs there are
  Hosts,       \* what is installed: package -> version, or NoVersion
  Orders,      \* the same, for the runs that list the updates alone
  Repo,        \* what the repositories on disk hold: package -> [version, security, needs]
  Names,       \* the packages, in the order they are listed
  Tracker,     \* the distribution's own advisories, in the order of its feed
  Dataset,     \* the OSV records of the dataset on disk
  Published,   \* the OSV records behind the API
  BatchLimit   \* queryBatchLimit

ASSUME BatchLimitAssumption == BatchLimit \in Nat \ {0}

IsSequence(s) == s \in Seq(ToSet(s))

\* An ecosystem has a family, or is none; no cap is cap 0.
ASSUME SetupsTyped ==
  \A s \in Setups : /\ s.override.family = "" => s.override = NoEcosystem
                    /\ s.online \in BOOLEAN /\ s.db \in BOOLEAN /\ s.cap \in Nat

\* A host has packages of its repositories, each of which is listed; versions are ranks.
ASSUME HostsTyped ==
  /\ "" \notin DOMAIN Repo
  /\ \A n \in DOMAIN Repo : Repo[n].version \in Nat /\ Repo[n].needs \subseteq DOMAIN Repo
  /\ IsSequence(Names) /\ ToSet(Names) = DOMAIN Repo
  /\ Hosts \cup Orders \subseteq [DOMAIN Repo -> Nat \cup {NoVersion}]

\* A line of the feed has a name and is about a package, and zypper's about a patch.
ASSUME FeedTyped ==
  /\ IsSequence(Tracker)
  /\ \A l \in ToSet(Tracker) :
       /\ "" \notin {l.package, l.patch} /\ {l.advisory, l.cve} # {""}
       /\ l.fixed \in Nat /\ l.affected \in Nat \cup {NoVersion}

IsEvent(e) == e.kind \in {"introduced", "fixed", "last_affected", "limit"} /\ e.at \in Nat
IsRange(r) == IsSequence(r.events) /\ \A e \in ToSet(r.events) : IsEvent(e)
IsBlock(a) == IsSequence(a.ranges) /\ \A r \in ToSet(a.ranges) : IsRange(r)
IsEntry(e) == e.withdrawn \in BOOLEAN /\ IsSequence(e.affected) /\ \A a \in ToSet(e.affected) : IsBlock(a)

\* The API's records are told apart by their identifiers.
ASSUME RecordsTyped ==
  /\ IsSequence(Dataset) /\ IsSequence(Published)
  /\ \A e \in ToSet(Dataset) \cup ToSet(Published) : IsEntry(e)
  /\ \A e, f \in ToSet(Published) : e.id.name = f.id.name => e = f

VARIABLES
  setup, host, pc,
  manager,     \* the package manager found, or "none"
  ecosystem,   \* where OSV is asked about: --ecosystem, or the host's own
  packages,    \* the auditor's list of packages, or Unread
  updates,     \* the rows of the updates
  feed,        \* the distribution's rows, before they are merged
  rows,        \* the merged rows
  told,        \* what the notes of the vulnerabilities section say is missing
  next,        \* packages asked about, or advisories fetched
  order, hits, \* the identifiers the API answered, and for which packages
  past,        \* history: every version a package has had
  known,       \* history: what the distribution knew as its feed was read
  given        \* history: every row handed to the merge

vars == <<setup, manager, ecosystem, host, pc, packages, updates, feed, rows, told, next, order, hits,
          past, known, given>>
run == <<setup, manager, ecosystem>>
world == <<run, host, past>>
query == <<next, order, hits>>

Newer(a, b) == Comparator(a, b) > 0

After(section) ==
  IF section = "updates" /\ "vulnerabilities" \in setup.sections THEN "installed" ELSE "done"

Init ==
  /\ setup \in Setups
  /\ manager = Detect(setup.os, setup.there)
  /\ ecosystem = IF setup.override # NoEcosystem THEN setup.override
                 ELSE Ecosystem(manager, setup.os)
  /\ host \in IF "vulnerabilities" \in setup.sections THEN Hosts ELSE Orders
  /\ pc = IF "updates" \in setup.sections THEN "updates" ELSE "installed"
  /\ packages = Unread
  /\ updates = {} /\ feed = <<>> /\ rows = {} /\ told = {}
  /\ next = 0 /\ order = <<>> /\ hits = [n \in {} |-> <<>>]
  /\ past = {<<n, host[n]>> : n \in DOMAIN host}
  /\ known = {} /\ given = <<>>

\* An upgrade by the host's own timer, at any point of the audit: a package at a
\* time, what it needs before it.
Upgrade ==
  \E n \in DistUpgrade(host, Repo) :
    /\ pc # "done" /\ manager # "none"
    /\ n \in Present(host) => Repo[n].needs \subseteq Present(host)
    /\ host' = [host EXCEPT ![n] = Repo[n].version]
    /\ past' = past \cup {<<n, Repo[n].version>>}
    /\ UNCHANGED <<run, pc, packages, updates, feed, rows, told, query, known, given>>

(***************************************************************************)
(* The sections (app/audit/audit.go)                                       *)
(***************************************************************************)
ReadUpdates ==
  /\ pc = "updates"
  /\ \E ok \in BOOLEAN :
       IF ok /\ manager # "none"
       THEN /\ updates' = Updates(manager, host, Repo)
            /\ pc' = IF manager \in {"dnf", "yum"} THEN "security" ELSE After("updates")
       ELSE updates' = {} /\ pc' = After("updates")
  /\ UNCHANGED <<world, packages, feed, rows, told, query, known, given>>

\* dnf's second command, which marks the rows of the first: without it none is
\* a security update.
MarkSecurity ==
  /\ pc = "security"
  /\ \E ok \in BOOLEAN :
       updates' = IF ok THEN WithSecurity(updates, Pending(host, Tracker)) ELSE updates
  /\ pc' = "rpm"
  /\ UNCHANGED <<world, packages, feed, rows, told, query, known, given>>

\* Its third, which says what is installed by now: without it no row says.
FillInstalled ==
  /\ pc = "rpm"
  /\ \E ok \in BOOLEAN : updates' = IF ok THEN WithInstalled(updates, host) ELSE updates
  /\ pc' = After("updates")
  /\ UNCHANGED <<world, packages, feed, rows, told, query, known, given>>

ListInstalled ==
  /\ pc = "installed"
  /\ \E ok \in BOOLEAN :
       IF ok /\ manager # "none"
       THEN /\ packages' = LET listed == [i \in DOMAIN Names |->
                                 [name |-> Names[i], version |-> VersionIn(Installed(host), Names[i])]]
                          IN  Picked(listed, {i \in DOMAIN listed : listed[i].version # NoVersion})
            /\ pc' = "feed" /\ told' = told
       ELSE /\ told' = told \cup {"failed"}
            /\ pc' = "done" /\ packages' = packages
  /\ UNCHANGED <<world, updates, feed, rows, query, known, given>>

(***************************************************************************)
(* The distribution's feed                                                 *)
(***************************************************************************)
Commands == {"feed", "retry", "list"}

\* What the distribution knows about the host at this moment, by the name its
\* manager reports it under.
KnownNow ==
  IF manager = "apt-get" /\ "debsecan" \notin setup.tools
  THEN {[package |-> n, ids |-> {""}, cve |-> ""] :
          n \in {m \in DistUpgrade(host, Repo) : Repo[m].security}}
  ELSE {[package |-> IF manager = "zypper" THEN l.patch ELSE l.package,
         ids |-> {l.cve, l.advisory, l.patch}, cve |-> l.cve] :
          l \in ToSet(Pending(host, Tracker))}

\* Two tries at dnf's list fail and the third answers: nothing is known, and
\* nothing says so.
DnfUnheard(ok) ==
  manager \in {"dnf", "yum"} /\ ~ok["feed"] /\ ~ok["retry"] /\ ok["list"]

ReadFeed ==
  /\ pc = "feed"
  /\ \E ok \in [Commands -> BOOLEAN] :
       LET answer == Advisories(manager, host, Repo, Tracker, Names, setup.tools,
                                setup.online, ok)
       IN  /\ feed' = answer.rows
           /\ told' = IF answer.err # "none" THEN told \cup {"feed"} ELSE told
           /\ known' = IF DnfUnheard(ok) THEN {} ELSE KnownNow
  /\ pc' = "versions"
  /\ UNCHANGED <<world, packages, updates, rows, query, given>>

\* The feed's own reading of the installed versions, before what the feed itself
\* says, and the collector's after it. zypper's rows, and those of the updates
\* from a security archive, which have no name, are not looked up by the feed.
FillVersions ==
  /\ pc = "versions"
  /\ \E ok \in BOOLEAN :
       LET own(r) == IF ok /\ manager # "zypper" /\ r.id # ""
                     THEN VersionIn(Installed(host), r.package) ELSE NoVersion
           filled == [i \in DOMAIN feed |->
                       [feed[i] EXCEPT !.installed =
                          FirstOf(FirstOf(own(feed[i]), @),
                                  VersionIn(ToSet(packages), feed[i].package))]]
       IN  /\ rows' = AddAll(rows, filled)
           /\ given' = given \o filled
  /\ pc' = "offline"
  /\ UNCHANGED <<world, packages, updates, feed, told, query, known>>

(***************************************************************************)
(* The dataset on disk                                                     *)
(***************************************************************************)
Wanted == {p.name : p \in ToSet(packages)}

\* A record that cannot be read ends the reading of the dataset.
ReadDataset ==
  /\ pc = "offline"
  /\ IF ~setup.db THEN UNCHANGED <<rows, told, given>>
     ELSE IF ecosystem = NoEcosystem
     THEN told' = told \cup {"dbEcosystem"} /\ UNCHANGED <<rows, given>>
     ELSE \E readable \in 0..Len(Dataset) :
            LET db == LoadOffline(Dataset, readable, Wanted, ecosystem)
                found == MatchOffline(db, packages, ecosystem)
            IN  /\ rows' = AddAll(rows, found)
                /\ given' = given \o found
                /\ told' = IF readable < Len(Dataset) THEN told \cup {"db"} ELSE told
  /\ pc' = "online"
  /\ UNCHANGED <<world, packages, updates, feed, query, known>>

(***************************************************************************)
(* The OSV API (app/vuln/online.go)                                        *)
(***************************************************************************)
\* A version is affected when an event opens an interval at or below it and the
\* event that closes it is above: what the API itself decides by.
Closed(r, v, i) ==
  \E j \in DOMAIN r.events :
    /\ j > i /\ r.events[j].kind # "introduced"
    /\ LET c == Comparator(v, r.events[j].at)
       IN  IF r.events[j].kind = "last_affected" THEN c > 0 ELSE c >= 0

Inside(r, v) ==
  \E i \in DOMAIN r.events :
    /\ r.events[i].kind = "introduced"
    /\ r.events[i].at = Zero \/ Comparator(v, r.events[i].at) >= 0
    /\ ~Closed(r, v, i)

Affects(entry, name, v) ==
  /\ ~entry.withdrawn
  /\ \E k \in DOMAIN entry.affected :
       LET a == entry.affected[k]
       IN  /\ a.package = name
           /\ a.eco.family = ecosystem.family
           /\ {a.eco.version, ecosystem.version} \cap {""} # {}
              \/ a.eco.version = ecosystem.version
           /\ v \in a.versions \/ \E i \in DOMAIN a.ranges :
                                   a.ranges[i].type # "GIT" /\ Inside(a.ranges[i], v)

Answers(p) ==
  LET of == Picked(Published, {i \in DOMAIN Published : Affects(Published[i], p.name, p.version)})
  IN  [i \in DOMAIN of |-> of[i].id.name]

Detail(id) == CHOOSE e \in ToSet(Published) : e.id.name = id

AskAPI ==
  /\ pc = "online"
  /\ IF ~setup.online \/ packages = <<>>
     THEN pc' = "filter" /\ told' = told
     ELSE IF ecosystem = NoEcosystem
     THEN pc' = "filter" /\ told' = told \cup {"apiEcosystem"}
     ELSE pc' = "batch" /\ told' = told
  /\ UNCHANGED <<world, packages, updates, feed, rows, query, known, given>>

ChunkEnd == IF next + BatchLimit > Len(packages) THEN Len(packages) ELSE next + BatchLimit
Chunk == SubSeq(packages, next + 1, ChunkEnd)

\* The identifiers that were not answered before, each where it comes first.
Unseen(seen, answered) ==
  Picked(answered, {i \in DOMAIN answered :
           answered[i] \notin ToSet(seen) /\ \A j \in 1..(i - 1) : answered[j] # answered[i]})

\* Each batch starts its answers afresh (for a mutant).
BatchForgets ==
  /\ pc = "batch"
  /\ \/ LET answered == FlattenSeq([i \in DOMAIN Chunk |-> Answers(Chunk[i])])
            ids == order \o Unseen(order, answered)
            about(id) == Picked(Chunk, {i \in DOMAIN Chunk : id \in ToSet(Answers(Chunk[i]))})
        IN  /\ order' = ids
            /\ hits' = [id \in ToSet(answered) |-> about(id)]
            /\ IF next + BatchLimit >= Len(packages)
               THEN pc' = "cap" /\ next' = 0
               ELSE pc' = "batch" /\ next' = next + BatchLimit
            /\ told' = told
     \/ /\ pc' = "filter" /\ told' = told \cup {"api"}
        /\ order' = <<>> /\ hits' = [n \in {} |-> <<>>] /\ next' = 0
  /\ UNCHANGED <<world, packages, updates, feed, rows, known, given>>

\* One request of at most BatchLimit packages; a failure ends the query, and the
\* answers of the batches before it are not looked at.
Batch ==
  /\ pc = "batch"
  /\ \/ LET answered == FlattenSeq([i \in DOMAIN Chunk |-> Answers(Chunk[i])])
            ids == order \o Unseen(order, answered)
            about(id) == Picked(Chunk, {i \in DOMAIN Chunk : id \in ToSet(Answers(Chunk[i]))})
            before(id) == IF id \in DOMAIN hits THEN hits[id] ELSE <<>>
        IN  /\ order' = ids
            /\ hits' = [id \in ToSet(ids) |-> before(id) \o about(id)]
            /\ IF next + BatchLimit >= Len(packages)
               THEN pc' = "cap" /\ next' = 0
               ELSE pc' = "batch" /\ next' = next + BatchLimit
            /\ told' = told
     \/ /\ pc' = "filter" /\ told' = told \cup {"api"}
        /\ order' = <<>> /\ hits' = [n \in {} |-> <<>>] /\ next' = 0
  /\ UNCHANGED <<world, packages, updates, feed, rows, known, given>>

\* The advisories past the cap are dropped without a word (for a mutant).
CapSilently ==
  /\ pc = "cap"
  /\ order' = IF setup.cap > 0 /\ Len(order) > setup.cap THEN SubSeq(order, 1, setup.cap) ELSE order
  /\ pc' = "lookup"
  /\ UNCHANGED <<world, packages, updates, feed, rows, told, next, hits, known, given>>

\* --max-osv-lookups.
Cap ==
  /\ pc = "cap"
  /\ IF setup.cap > 0 /\ Len(order) > setup.cap
     THEN order' = SubSeq(order, 1, setup.cap) /\ told' = told \cup {"cap"}
     ELSE UNCHANGED <<order, told>>
  /\ pc' = "lookup"
  /\ UNCHANGED <<world, packages, updates, feed, rows, next, hits, known, given>>

\* One request for the detail of one advisory, which may fail by itself.
Lookup ==
  /\ pc = "lookup" /\ next < Len(order)
  /\ next' = next + 1
  /\ \/ LET id == order[next + 1]
            found == [i \in DOMAIN hits[id] |->
                       FromEntry(Detail(id), hits[id][i], "osv-api", NoVersion)]
        IN  rows' = AddAll(rows, found) /\ given' = given \o found /\ told' = told
     \/ told' = told \cup {"lookup"} /\ UNCHANGED <<rows, given>>
  /\ UNCHANGED <<world, pc, packages, updates, feed, order, hits, known>>

Looked ==
  /\ pc = "lookup" /\ next = Len(order)
  /\ pc' = "filter"
  /\ UNCHANGED <<world, packages, updates, feed, rows, told, query, known, given>>

Filter ==
  /\ pc = "filter"
  /\ rows' = SortAndFilter(rows, setup.min)
  /\ pc' = "done"
  /\ UNCHANGED <<world, packages, updates, feed, told, query, known, given>>

Next ==
  \/ Upgrade
  \/ ReadUpdates \/ MarkSecurity \/ FillInstalled \/ ListInstalled \/ ReadFeed \/ FillVersions \/ ReadDataset
  \/ AskAPI \/ Batch \/ Cap \/ Lookup \/ Looked \/ Filter

Spec == Init /\ [][Next]_vars

(***************************************************************************)
(* Properties                                                              *)
(***************************************************************************)
\* The shape of the state. The auditor's own list of packages, once read, is
\* one that the host had during this audit.
TypeOK ==
  /\ setup \in Setups /\ DOMAIN host = DOMAIN Repo
  /\ pc \in {"updates", "security", "rpm", "installed", "feed", "versions", "offline", "online",
             "batch", "cap", "lookup", "filter", "done"}
  /\ packages # Unread => \A p \in ToSet(packages) : <<p.name, p.version>> \in past
  /\ told \subseteq {"failed", "feed", "db", "dbEcosystem", "api", "apiEcosystem",
                     "cap", "lookup"}
  /\ DOMAIN hits \subseteq {e.id.name : e \in ToSet(Published)} /\ ToSet(order) \subseteq DOMAIN hits
  /\ packages # Unread => next \in 0..(Len(packages) + Len(order))

Ended == pc = "done" /\ "vulnerabilities" \in setup.sections /\ "failed" \notin told

\* In the table, or graded below the floor by a feed that saw it.
Reported(name, ids) ==
  \/ \E r \in rows : r.package = name /\ r.id \in ids
  \/ \E i \in DOMAIN given :
       given[i].package = name /\ given[i].id \in ids /\ BelowFloor(given[i].severity, setup.min)

\* debsecan tells an issue that has no CVE by a name of its own.
Unnumbered(k) == manager = "apt-get" /\ "debsecan" \in setup.tools /\ k.cve = ""

\* Whatever a source the run was told to consult knew of a package the run read
\* is in the table, or a note about that very source says it is incomplete: no
\* feed, dataset or truncated query passes for a clean host (app/vuln/collect.go,
\* online.go's "a truncated result set is reported"). The one silence is
\* Unnumbered: debsecan's lines without a CVE are passed over.
FlawIsTold ==
  Ended =>
    /\ "feed" \in told \/ \A k \in known : Reported(k.package, k.ids) \/ Unnumbered(k)
    /\ (setup.db /\ told \cap {"db", "dbEcosystem"} = {}) =>
         \A e \in ToSet(Dataset) : \A p \in ToSet(packages) :
           Affects(e, p.name, p.version) => Reported(p.name, {PrimaryId(e)})
    /\ (setup.online /\ told \cap {"api", "apiEcosystem", "cap", "lookup"} = {}) =>
         \A e \in ToSet(Published) : \A p \in ToSet(packages) :
           Affects(e, p.name, p.version) => Reported(p.name, {PrimaryId(e)})

Had(name) == {h[2] : h \in {g \in past : g[1] = name}} \ {NoVersion}

\* dnf's rpm -qa has not run, failed, or came after the upgrade that its check-update
\* announced: the row names no installed version, or the available one, of a
\* package that was behind it before.
LateVersion(u) ==
  /\ manager \in {"dnf", "yum"} /\ u.installed \in {NoVersion, u.available}
  /\ \E v \in Had(u.package) : Newer(u.available, v)

\* What an upgrade brings was not installed.
WasAbsent(u) ==
  manager = "apt-get" /\ u.installed = NoVersion /\ <<u.package, NoVersion>> \in past

\* Nothing told the installed version, and the row names the one that arch-audit
\* takes for affected.
FeedVersion(r) ==
  manager = "pacman" /\ \E l \in ToSet(Tracker) : l.package = r.package /\ l.affected = r.installed

\* No row is made up: the version it names as installed was so at some moment of
\* this audit, however the host was upgraded between two of its commands; an
\* update is newer than it, and a flaw is in it, or, for a row the
\* distribution's feed began, in one the package had. The exceptions are
\* LateVersion, WasAbsent and FeedVersion (app/audit/audit.go installed,
\* app/pkgmgr/dnf.go Updates, app/vuln/osv.go Match).
RowWasTrue ==
  /\ \A u \in updates :
       \/ u.installed \in Had(u.package) /\ Newer(u.available, u.installed)
       \/ LateVersion(u) \/ WasAbsent(u)
  /\ \A r \in rows :
       /\ r.installed = NoVersion \/ r.installed \in Had(r.package) \/ FeedVersion(r)
       /\ \/ r.sources = {"distro-metadata"}
          \/ \E e \in ToSet(Dataset) \cup ToSet(Published) : \E v \in Had(r.package) :
               /\ PrimaryId(e) = r.id /\ Affects(e, r.package, v)
               /\ v = r.installed \/ "distro-metadata" \in r.sources
       /\ "distro-metadata" \in r.sources =>
            \/ r.id = "" /\ r.package \in DOMAIN Repo /\ Repo[r.package].security
            \/ \E l \in ToSet(Tracker) :
                 /\ r.package \in {l.package, l.patch} /\ r.id \in {l.cve, l.advisory, l.patch}
                 /\ \E v \in Had(l.package) : Comparator(v, l.fixed) < 0

\* What the feeds said of a flaw, by its places in what was merged, and the first
\* grade among it.
Said(r) == {i \in DOMAIN given : OneFlaw(given[i], r)}
FirstGrade(r) ==
  LET graded == {i \in Said(r) : given[i].severity # "unknown"}
  IN  IF graded = {} THEN "unknown" ELSE given[Min(graded)].severity

\* The table is what the feeds said, no more and no less: one row for each flaw
\* of a package, naming every feed that saw it, under the grade of the first
\* feed that graded it; a flaw is left out exactly if that grade is below
\* --min-severity, so an ungraded one never is (app/vuln/collect.go merger and
\* sortAndFilter).
GradeStands ==
  pc = "done" =>
    /\ \A r \in rows : /\ r.severity = FirstGrade(r)
                       /\ r.sources = UNION {given[i].sources : i \in Said(r)}
                       /\ \A s \in rows : OneFlaw(s, r) => s = r
    /\ \A i \in DOMAIN given :
         (\E r \in rows : OneFlaw(r, given[i])) <=> ~BelowFloor(FirstGrade(given[i]), setup.min)

\* An advisory that names a fix names one newer than what is installed
\* (app/vuln/collect.go firstFixedFor).
FixIsNewer ==
  pc = "done" =>
    \A r \in rows : (r.fixed # NoVersion /\ r.installed # NoVersion) => Newer(r.fixed, r.installed)

=============================================================================

# Verification of deploy-witness-cli

`deploy-witness` audits a Linux host and, given Compose files, compares a planned
`docker compose up` with what runs there (a *Compose preflight*). It changes nothing:
what it gives is a report, an exit status and, before deploying, a recheck of the report.
These modules state what those answers are worth and check it: a blocker is a real
obstacle, "no problem" is a free port, an exit status tells what was delivered, a
confirmed report is about the run that follows.

Paths are relative to the repository. `PROJECT.json` maps every definition to its lines.

## The system

| Part | State it keeps | Operations | How it meets the others |
|---|---|---|---|
| Command line (`main.go`) | none | `runCLI`, `writeReport`, `recheck`, `statusCode` | calls everything in order: Prepare, Run, redact, write, upload |
| Configuration (`app/config`, `app/netpath`) | flags, network paths | `Load` | read by all |
| Audit (`app/audit`) | plan, manifest, observations, package list, request counts | `Prepare`, `Run`, the sections, `networkRecord` | runs collectors through the runner, hands `witness.Input` to the rules |
| Plan (`app/audit/plan.go`) | the resolved plan, digest, hashes | `preparePlan`, `selectServices`, `PlanDigest` | asks `docker compose config`; reads the files several times |
| Provenance, recheck (`provenance.go`, `recheck.go`) | stamps of the run | `provenance`, `timeChecks`, `Recheck` | a later process compares the report with plan and engine |
| Runner (`app/run`) | journal | `OutputAllowExit` | every command of every collector; child processes |
| Collectors (`app/collect`, `app/pkgmgr`) | none | one `Collect` each | files and commands of the host into `model` |
| Vulnerabilities (`app/vuln`) | request count | `Collect`, `Query`, range matching | OSV over HTTP, distribution feeds by programs |
| Rules (`app/witness`) | none | 25 rules, `Evaluate`, change list, rollback | pure functions of `Input` |
| Report (`app/report`, `app/redact`, `app/contract`) | files | `WriteDir`, `WriteJSONFile`, `Build`, `Upload` | after redaction, one output after the other |
| Bench (`bench`) | – | – | development tool, outside the program |

Inside, the program is sequential. What is hard comes from outside: the host it reads
changes between one read and the next and between the report and the deployment; a
source can be read in part or not at all, and must not then look empty; commands hang,
writes fail half way, an answer to an upload is lost; clocks are set; and the verdict is
about what another program (Compose) will do. What makes each part correct:

- *rules*: no false blocker; no missed conflict where everything was read; "not read" is
  never "fine"; a redeployment does not conflict with itself; every outcome is stated;
- *plan, recheck*: equal digests are equal runs; age and engine are checked against
  clocks that move and engines that do not answer;
- *run*: the journal and the network record leave nothing out; exit statuses are true;
  nothing unredacted leaves; a run ends;
- *engine lists*: caps and partial lists are told apart from absence, also while objects come
  and go between two commands;
- *packages, vulnerabilities*: a flaw that a source knew is in the table or a note says why not;
  no row is made up; versions are ordered as dpkg and rpm order them, and as pacman and apk do
  where a number tells two versions apart;
- *host collectors*: a problem that is stated was there, "fine" is fine, a walk that was cut
  says so, and a renewal that is predicted comes.

`PROJECT.json` lists every component with its status, and the hazards with their lines.

## Modules

| Module | Models | |
|---|---|---|
| `PortMatch` | `portmatch.go`: claims, `coverage`, `collides`; the kernel's port spaces (external) | operators |
| `PortCompare` | one comparison against one reality of the host | state machine |
| `Ownership` | `ownership.go`: whose a container is, what `up` does to it | operators |
| `Outcomes` | `model.Outcome`, its rank, `conclude`'s maximum | operators |
| `PortConflict` | the port rule, ranges, host network; its verdict and `portState` | operators |
| `Deployment` | ports section, container listing, comparison, then `docker compose up`, on a host that changes | state machine |
| `RulePromise` | what the report promises of its rules | abstract specification |
| `Evaluate` | `Evaluate`, `fixOutcome`, `conclude`; refines `RulePromise` | state machine |
| `Recheck` | `plan.go`, `provenance.go`, `recheck.go`, with edits, reinstalls and a clock that is set | state machine |
| `AuditRun` | `runCLI`, `Auditor.Run`, the runner, network record, redaction, writers, upload | state machine |
| `EngineRules` | the rules about container names, volumes, networks, subnets, ownership and images; the rows of the change list | operators |
| `EngineAudit` | `docker.Collect`'s lists and inspections one after the other, the rules, then `up` | state machine |
| `Versions` | `pkgmgr/version.go`: dpkg's, rpm's and the generic order | operators |
| `Packages` | `pkgmgr`: six managers, what is installed, what each command adds to the updates, the advisories of each | operators |
| `Osv` | `vuln`: range matching, the dataset on disk, the merge, severities | operators |
| `Vulnerabilities` | the updates and vulnerabilities sections, with every request that may fail, on a host that is upgraded | state machine |
| `VersionOrder` | the orders of `Versions` held against those of dpkg, rpm, pacman and apk, as the ranks that `Vulnerabilities` takes for versions | property |
| `WebServer` | `collect/proxy`: the dump and the walk of nginx and Apache, with its bounds | operators |
| `HostRead` | `collect/host`, `panels`, `scheduler`, `certs`, `backup`: what each makes of a host | operators |
| `HostRules` | sixteen rules: capacity, compatibility, front end, binds, backups, certificates, reboot | operators |
| `HostAudit` | the collectors one after the other and a step per file of the walk, then the rules, on a host that changes | state machine |
| `PortCompare_proofs`, `Deployment_proofs`, `EngineAudit_proofs`, `HostAudit_proofs`, `Vulnerabilities_proofs`, `Evaluate_proofs`, `Recheck_proofs`, `AuditRun_proofs` | | proofs |
| `MCDeployment`, `MCEvaluate`, `MCRecheck`, `MCAuditRun`, `MCEngineAudit`, `MCVulnerabilities`, `MCHostAudit` | the instances that are checked | |

`Deployment` extends `PortConflict`, which extends `PortMatch`, `Ownership` and
`Outcomes`; `EngineAudit` extends `EngineRules`, which extends `Ownership` and `Outcomes`;
`HostAudit` extends `HostRules`, `HostRead` and `WebServer`; `Vulnerabilities` extends
`Osv`, which extends `Packages`; `VersionOrder` extends it with `Versions`; `Recheck` instantiates `Ownership`.
The three audits of the engine, the ports and the host are separate state machines: in
the program they are steps of one section that read disjoint sources into one `Input`, and
no rule of one group reads what another group's rules read, but for the containers, which
both `Deployment` and `EngineAudit` have.

### State and actions against the code

**PortMatch, PortCompare.** An address is a model value of `Addr4` or `Addr6`, a
wildcard, "*", or unnamed; a claim is `portClaim`'s fields. `Collides` answers
`"none"`, `"unknown"` or `"yes"` as the Go function does. `PortCompare` keeps beside
what was *read* (`ipv6`, `v6only`) what is *true* (`on`, `wantOnly`, `heldOnly`):
properties compare the answer with the truth. Wording of the reasons is left out.

**Deployment.** `phase` follows the audit: `ReadSockets` (audit.go:151), then
`ListContainers` (docker.Collect; the ports section always runs first, whatever the
order of `--sections`), then `Compare` (the port rule on both reads). The rest is the
environment, modelled from what the code holds of Compose: `RemoveOrphans`, `Converge`
(keep or recreate by configuration hash and options), `Start` (binds or fails).
Listeners start and stop, containers exit, between the reads. `gained` and `lost` record
whether that took or freed a binding. `facts` says how each source can be read.
A container keeps the publishes the engine bound (of a range, one port) while it runs;
stopped, it has those it was configured with again (`Exited`), and one with the plan's
hash was made from the plan (`MadeFrom`). `SituationsTyped` says what a situation may be
at all; TLC evaluates it for the instance and the proofs rest on it.

**Evaluate.** One `EvaluateRule` per rule in order, with any set of findings from
`Returned` and any verdict; `Finish` is the section's degradation. The rules
themselves are arguments: `PortConflict`, `EngineRules` and `HostRules` are among them.
The order in which findings are printed is left out.

**Recheck.** `Prepare`, `Resolve`, `Hash`, `ReadPorts`, `InspectEngine`, `Finish` are
the preflight's steps at which it reads something; `BeginRecheck`, `ResolveAgain`, `Judge`
those of the second process, in the order of `Recheck` (the caller takes the time first).
Files are records of services with image, dependencies, profile and `values` (what the
manifest has no place for). A hash is taken for injective and is the record it hashes.
The recheck's own call for hashes is left out, as nothing compares them. `Stamp` cuts
a time to the second, as RFC 3339 does. `report.files`, `.at`, `.drift` and `now.by`
are history: what really happened.

**AuditRun.** `Launch`, `Wait` and `Skip` are `OutputAllowExit` and its callers; the child
is a process and an output pipe, which a descendant may hold after the process ended
(`DescendantEnds`). `Deadline` kills the process only. A section runs its programs, may
contact OSV or registries, and ends in any status its code can set. `Seal` is the end of
`Run`; `Redact`, `WriteFile`, `CannotRender`, `Upload`, `Finish` are the rest of `runCLI`. A
file is written whole, cut short, or not opened; the POST is accepted, refused, or
accepted with its answer lost. `Interrupt` ends the process anywhere; `RunAgain` is
another run into the same directory. `launched` and `reached` are history.

**EngineAudit.** `Probe` asks which engine there is and whether it answers, `ListNetworks`,
`InspectNetwork`, `ListVolumes`, `ListImages`, `InspectImage` are the commands of
`docker.Collect` in their order; each list fails, is parsed in full, or leaves entries out, and
`read.observed` is what `Observe` says of it. `todo` and `details` are what is still to be
inspected and what was; past the caps an item stays as it was listed. `Judge` evaluates the
rules. `Prepare` and `Converge` are `up`: externals that are missing and ranges that are
taken refuse the whole run, names that are taken refuse a service. `Appears` and
`Disappears` change the engine at any point. As in `Deployment`, `SituationsTyped` says what a
situation may be: the hash of each service is there, Compose writes its labels together, and no two
containers, networks or volumes of an engine have one name.

**Vulnerabilities.** One audit with the updates and the vulnerabilities section, a step for each
command that reads the host and each of which may fail. `ReadUpdates` is the manager's list of updates,
which dnf and yum complete by two commands more: `MarkSecurity`, the advisories that make an update a
security update (dnf.go:53), and `FillInstalled`, the `rpm -qa` from which the installed versions come
(dnf.go:88-97). `ListInstalled` is the vulnerabilities section's own list (audit.go:262), `ReadFeed` and
`FillVersions` the distribution's advisories with another reading of what is installed, `ReadDataset` the
directory of OSV records, of which any prefix is readable, `Batch`, `Cap` and `Lookup` the
API's requests one by one, `Filter` the end. `Upgrade` upgrades a package, or installs one that a newer
version needs, between any two steps. dnf's index of advisories, and what its advisories are made from, are
read in one step each, although a command that fails is tried again without `--with-cve`: nothing is
asked of an advisory but that it was known when it was read. A
version is a rank, a natural number, and the `Texts` of `VersionOrder` give the ways in which each
manager writes it, in that manager's order: dpkg's, rpm's, vercmp's and apk's, which are external. The models of the
three comparisons of the code (`Versions`, over character codes) are compared with the
ranks, and everything else uses the ranks: of a pacman or apk host it is thus about versions that a number
tells apart. The merged rows are a set: no two of them have one package and
one name, and the sort is by grade, package and name, so the order of the table is in its rows. `SetupsTyped`,
`HostsTyped`, `FeedTyped` and `RecordsTyped` say what the inputs may be: an ecosystem has a family or is
none, every package of a host is one of its repositories' and is listed, an event of a range is one of
OSV's four kinds, no two of the API's records have one identifier. `past`, `known` and `given` are history.
An API answer of more than one page is left out, as the decoder has no field for the
next one.

**HostAudit.** `ReadPlan` to `ProbeRegistries` are `witnessSection` and the collectors in their
order; each is a function (`HostRead`) of the host at that moment. The walk of the web
server's configuration is one step per pattern and one per file (`WebServer`), because
its bounds, cycles and changes during the walk are what is hard about it. The host is a
record of what is there *and* of what this account may see of it (`access`), and may
become any other host of its family once, between any two steps; `before` keeps what it
was. `InTrouble` is the reference: for each rule, from the host alone, what is in
trouble there, written from the rule's meaning and not from its code. `HostsTyped` says what a
host may be at all (finitely many files, one to a path; a web server that answers `nginx -T` or `apachectl -S` loads nothing from a directory
that this account cannot list, as the program runs as this account and refuses its configuration; a path that resolves to another is the file
there, and can be read if that can; nginx includes relative to its main file's directory and its files hold no `<VirtualHost>`;
sizes and ages are counts; a reference names one image; one filesystem to a place, as of stacked mounts the code
keeps the first that is listed; an installed panel left a marker and, where no file names its port, has a known one;
the marker of a reboot only where one is needed). The engine's store is taken to be where the code guesses it (`StoreRoot`), in
the rule and in the reference, so an engine whose data was moved elsewhere is outside the model; so is the port 80 of an nginx
`server` without a `listen`, which the code does not collect. TLC evaluates `HostsTyped` for the instance and the proofs rest on it.

## Runs

Runs that pass:

| Run | What it shows | Bounds |
|---|---|---|
| `port_compare` | `OverlapIsReal`: "yes" is a real clash on every host the readings allow. `DisjointIsReal`: "none" is none. `UnknownIsOpen`: the third answer only where both are possible | 2 IPv4, 1 IPv6 address, 2 ports, all protocols and readings. A comparison looks at two bindings, so two addresses of a family tell "same" from "other" |
| `deployment` | `BlockerIsReal`, `ClearIsReal`, `UnreadIsNeverFine`, `RedeployIsClean`, `ActionIsWhatUpDoes` | families in `MCDeployment` (240,029 states): one or two services, at most two containers of every kind of owner, one other listener (up to four where ranges are checked), every `up` option, nine ways of reading, two newcomers. A verdict relates one binding to its holders; two holders of different owners is the smallest interesting case and is included; any number is covered by the proofs |
| `evaluate` | a blocker is a problem; a clean finding is info; nothing with evidence is lost; every pressing outcome is stated (refines `RulePromise`) | 2 rules, up to 2 findings each, every outcome and severity. Rules do not see each other's findings, so two show a rule beside another |
| `recheck` | `ConfirmedIsTheRun`, `ConfirmedIsFresh`, `UnchangedIsConfirmed` | five versions of the files, three commands, two engines, one change of the host or clock, four events, two ticks a second. One report and one recheck are one use of the feature; a second change is covered by the proofs |
| `audit_run` | `ExitIsTrue`, `OnlyRedactedLeaves`, `NetworkIsTold`, `JournalIsWhole`, and `RunEnds` | two runs of four configurations, up to two programs in a run, two tables and `report.json`, one request per path. Two runs are what stale files need; more are covered by the proofs |
| `engine_audit` | `BlockerIsReal`, `ClearIsReal`, `ForeignIsTold`, `RowsAreWhatUpDoes` | five families (2,453,828 states): names, pairs of services of which each may hold the other's name, volumes, networks with ranges, images; one or two services, at most two containers, two networks, two images of one id; caps of one network and one image (200 and 100 in the code) so that the second is past them; one newcomer and one loss at any point. A rule relates one declared object to the objects of its name; any number, and any caps, are covered by the proofs |
| `vulnerabilities` | `FlawIsTold`, `RowWasTrue`, `GradeStands`, `VersionsAreOrdered` | 15 set-ups over six managers, five states of the host, one of which lacks what a newer package needs, three packages in batches of two (1000 in the code), three or four records, any command or request failing, upgrades of any package between any two (47,711 states); seventeen versions of each manager for the orders. A flaw is one of one package, and three packages are two batches; any number of either is covered by the proofs |
| `host_audit` | `ProblemIsThere`, `FineIsTrue`, `WalkIsTold`, `RenewalRuns` | seventeen families (1,527,808 states), in each of which one part of the host varies with what the plan asks of it; a walk of four files and depth two (256 and 8), three names, two certificates, headroom 2 (GiB, as in the code): each bound is reached and exceeded. Rules of different families read different sources, so the families are not crossed |

Runs in which the code does not do what its documentation says. Each checks one property
and ends in a counterexample:

| Run | Property | What happens |
|---|---|---|
| `recheck_options` | `ConfirmedActsTheSame` | the digest leaves out the options of `up` and the hashes: a report without `--remove-orphans` confirms a run with it |
| `audit_hang` | `DeadlineEndsCommand` | no `WaitDelay`: a descendant that holds the output keeps `cmd.Run` from returning after the deadline |
| `vulnerabilities_fix` | `FixIsNewer` | for a flaw of two branches the API's row names the fix of the first branch, older than what is installed |
| `host_dropins` | `DropInsAreReached` | Debian's `apache2.conf` lies in its own configuration directory, and the walk starts one directory too high: `sites-enabled` is never read and nothing says so |

Properties worth a word: `UnchangedIsConfirmed` is the other side of the recheck, that it does
not refuse for nothing. `ConfirmedIsFresh` allows for exactly the amount by which the
clock was set back between report and recheck, which no program can see.
`NetworkIsTold` bounds the record from below: it may count a contact that reached nobody.
`FlawIsTold` asks of each source only what it knew when it was read, and takes a note about
that very source for an answer; a note about another source does not count. `FineIsTrue`
and `ProblemIsThere` hold a rule to the host at either moment, as a report cannot say more
of a host that changes while it is read.

### Situations that are excepted

Where the code is known to misjudge, the situation has a name in the module, and the property
holds of all others. Each is an observation about the code:

*`Deployment`* (a situation is admitted by `Init` only if `Divergences` has it; the run admits none)
- `StrangerBesideOwn`: our container holds a port of one address and another process that of another,
  and the plan wants both. One released holder settles the finding as no-problem, and `up` fails.
- `UndecidedBesideOwn`: the same beside a container of which it could not be decided whether it holds
  the port: no-problem, where docs/en/10-witness-rules.md:214 has "What remains undecidable produces the warning".
- `OutdatedKept`: with `--no-recreate` an outdated container keeps its port, but `ownerOf` calls it released.
- `LeftRunning`: a container of another checkout whose service this plan does not have is called taken
  over (ownership.go:71); Compose leaves it, unless `--remove-orphans` is given.
- `SocketUnattributed`: a socket of a container that the plan releases cannot be told from a stranger's:
  that container is on the host's network stack, or the service is and its own is not listed.
- `UnobservableHeld`: a service on the host's network stack declares an sctp port, which is held: it is
  passed over (conflicts.rules.go:313), where the comment at :382 says of such a port "It is never silence".
- `DeclaredUnread`: sockets not read, and the plan binds host ports by `expose:` on the host's network
  stack alone: the rule is "not applicable" (outcomes.go:243), as nothing is published.

*`EngineAudit`*
- `ReleasedName`: `container_name_conflict` calls a container a blocker that `up` takes over or, as an
  orphan, removes; the change list says "taken over" of the same one (docs/en/10-witness-rules.md:292).
- `OwnUnderAnotherName`: the change list looks for a service's container by the name it is to have, and
  calls the service "created" when `container_name` was changed.
- `JoinedByName`: the plan's own network is there, made by hand, and is joined; its range is still compared.
- `RangeOfOurs`: a network of this project's that the plan no longer has, or has under another name, holds
  a range the plan wants. `subnetOverlaps` passes over the project's own networks (conflicts.rules.go:1016), where
  docs/en/10-witness-rules.md:128 has no-problem for "no overlap with any network"; the engine refuses the new one.
- `KeptBesideClosed`: a container that is kept is not started again, so a swarm network that takes no
  standalone container, which is a blocker, blocks nothing when every service is kept.
- `PartialBesideExternal`: whether a list was read in full is asked only when nothing external is used
  (outcomes.go:296).
- `ClearIsReal` is about plans whose services want different names (`NamesApart`): no rule looks at that.

*`Vulnerabilities`*
- `DnfUnheard`: dnf's list fails twice and the probe then answers (dnf.go:124-134): an empty table, no note.
- `Unnumbered`: debsecan's lines that name no CVE (`TEMP-...` issues) are passed over without a note (apt.go:162), where
  docs/en/07-vulnerability-sources.md:32 has "CVE per package" and :42-44 has weaker signals "labelled as one rather than dropped".
- `LateVersion`: dnf's `check-update` does not name the installed version and a later `rpm -qa` does (dnf.go:88-97). If the package
  was upgraded between them, the row names the available version as the one installed; if `rpm` fails, none, without a note.
- `WasAbsent`: `dist-upgrade` also lists what it would install anew; apt.go:50 and :81-83 make an update of it, without an
  installed version.
- `FeedVersion`: when the list of installed packages cannot be read, an Arch row names the version that arch-audit calls
  affected as the one installed (pacman.go:182-185).
- `OtherOrder`: pacman and apk hosts are compared by `CompareGeneric`, whose comment says that its `~` "covers the pre-release
  convention every one of them happens to share" (version.go:274-277), while `ComparatorFor` "picks the version ordering a
  distribution family actually uses" (:10) and docs/en/07-vulnerability-sources.md:118-132 says of an epoch that it "outranks
  everything to its right". Neither of the two uses `~`: `1.0rc1` of Arch and `1.0_rc1` of Alpine come out newer than
  `1.0`, `1.0-2` and `1.0-r5` newer than `1.0.1-1` and `1.0.1-r0`, and `1:1.0` older than `2.0`. The excepted pairs are those that
  differ elsewhere than in a number of both, or in having an epoch; of these only antisymmetry is asked.

*`HostAudit`*
- `Unmeasured`: a path on a mount that could not be measured, or has size 0, is judged by the mount above it.
- `ArmVariant`, `ThirtyTwoBits`: an image's `arm` is never the host's `arm/v6` or `arm/v7`; a `386` image on
  x86_64 and a 32-bit ARM one on aarch64 are called a mismatch, though such machines run them.
- `UnseenImage`: a service that is built, or has a platform, is not asked about when its image is unread.
- `LeftoverPanel`, `HiddenPanel`: the files of a panel that is gone make it a holder of the web ports, a
  stopped web server's configuration likewise; a panel whose traces cannot be looked at is none.
- `NotLoaded`: the drop-in globs read files that the server's main file does not include.
- `WrongBase` (the finding above), where Apache does not say itself what it loads.
- `ClosedDirectory`: `filepath.Glob` finds nothing in a directory that this account cannot list, and reports no error
  (walk.go:167), so what the server loads from there is neither found nor noted, where walk.go:225-226 has "An empty result
  means the walk saw everything it set out to see".
- `DirectoryIncluded`: of an included directory only `*.conf` is read, and nothing is noted of the rest, so that
  a port may be called free of a web server that has it.
- `MissingOnReadOnly`: a bind source that is missing is said to be created by the engine (binds.go:97 returns before
  :110 asks for the filesystem), where docs/en/10-witness-rules.md:126 has `problem` for "mounted read/write on a
  read-only filesystem"; on such a filesystem nothing can be created.
- `MainServerNamed`: `apachectl -S` lists the virtual hosts, and the names in files are not gathered beside it: a
  `ServerName` of the main server is neither found nor noted.
- `MixedBackups`: a stale or empty location beside a fresh one is a gap while the rollback plan says
  "available"; one that cannot be read is stale; one the time budget did not reach, or that is neither
  conventional nor named in a job, is none.
- `UnseenDatabase`: databases are found by sockets, so a stopped one, or a run without the ports section, has
  none; mysql and mariadb are told apart by process or taken for mysql by port; of several
  PostgreSQL directories the first is taken; versions of others than PostgreSQL, MySQL and MariaDB
  (Redis) are not read, so nothing is compared with what they left.
- `UnseenCertificate`: a directory that cannot be listed, or lies deep, has no certificates, which is "no problem".
- `StoppedTimer`, `IgnoredCronFile`, `NamedAfter`: `list-timers --all` lists timers that will not elapse;
  `cronCandidates` does not leave out the names cron ignores; a file named after a tool counts as running it.

Observed beside the runs: the rollback says "not running here yet" of a list that was not read
(changes.go:431 against its comment at :400); image rows say "pulled" when the list was not read; a bind
change says the engine creates a source when `create_host_path` is unset; `parseSubnets` takes output it
cannot parse for no ranges; `osvBatchResponse` has no field for the next page (online.go:60-66 against the comment at
:76-79); `CompareRPM` calls a version without release equal to each with one; zypper's rows carry the patch's
name and never merge with OSV's; `insufficient_disk` counts every image as missing when the list was
not read; a file is counted before it is opened, so a tree of which nothing opened is "partial", where
proxy.go:83-84 has "failed"; `Listen` inside an `<IfModule>` that is not met is counted; a file in the directory of a
bound one is taken for managed; an error is cut at byte 300 (run.go:203), maybe within a character. The
recheck reads neither sockets nor containers again, by design.

Two more exceptions are about time. `Deployment` and `EngineAudit` excuse an answer for
what was taken or released after it was read (`gained`, `lost`), and `WalkIsTold` and `FineIsTrue` what they
say of the web server for a tree that changed during the walk (`torn`). `RulesBehave` (`Evaluate`) excludes a rule that
returns a blocker which says no-problem; no rule of the repository does, and `fixOutcome` would
make it a warning and not the info that docs/en/10-witness-rules.md:97 describes.

Some hazards that `PROJECT.json` lists are covered only in part. That the pass which corrects findings runs
once, before the outcome is concluded, is checked but for the rules that `RulesBehave` excludes. `JournalIsWhole`
does not look at the outcome that is recorded of a command, so that one which completed just before its deadline
and is recorded as "timeout" passes. A fixed name that `up` releases is an exception (`ReleasedName`), and of the change
list the properties hold for the rows of containers, volumes and networks: those of images and the rollback's
are not modelled.

### Fairness

Only `AuditRun` states fairness. The program's own steps are weakly fair: one thread,
never blocked by anything but the child it waits for. `Deadline` is weakly fair: time
passes and `context.WithTimeout` fires. Nothing is assumed of child processes
(`ProcessExits`), of interruptions or of further runs. `RunEnds` needs one assumption more,
WF of `DescendantEnds` (`SpecDescendantsEnd`): `audit_hang` shows that without it a run need
not end. OSV requests, registry dials and the upload have client timeouts and are single steps.
The other machines are finite sequences of steps that end by themselves, which is why their
configurations do not check deadlock.

## Proofs

For every value of the constants, checked by TLAPS:

- `PortCompare_proofs`: `OverlapSound`, `DisjointSound`, `UnknownNeeded`, and the type correctness they rest on (`Typed`). From `AddrAssumption`
  (the address sets are non-empty and disjoint) and `PortAssumption`. The lemmas follow the code: what `Coverage` says of one family (`CoverAll`, `CoverNone`,
  `CoverSpecific`), then `FamilyYes` and `FamilyNone` for the overlap of a family, then
  both families (`YesIsClash`, `NoneIsDisjoint`). The inductive invariant adds to type
  correctness that what was read stays true and that an answer is `Collides`'s.
  `UnknownNeeded` names, for each way in which the answer is "unknown", a reality with a
  clash and one without.
- `Deployment_proofs`: `TypeCorrect`, `BlockersReal`, `ClearReal`, `UnreadNeverFine`, `RedeployClean`,
  `ActionsAreWhatUpDoes`, which are all properties of the run `deployment`, for any plans,
  hosts, readings, newcomers, addresses, and numbers of services, containers and listeners. From
  `SituationsTyped` and `AddrAssumption`. `TypeCorrect` and `ActionsAreWhatUpDoes` need no more; each
  of the others assumes that the situations it names are not in `Divergences`, and `Admitted`
  then keeps those out: `UnreadNeverFine` that of `DeclaredUnread`, `RedeployClean` that of
  `OutdatedKept`, `BlockersReal` that and `SocketUnattributed`, `ClearReal` all others. So the
  list of exceptions above is complete: in all other situations the rule is right about the host.
  Each has an inductive invariant beside `Typed` (the types, and that `up` has done
  nothing before its phase):
  `AsPlanned`, that a container with the plan's hash is made from the plan, without which a kept
  container's publishes say nothing of the service's; `BlockersHold`, that what a problem was
  reported of is held by something that `up` does not take away; `UnreadTold`; `FatesKnown`, which
  of the listed containers are there in each phase; `OneContainer` and `ClearHolds`. The last is
  the longest argument: before the comparison nothing is misjudged and the reads are all
  there is (`Whole`), from which `ClearIsFree` concludes that whatever holds a binding of a service
  without findings goes away before it starts; after it those bindings stay free of all but
  the service's own container (`FreeStays`, `OthersStay`), so that one choice of ports can be bound
  (`ChoiceExists`, `FreeStarts`).
- `EngineAudit_proofs`: `TypeCorrect`, `ForeignTold`, `RowsReal`, `BlockersReal`, `ClearReal`, which are all
  properties of the run `engine_audit`, for any plans, engines, newcomers and caps, and any numbers of
  services, containers, networks, volumes and images. From `SituationsTyped` and `CapsAreCounts`. The
  properties except what the list above names, so these too are all the situations in which the rules
  misjudge. `Typed` needs `Unstarted`, what is not read yet in each phase. `Listing` compares what was
  read with what is there: read rows are there as long as nothing was removed, and a complete list has
  all of it as long as nothing was added. It is not inductive on its own: an inspection looks a network up by
  name, so that names differ (`NamesDiffer`) and that a listed network is the one of its name that is
  there (`Visited`) must be carried along. `ToldIs` holds as nothing is read after the rules.
  `UsedIsRead` takes from `Listing` that what `up` finds was read, from which `ForeignTold` follows rule by
  rule. `Upped` says what `up` did to what was read: `ReadIsUsed`, what was read of the plan's objects is found;
  `Stays`, what is not released, and what its service has not come to, is still there; `MadeOrRead` and
  `ClosedIsRead`, everything else was made by `up`; `Done`, what each word of `up` means for the
  containers that were read. `RowIs` (a row is that of the one container of its name) with `OwnServiceIs`
  (what the rules and Compose take for a service's own) gives `RowsReal`; a lemma for each rule about what its
  findings stand for, with `TakenFails`, gives `BlockersReal`. For `ClearReal` a clear answer is read backwards:
  no verdict was "unknown" (`DecidedIs`), hence `up` is not refused (`ClearNotRefused`), no network turns
  a container away (`ClearNotClosed`) and no name is taken (`ClearNotTaken`).
- `HostAudit_proofs`: `ProblemsThere`, `FineTrue`, `RenewalsRun`, `TypeCorrect`, `WalkTold`, which are all properties of the run
  `host_audit`, for any families of plans and hosts and any bounds. From `HostsTyped`, `WalkBoundsAreCounts` and
  `MaxCertFilesIsACount`. The exceptions above are thus all the ways in which a rule states a problem
  that is not there, or finds nothing amiss where something is. The host may change between any two steps, so an input as a whole
  is of no moment; the inductive invariant `Seen` says of each of its fields, in its own way, which
  moment it was read at (`MemorySeen`, ..., `EngineSeen`: all of the images and the kind at the same one), and the
  moments there were only grow (`MomentsGrow`). What the walk gathered is the hard part: each port and
  name is of a file that it came to, or that the server loads, on a host of some moment (`Came`,
  `ConfigSeen`), for which `AddNamesIs`, `ScanIs` and `VisitIs` say what one file adds. `ProblemIs` then goes
  through the rules one by one: what is read at one moment, or at two where the rule compares
  two readings, makes a case of `InTrouble`. The lowest version of several directories exists as
  `<` is well-founded (`LowestVersion`). `RenewalSeen` needs none of this: a tool is `Answered` once and remains so.
  For `TypeCorrect` the stack of the walk is a list of items of bounded depth (`Todo`), patterns one
  level deeper than files: an item of the last level is left and not expanded (`ExpandTodo`), and a file is counted only
  while there is room (`VisitTodo`), whatever cycles the includes have.
  `WalkTold` says that nothing is missing, so it needs an invariant in the other direction (`FoundInv`): as long as nothing
  is noted, everything of a visited file is gathered and whatever it includes is visited or ahead (`Closing`); a pattern
  gives way to its files (`ExpandCloses`), a path to what its file includes (`VisitCloses`; of a file met under a second path
  nothing is lost, for both resolve to one, `SameFile`). With nothing ahead the visited files are a whole set,
  and what the server loads is the least one (`ClosedIsAll`), as long as none of it lies in a directory closed to the account. nginx's own dump and Apache's map are complete by
  `DumpAll` and `MapAll`. A change during the walk is excepted (`torn`), and as the host changes once (`TornInv`), no other
  matters: the tree of the walk is that of a moment for good.
  `FineTrue` is about what is *not* there, for which it is not enough that what was read is true: it must be all
  there was. `WholeInv` says so of each field of the input once its collector is through (`Due` tells which is
  not): the field is what the collector makes of the host of one moment, whole, and as moments are only added it
  stays so (`WholeStays`, section by section). A rule that is calm (`Calm`, `OutcomeIsCalm`) found nothing and was
  not kept from looking, and what it looked at was whole; so nothing of that moment is in trouble, one lemma per
  rule (`WholeIsFine`). For what the web server has, the whole is not a field of one step: it is `WalkTold` where
  the files were walked, and the server's own answer, carried through the walk, where it answered (`MappedInv`).
- `Evaluate_proofs`: `Typed`, `BlockersAreProblems`, `NothingLost`, and `Implements` (the
  refinement of `RulePromise`), from `RulesAssumption`; `CleanFindingsAreInfo` under
  `RulesBehave`. The inductive invariant says in addition that a rule has an outcome exactly when it
  was evaluated, that only evaluated rules have findings, and that as long as nothing
  was dropped or corrected everything said is published: without the last part a
  section that ends ok tells nothing of the findings before.
- `Recheck_proofs`: `Typed`, `ConfirmedRun`, `ConfirmedFresh` and `UnchangedConfirmed`, from `TimesAreCounts`; the first also from
  `CommandsTyped` and `NoneIsNoValue`. The
  invariant `Held` says what each step of both processes has established: the
  digest in plan and report is that of the files and command recorded beside it, a report's
  stamp is no later than the clock that it was read from, and while nothing changes the
  plan that is judged is the one the files hold. `DigestTellsRun` is the heart of the
  first, `StampTruncates` of the second. `UnchangedConfirmed` needs its own invariant
  (`Patient`): as long as nothing changed, each step of the recheck meets what the audit met.
- `AuditRun_proofs`: `Typed`, `ExitTrue`, `RedactedLeaves`, `NetworkTold`, `JournalWhole`, which
  are all of `audit_run`'s safety properties, for any configurations, programs, tables and
  numbers of runs and requests. From the types of the constants, and from
  `WitnessIsPreflight`, which `config.go` sees to: without it a host audit could dial a
  registry. Type correctness needs `Idle` (between two sections no child runs), or `Seal` could leave a child
  behind. `NetInv` and `Kept` have the difference between what happened and what is
  recorded while the run collects: exactly the child that is waited for (`Pending`), so
  nothing is missing when `Seal` finds none. `CountAppend` and `TriedAppend` are the lemmas on a
  journal that grows. `OutInv` says that a file which is not left to write is this run's, and
  that nothing of a run that has not ended was sent, which is what makes an older run's
  files and uploads harmless.

- `Vulnerabilities_proofs`: `TypeCorrect`, `FlawsTold`, `RowsTrue`, `GradesStand`, which are all properties of the run
  `vulnerabilities` but `VersionsAreOrdered`, for any set-ups, hosts, feeds, records and batch size. From the four
  assumptions on the inputs and `BatchLimitAssumption`. The operators are loops over sequences, written as recursive
  functions; what such a function returns is proved for its own places one by one, as a set of places that has the
  first and the next of each has all of them (`Along`, by the least counterexample). That gives three lemmas on data:
  the walk over a range's events ends affected exactly when some event opens what none after it closes
  (`WalkIsOpen`), hence the scanner's verdict on a record is the API's (`MatchIs`); adding rows one by one
  keeps the table the merge of what was said (`MergeOf`: one row to a flaw, all its sources, its first grade;
  `MergeNext`, `MergeAll`); and what is concatenated or picked has the elements one expects (`FlattenIs`, `PickedIs`).
  `Shape` is the type invariant with what it needs: hits are of packages that were asked about and that the
  record affects (`HitsOK`), and what is asked next is within the list (`QueryOK`).
  `RowsOK` carries that every row said or merged is true (`TrueRow`), which upgrades cannot undo as the versions a
  package had only grow (`TrueStays`), and `MergeOf`, from which `GradeStands` follows when the table is filtered
  (`FilteredIs`). For `RowsTrue` each feed is followed to the lines it was made of (`DebsecanIs`, ..., `AdvisoriesAre`), and the
  merge needs that two true rows of one flaw make a true row (`JoinGood`). An update of dnf has no installed version until its third command, so
  the invariant says of it, until then, that the host was once behind what it announces (`Announced`); the command
  finds that version still there, or the newer one, or nothing (`CompletedIs`), which is where `LateVersion` comes from.
  `FlawsTold` needs, for each source, what it still owes the table at each step: the distribution's rows, first read and
  then given (`FeedOwes`); the dataset's (`DatasetOwes`); and the API's (`ApiOwes`), where a batch accounts for the packages
  up to its end and keeps those before (`BatchAnswers`), the cap keeps all or says so, and each lookup tells of one
  identifier for all its packages or says so. What was given is in the table in the end, or was graded below the
  floor by who gave it (`ToldIsReported`).

Left to TLC: liveness, and `VersionsAreOrdered`, which is about the given ways of writing versions and whose
comparisons (`Versions`) are RECURSIVE operators; no other module declares one, and none with a theorem reaches it.

## Not modelled

- Flag parsing, configuration, logging, tables' columns and the contract's fields; the
  generated contract code, the CSV library and `bench` are outside.
- Functions of text: the regular expressions of the redaction and the allowlist, the
  parsers of command output and of configuration files, the program's own reading of YAML with
  interpolation and includes, masked secrets in command lines.
- Three rules that look at the plan alone (`missing_healthchecks`, `floating_tags`,
  `security_flags`): nothing of the host and no order of reads enters them. A plan that
  conflicts with itself is excluded from `ClearIsReal` (`PlanDisjoint`).
- The IPv6 posture of the host, the size of a directory, the `at` spool, the kinds of backup
  repositories, hardening, services and processes: lists printed as they were read.
- Rows of the change list for images and binds, and the rollback's rows of images.
- An API answer of several pages, and what an interrupted container engine does in the
  middle of `up`.

## What is left

1. Composition: the ports, engine and host audits over one `Input`, with `Evaluate` running all
   rule sets and `AuditRun` its sections.
2. Proofs: monotonicity of the rules of `EngineRules` and `HostRules` (what more reading can
   change); that each order of `Versions` is total and transitive on well-formed versions; symmetry of `Collides`.
3. Include walks of Compose files and interpolation with defaults, as recursive functions.
4. A second change of the host in `HostAudit`, by symmetry or a smaller set of families.

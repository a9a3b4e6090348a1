------------------------------- MODULE HostAudit -------------------------------
(***************************************************************************)
(* One preflight reads the host, one collector after another, while the    *)
(* host runs (app/audit/witness.go, witnessSection), and the host rules    *)
(* are judged over what was read (HostRules).                              *)
(*                                                                         *)
(* What the account may not see is part of the host, so each collector is  *)
(* a function of the host as it is at that moment; the walk of the web     *)
(* server's configuration takes a step per file.  The host may change once,*)
(* into any other host of its family, between any two steps.               *)
(***************************************************************************)
EXTENDS HostRules, TLC

CONSTANT Families          \* sets of plans and hosts an audit may find together

VARIABLES plan, world, before,   \* the planned run; the host now and as it was
          read,                  \* the rules' input so far
          crawl, config,         \* the walk, and the configuration gathered by it
          torn,                  \* the configuration changed during the walk
          told, phase

vars == <<plan, world, before, read, crawl, config, torn, told, phase>>

-----------------------------------------------------------------------------
(***************************************************************************)
(* The hosts.                                                              *)
(***************************************************************************)

IsMemory(m) ==
  m = [readable |-> m.readable, total |-> m.total, available |-> m.available] /\ {m.total, m.available} \subseteq Nat

IsMount(m) == {m.total, m.available, m.inodes} \subseteq Nat /\ m.at \in Seq(STRING)

IsImage(i) ==
  i = [ref |-> i.ref, arch |-> i.arch, user |-> i.user, inspected |-> i.inspected] /\ i.inspected \in BOOLEAN /\ i.ref # None

\* A reference names one image.
IsEngine(e) ==
  /\ e = [kind |-> e.kind, answers |-> e.answers, listed |-> e.listed, compose |-> e.compose, images |-> e.images]
  /\ {e.answers, e.listed} \subseteq BOOLEAN /\ e.compose \in {"plugin", "standalone", "none"}
  /\ \A i \in e.images : IsImage(i)
  /\ \A i, j \in e.images : i.ref = j.ref => i = j

IsFile(f) ==
  /\ f.kind \in {"file", "dir"} /\ f.access \in {"read", "stat", "denied"} /\ IsFiniteSet(f.names)
  /\ Len(f.includes) \in Nat /\ DOMAIN f.includes = 1..Len(f.includes)
  /\ \A i \in DOMAIN f.includes : f.includes[i].takes \in {"literal", "conf", "all"}

\* A path that resolves to another is the file that is there, which can be read if it can.
Resolves(f, g) ==
  /\ g.path = f.real /\ g.real = f.real /\ g.kind = f.kind /\ (f.access # "denied" => g.access = f.access)
  /\ g.names = f.names /\ g.listens = f.listens /\ g.vhosts = f.vhosts /\ g.tail = f.tail /\ g.includes = f.includes

\* Nothing the server loads is in a directory that this account cannot list.
InOpen(web, s) == \A f \in Effective(web, s) : Front(f.path) \notin web.closed

\* nginx takes its includes from the directory of its main file, and knows no <VirtualHost>.
\* A control program, which runs as this account, fails where it may not list.
IsWeb(web) ==
  /\ IsFiniteSet(web.files) /\ \A f \in web.files : IsFile(f) /\ \E g \in web.files : Resolves(f, g)
  /\ \A f, g \in web.files : f.path = g.path => f = g
  /\ web.nginx.root # None => web.nginx.base = Front(web.nginx.root)
  /\ \A f \in Effective(web, web.nginx) : f.vhosts = {}
  /\ \A s \in {web.nginx, web.apache} : s.answers => InOpen(web, s)

\* An installed panel left its marker, and where no file names its port it is a known one.
IsPanel(p) ==
  /\ p.installed => {"there", "denied"} \cap {p.strong, p.weak} # {}
  /\ p.portFile \in {"read", "denied", "none"} /\ (p.portFile = "none" => p.port \in p.ports)

IsData(d) == d.kind \in {"postgres", "mysql", "mariadb", "redis"} \ {None} /\ d.version \in Nat \ {0}

\* One filesystem to a place, and the marker of a reboot is there only when one is needed.
IsHost(w) ==
  /\ IsMemory(w.memory) /\ IsEngine(w.engine) /\ IsWeb(w.web)
  /\ \A m \in w.mounts : IsMount(m)
  /\ \A m, n \in w.mounts : ~m.pseudo /\ ~n.pseudo /\ m.at = n.at => m = n
  /\ \A p \in w.panels : IsPanel(p)
  /\ \A p \in w.paths : p.state \in {"missing", "denied", "dangling", "there"}
  /\ IsFiniteSet(w.certs) /\ \A c \in w.certs : c.holds \in {"certificate", "key", "garbage"}
  /\ \A d \in w.backups.dirs : d.age \in Nat
  /\ \A d \in w.data : IsData(d)
  /\ w.reboot.file => w.reboot.needed

ASSUME HostsTyped == \A f \in Families : \A w \in f.hosts : IsHost(w)

-----------------------------------------------------------------------------

environment == <<plan, world, before, torn>>

NoProxy == [kind |-> None, names |-> {}, ports |-> {}, state |-> "complete", noted |-> FALSE]
NoCrawl == NewCrawler(None, <<>>, FALSE, <<>>)
Untold  == [findings |-> {}, outcomes |-> <<>>]

Unread(p) ==
  [plan |-> p, env |-> {}, sockets |-> {}, reboot |-> "unknown", arch |-> None, memory |-> [total |-> 0, available |-> 0],
   filesystems |-> {}, engine |-> [kind |-> "none", answers |-> FALSE, listed |-> FALSE, compose |-> "none", images |-> {}],
   proxy |-> NoProxy, panels |-> {}, jobs |-> {}, certificates |-> {}, backup |-> [tools |-> FALSE, locations |-> {}],
   databases |-> {}, binds |-> {}, registries |-> {}]

Init ==
  /\ \E f \in Families : plan \in f.plans /\ world \in f.hosts
  /\ before = world
  /\ read = Unread(plan)
  /\ crawl = NoCrawl /\ config = NoConfiguration /\ torn = FALSE
  /\ told = Untold
  /\ phase = "plan"

\* A collector reads what it reads, and the next one follows.
Collect(here, there, seen) ==
  /\ phase = here
  /\ read' = seen
  /\ phase' = there
  /\ UNCHANGED <<environment, crawl, config, told>>

\* The plan is read, and each file of `env_file` looked for.
ReadPlan ==
  Collect("plan", "sections",
          [read EXCEPT !.env = {StatPath(world, e.at) : e \in UNION {s.env : s \in plan.services}}])

\* The ports and the system section ran before, if they were selected.
ReadSections ==
  Collect("sections", "host",
          [read EXCEPT !.sockets = IF plan.ports THEN world.listeners ELSE {},
                       !.reboot = IF plan.system THEN RebootRequired(world) ELSE "unknown"])

ReadHost ==
  Collect("host", "engine",
          [read EXCEPT !.arch = world.uname, !.memory = MemInfo(world), !.filesystems = Filesystems(world)])

\* An image that was listed and not inspected has no architecture and no user, and
\* no user is root.
Shown(i) == IF i.inspected THEN i ELSE [i EXCEPT !.arch = None, !.user = [kind |-> "number", uid |-> 0, gid |-> None]]

ReadEngine ==
  Collect("engine", "proxy",
          LET e == world.engine
          IN  [read EXCEPT !.engine =
                 [e EXCEPT !.images = IF e.answers /\ e.listed THEN {Shown(i) : i \in @} ELSE {},
                           !.listed = e.answers /\ @]])

-----------------------------------------------------------------------------
(***************************************************************************)
(* proxy.Collect.                                                          *)
(***************************************************************************)

Answers(s) == s.binary /\ s.answers

\* nginx when it is there, else Apache: the server's own answer, and the walk unless
\* nginx gave its own.
AskProxy ==
  LET web == world.web
  IN  /\ phase = "proxy"
      /\ IF Present(web.nginx)
         THEN /\ config' = IF Answers(web.nginx) THEN ParseNginxDump(web) ELSE NoConfiguration
              /\ crawl' = IF Answers(web.nginx) THEN [NoCrawl EXCEPT !.kind = "nginx", !.mapped = TRUE]
                          ELSE WalkNginxTree(web.nginx)
              /\ phase' = "crawl"
         ELSE IF Present(web.apache)
         THEN /\ config' = IF Answers(web.apache) THEN ParseApacheVhostMap(web) ELSE NoConfiguration
              /\ crawl' = WalkApacheTree(web, web.apache, Answers(web.apache))
              /\ phase' = "crawl"
         ELSE phase' = "panels" /\ UNCHANGED <<crawl, config>>
  /\ UNCHANGED <<environment, read, told>>

Walking(file) == phase = "crawl" /\ crawl.todo # <<>> /\ (Head(crawl.todo).pattern.takes = "file") = file

ExpandPattern ==
  /\ Walking(FALSE)
  /\ crawl' = ExpandNext(world.web, crawl)
  /\ UNCHANGED <<environment, read, config, told, phase>>

Scan(f) == IF crawl.kind = "nginx" THEN ScanNginxFile(config, f) ELSE ScanApacheConfig(config, f, crawl.mapped)

VisitFile ==
  /\ Walking(TRUE)
  /\ crawl' = VisitNext(world.web, crawl)
  /\ config' = LET scanned == Scanned(world.web, crawl)
               IN  IF scanned = {} THEN config ELSE Scan(CHOOSE f \in scanned : TRUE)
  /\ UNCHANGED <<environment, read, told, phase>>

\* finish: the server's own answer is complete unless the names were cut, or Apache
\* beside nginx was not inspected.
ProxyState ==
  IF ~crawl.mapped THEN CrawlState(crawl)
  ELSE IF config.cut \/ (crawl.kind = "nginx" /\ Present(world.web.apache)) THEN "partial" ELSE "complete"

ProxyDone ==
  /\ crawl.todo = <<>>
  /\ Collect("crawl", "panels",
             [read EXCEPT !.proxy = [kind |-> crawl.kind, names |-> config.names, ports |-> config.ports,
                                     state |-> ProxyState, noted |-> config.cut \/ Noted(crawl)]])

-----------------------------------------------------------------------------

ReadPanels == Collect("panels", "jobs", [read EXCEPT !.panels = Panels(world)])

ReadJobs == Collect("jobs", "certs", [read EXCEPT !.jobs = ScheduledTools(world)])

ReadCertificates == Collect("certs", "backup", [read EXCEPT !.certificates = Certificates(world, read.jobs)])

ReadBackups ==
  Collect("backup", "databases", [read EXCEPT !.backup = [tools |-> world.backups.tools, locations |-> Locations(world)]])

\* Databases takes the sockets the ports section read.
ReadDatabases == Collect("databases", "binds", [read EXCEPT !.databases = Databases(world, read.sockets)])

\* BindSources takes the filesystems host.Collect measured.
ReadBinds ==
  Collect("binds", "registries", [read EXCEPT !.binds = BindSources(world, Binds(plan), read.filesystems)])

\* checkRegistries, only with --egress.
ProbeRegistries ==
  Collect("registries", "judge",
          [read EXCEPT !.registries =
             IF plan.egress THEN {[name |-> r, reached |-> r \in world.registries] : r \in RegistriesOf(plan)} ELSE {}])

Judge ==
  /\ phase = "judge"
  /\ told' = [findings |-> Findings(read), outcomes |-> RuleOutcomes(read)]
  /\ phase' = "told"
  /\ UNCHANGED <<environment, read, crawl, config>>

\* Somebody changes the host.
Change ==
  /\ before = world /\ phase # "told"
  /\ \E f \in Families : plan \in f.plans /\ world \in f.hosts /\ world' \in f.hosts \ {world}
  /\ torn' = (phase = "crawl" /\ world'.web # world.web)
  /\ UNCHANGED <<plan, before, read, crawl, config, told, phase>>

Next ==
  \/ ReadPlan \/ ReadSections \/ ReadHost \/ ReadEngine
  \/ AskProxy \/ ExpandPattern \/ VisitFile \/ ProxyDone
  \/ ReadPanels \/ ReadJobs \/ ReadCertificates \/ ReadBackups \/ ReadDatabases \/ ReadBinds
  \/ ProbeRegistries \/ Judge \/ Change

Spec == Init /\ [][Next]_vars
-----------------------------------------------------------------------------
(***************************************************************************)
(* What is so on the host `a`, or on `a` and then `b` where a rule goes by *)
(* two readings: the subjects each rule should be about.                   *)
(***************************************************************************)

Mounted(w) == {m \in w.mounts : ~m.pseudo}

If(condition) == IF condition THEN {None} ELSE {}

\* What the kernel, the engine and the images call a machine.  Docker calls every 32-bit
\* ARM one "arm".
Amd64 == {"x86_64", "amd64"}
I386  == {"i386", "i686", "x86", "386"}
Arm64 == {"aarch64", "arm64", "arm64/v8", "armv8"}
ArmV7 == {"armv7l", "armv7", "arm/v7"}
ArmV6 == {"armv6l", "arm/v6"}

\* The images a machine runs: its own, an older variant's, and on 64 bits those of 32.
RunsOn(uname, arch) ==
  arch \in (IF uname \in Amd64 THEN Amd64 \cup I386
            ELSE IF uname \in Arm64 THEN Arm64 \cup ArmV7 \cup ArmV6 \cup {"arm"}
            ELSE IF uname \in ArmV7 THEN ArmV7 \cup ArmV6 \cup {"arm"}
            ELSE IF uname \in ArmV6 THEN ArmV6 \cup {"arm"}
            ELSE IF uname \in I386 THEN I386 ELSE {uname})

Unfit(w, s) == {s.platform} \cup {i.arch : i \in {j \in w.engine.images : j.ref = s.image}}

SameEngine(db, kind) == db = kind \/ {db, kind} = {"mysql", "mariadb"}

Stale(d) == d.empty \/ d.age > 30

Loaded(w, kind) == EffectivePorts(w.web, kind)

OnReadOnly(w, path) == \E m \in FilesystemFor(path, Mounted(w)) : m.readOnly

InTrouble(a, b) ==
  [memory |-> If(~(Need(plan) <= a.memory.available)),
   disk |-> If(/\ \E s \in Pulled(plan) : \A i \in b.engine.images : i.ref # s.image
               /\ \E m \in FilesystemFor(StoreRoot(b.engine), Mounted(a)) : m.available < MinimumHeadroom),
   inodes |-> If(\E m \in FilesystemFor(StoreRoot(b.engine), Mounted(a)) : m.inodes > 0 /\ InodesUsedPercent(m) >= 90),
   pressure |-> {m.at : m \in {n \in Mounted(a) : ~n.readOnly /\ UsedPercent(n) >= 90}},
   architecture |-> {s.name : s \in {t \in plan.services : \E arch \in Unfit(b, t) \ {None} : ~RunsOn(a.uname, arch)}},
   runtime |-> If(a.engine.kind = "none" \/ a.engine.compose # "plugin"),
   registry |-> RegistriesOf(plan) \ a.registries,
   database |-> {s.name : s \in {t \in plan.services : t.major # 0 /\ \E d \in b.data :
                                   SameEngine(t.db, d.kind) /\ d.version # t.major}},
   front |-> {p \in WebPorts(plan) :
                /\ \E s \in plan.services : [port |-> p, protocol |-> "tcp"] \in s.publishes
                /\ p \in Loaded(a, "nginx") \cup Loaded(a, "apache")
                         \cup UNION {q.ports \cup {q.port} : q \in {r \in b.panels : r.installed}}},
   domain |-> DomainsOf(plan) \cap (EffectiveNames(a.web, "nginx") \cup EffectiveNames(a.web, "apache")),
   bind |-> {m.at : m \in {n \in Binds(plan) :
               \/ StatPath(b, n.at).state = "missing" /\ (n.create = "no" \/ OnReadOnly(a, n.at))
               \/ ~n.ro /\ OnReadOnly(a, n.at)
               \/ SensitiveHostPath(n.at)}},
   env |-> {e.at : e \in {f \in UNION {s.env : s \in plan.services} :
                            ~f.optional /\ StatPath(a, f.at).state \in {"missing", "dangling"}}},
   backup |-> If(PersistentData(plan) # {} /\ \A d \in a.backups.dirs : Stale(d)),
   rollback |-> If(PersistentData(plan) # {} /\ \A d \in a.backups.dirs : Stale(d)),
   certificate |-> {c.path : c \in {d \in a.certs : d.holds = "certificate" /\ ~d.trustStore /\ d.days <= 30}},
   reboot |-> If(a.reboot.needed)]

Moments == {before, world}

\* The troubles there were, for each pair of moments a rule's readings may be of.
Cases == {InTrouble(a, b) : a, b \in Moments}

-----------------------------------------------------------------------------
(***************************************************************************)
(* Where the code is known to part from the host: each is described in the *)
(* README.                                                                 *)
(***************************************************************************)

\* The store, or a bind source, is on a filesystem that could not be measured, and the
\* next one up is taken for it.
Unmeasured == \E w \in Moments : \E m \in Mounted(w) : ~m.measured \/ m.total = 0

\* A 32-bit ARM machine, whose images are all "arm", and an image of 32 bits on 64.
ArmVariant == \E w \in Moments : w.uname \in ArmV6 \cup ArmV7
ThirtyTwoBits == \E v, w \in Moments : \E s \in plan.services :
  \/ v.uname \in Amd64 /\ I386 \cap Unfit(w, s) # {}
  \/ v.uname \in Arm64 /\ (ArmV7 \cup ArmV6 \cup {"arm"}) \cap Unfit(w, s) # {}

\* An image that was not seen, for which nothing was asked: the service is built here, or
\* it has a platform of its own.
UnseenImage == \E s \in plan.services :
  (s.build \/ s.platform # None) /\ \A i \in ImagesOf(read, s) : i.arch = None

\* A trace of a panel that is gone, and one that may not be looked at.
LeftoverPanel == \E w \in Moments : \E p \in w.panels : ~p.installed
HiddenPanel == \E w \in Moments : \E p \in w.panels :
  p.installed /\ ("denied" \in {p.strong, p.weak} \/ p.portFile = "denied")

\* The walk came to a file that the server does not load: one in a drop-in directory that
\* the main file does not include.
NotLoaded == \E w \in Moments : \E f \in w.web.files :
  f.kind = "file" /\ f.real \in crawl.visited /\ f \notin Effective(w.web, w.web[crawl.kind])

\* The walk begins in the wrong directory, Apache's main file lying in its own and Apache
\* not saying where.
WrongBase == \E w \in Moments :
  LET s == w.web.apache
  IN  s.root # None /\ ~Answers(s) /\ ApacheBase(s, FALSE) # s.base

\* A whole directory is included, of which the walk takes only *.conf.
DirectoryIncluded == \E w \in Moments : \E f \in w.web.files : f.kind = "dir"

\* The server loads a file from a directory that this account cannot list.
ClosedDirectory == \E w \in Moments : ~InOpen(w.web, w.web[read.proxy.kind])

\* Apache's main server has a name of its own, which its map does not list.
MainServerNamed == \E w \in Moments : w.web.apache.answers /\ \E f \in Effective(w.web, w.web.apache) :
  f.vhosts = {} /\ f.names # {}

\* A stale or empty directory beside a fresh one, one whose files could not be dated, one
\* the budget for walking did not reach, and one that is neither conventional nor named.
MixedBackups == \E w \in Moments : \E d \in w.backups.dirs :
  d.access # "read" \/ d.late \/ ~(d.conventional \/ d.namedByJob) \/ \E e \in w.backups.dirs : Stale(d) /\ ~Stale(e)

\* A database the collector has no version of: Redis, one that is stopped, kept elsewhere,
\* unreadable, a second cluster, or one it takes for MySQL by its port.
UnseenDatabase == \E w \in Moments : \E d \in w.data :
  \/ d.kind = "redis" \/ ~d.standard \/ d.access # "read"
  \/ \E v \in Moments : \A l \in v.listeners : DatabaseKind(l) # d.kind
  \/ \E e \in w.data : e.kind = d.kind /\ e # d
  \/ \E s \in plan.services : s.db # d.kind

\* A source the engine would have to create on a filesystem that is read-only.
MissingOnReadOnly == \E v, w \in Moments : \E m \in Binds(plan) :
  StatPath(w, m.at).state = "missing" /\ OnReadOnly(v, m.at)

\* A certificate the walk of the roots does not come to.
UnseenCertificate == \E w \in Moments :
  \/ \E c \in w.certs : ~c.candidate \/ c.deep \/ c.access = "unlisted"
  \/ Cardinality(w.certs) > MaxCertFiles

-----------------------------------------------------------------------------
(***************************************************************************)
(* What the answer is worth.                                               *)
(***************************************************************************)

Told == phase = "told"

TypeOK ==
  /\ phase \in {"plan", "sections", "host", "engine", "proxy", "crawl", "panels", "jobs", "certs", "backup",
                "databases", "binds", "registries", "judge", "told"}
  /\ Cardinality(config.names) <= MaxServerNames
  /\ crawl.files <= MaxWalkFiles /\ \A i \in DOMAIN crawl.todo : crawl.todo[i].depth <= MaxWalkDepth + 1
  /\ Cardinality(read.certificates) <= MaxCertFiles
  /\ read.proxy.state \in {"complete", "partial", "failed"}
  /\ \A f \in told.findings : f.outcome \in Outcome /\ f.severity \in Severity
  /\ Told => \A rule \in DOMAIN told.outcomes : told.outcomes[rule] \in Outcome

\* A problem the host rules state was there on the host when they looked, whatever
\* changed while they did: "A false blocker is the most expensive mistake this product
\* can make" (docs/en/10-witness-rules.md:35).
ProblemIsThere ==
  LET cases == Cases
  IN  \A f \in {g \in told.findings : g.outcome = "problem"} :
    \/ \E trouble \in cases : f.subject \in trouble[f.rule]
    \/ f.rule = "disk" /\ ~read.engine.listed
    \/ f.rule \in {"disk", "inodes", "bind"} /\ Unmeasured
    \/ f.rule = "architecture" /\ (ArmVariant \/ ThirtyTwoBits)
    \/ f.rule \in {"front", "domain"} /\ (LeftoverPanel \/ NotLoaded)
    \/ f.rule \in {"backup", "rollback"} /\ MixedBackups

\* And when no rule asks for attention, nothing they are about was in the way: of the
\* host as it was or as it is, no subject of the rule is in trouble, unless it is one
\* the collectors are known not to see.
FineIsTrue ==
  LET cases == Cases
  IN  Told => \A rule \in DOMAIN told.outcomes :
    \/ told.outcomes[rule] \in Pressing
    \/ \E trouble \in cases : trouble[rule] = {}
    \/ rule \in {"disk", "inodes", "pressure", "bind"} /\ Unmeasured
    \/ rule \in {"front", "domain"} /\ (read.proxy.state # "complete" \/ read.proxy.noted \/ torn)
    \/ rule = "architecture" /\ UnseenImage
    \/ rule = "domain" /\ MainServerNamed
    \/ rule = "front" /\ (HiddenPanel \/ DirectoryIncluded)
    \/ rule = "bind" /\ MissingOnReadOnly
    \/ rule = "database" /\ (UnseenDatabase \/ ~plan.ports)
    \/ rule = "certificate" /\ UnseenCertificate

\* A walk that notes no bound and no file it could not read has found every port and
\* name the server loads, as one of the two moments has it: "An empty result means the
\* walk saw everything it set out to see" (app/collect/proxy/walk.go:225). Where that is
\* not so is named: ClosedDirectory, WrongBase, DirectoryIncluded and MainServerNamed.
WalkIsTold ==
  /\ read.proxy.kind # None /\ ~read.proxy.noted /\ ~torn
  /\ ~ClosedDirectory /\ ~WrongBase /\ ~DirectoryIncluded /\ ~MainServerNamed
  =>
    \E w \in Moments :
      /\ Loaded(w, read.proxy.kind) \subseteq read.proxy.ports
      /\ EffectiveNames(w.web, read.proxy.kind) \subseteq {n.name : n \in read.proxy.names}

\* What runs on this host of its own accord, on one of the two days.
Runs(tool) ==
  \E w \in Moments :
    \/ \E t \in w.timers : t.tool = tool /\ (t.enabled \/ (t.loaded /\ t.next))
    \/ \E f \in w.crons : ~f.ignored /\ tool \in f.runs
    \/ tool \in w.ownCrontab

\* A timer that is loaded and stopped; a file that cron passes over for its name; and one
\* that is named after the tool and does not run it.
StoppedTimer(tool) == \E w \in Moments : \E t \in w.timers : t.tool = tool /\ t.loaded /\ ~t.enabled /\ ~t.next
IgnoredCronFile(tool) == \E w \in Moments : \E f \in w.crons : f.ignored /\ tool \in f.runs \cup {f.named}
NamedAfter(tool) == \E w \in Moments : \E f \in w.crons : f.named = tool /\ tool \notin f.runs

\* A certificate that is said to renew itself does: something the host runs renews it.
\* "A manager is who owns the file, a job is what will actually run. AutoRenew needs
\* both" (app/collect/certs/certs.go:242).
RenewalRuns ==
  \A c \in read.certificates :
    c.autoRenew => Runs(c.manager) \/ StoppedTimer(c.manager) \/ IgnoredCronFile(c.manager) \/ NamedAfter(c.manager)

-----------------------------------------------------------------------------

\* The drop-in directories are "where the vhosts live, and they must be reachable even
\* when the root configuration was not readable" (app/collect/proxy/apache.go:25): a
\* walk of Apache's tree that notes nothing has read them.
DropInsAreReached ==
  Told /\ read.proxy.kind = "apache" /\ ~read.proxy.noted /\ before = world =>
    \A f \in world.web.files :
      Front(f.path) = world.web.apache.base \o <<"sites-enabled">> /\ f.access = "read" =>
        f.names \subseteq {n.name : n \in read.proxy.names}
=============================================================================

-------------------------- MODULE HostAudit_proofs --------------------------
(***************************************************************************)
(* What the host rules' answers are worth, for any plans, hosts and bounds:*)
(* a problem that is stated was there when the host was looked at          *)
(* (ProblemsThere), a renewal that is promised is one the host runs        *)
(* (RenewalsRun), the walk and the lists stay within their bounds          *)
(* (TypeCorrect), and a walk that notes nothing has found all that the web *)
(* server loads (WalkTold).                                                *)
(*                                                                         *)
(* The host may become any other of its family while it is read, so the    *)
(* inductive invariant, Seen, says of each field of the rules' input at    *)
(* which moment, or pair of moments, it was so; of what a rule concludes   *)
(* from its field the property follows, rule by rule.  Two things no single*)
(* field shows: a port or name of the web server is of a file the walk came*)
(* to or the server loads (Came), and a bind source is of one moment on a  *)
(* filesystem measured at another.                                         *)
(*                                                                         *)
(* That nothing is missing needs other invariants.  What the walk visited  *)
(* is closed under includes, up to what it has ahead (FoundInv, Closing);  *)
(* with nothing ahead that is a whole set of files, and what the server    *)
(* loads is the least (WalkTold).  And a rule that calls nothing amiss is  *)
(* right (FineTrue) as each collector that is through read all there was   *)
(* of one moment (WholeInv), of which rule by rule nothing in trouble is   *)
(* left.                                                                   *)
(***************************************************************************)
EXTENDS HostAudit, FiniteSetTheorems, TLAPS

-----------------------------------------------------------------------------
(***************************************************************************)
(* Sequences.                                                              *)
(***************************************************************************)

\* The elements of a finite set in some order, and the first of them.
LEMMA SetToSeqIs ==
  ASSUME NEW S, IsFiniteSet(S)
  PROVE  /\ Cardinality(S) \in Nat /\ Len(SetToSeq(S)) = Cardinality(S)
         /\ SetToSeq(S) \in [1..Cardinality(S) -> S] /\ SetToSeq(S) \in Seq(S)
         /\ \A x \in S : \E i \in 1..Cardinality(S) : SetToSeq(S)[i] = x
<1> DEFINE n == Cardinality(S)
<1>1. n \in Nat /\ ExistsBijection(1..n, S)
  BY FS_CardinalityType
<1>2. \E f \in [1..n -> S] : IsInjective(f)
  BY <1>1 DEF ExistsBijection, Bijection, Injection
<1>3. SetToSeq(S) \in [1..n -> S] /\ IsInjective(SetToSeq(S))
  BY <1>2 DEF SetToSeq
<1>4. SetToSeq(S) \in Seq(S) /\ Len(SetToSeq(S)) = n
  BY <1>1, <1>3
<1>5. SetToSeq(S) \in Surjection(1..n, S)
  <2>1. IsFiniteSet(1..n) /\ Cardinality(1..n) = n
    BY <1>1, FS_Interval
  <2>2. SetToSeq(S) \in Injection(1..n, S)
    BY <1>3 DEF Injection
  <2>3. QED
    BY <2>1, <2>2, FS_Injection
<1>6. QED
  BY <1>1, <1>3, <1>4, <1>5 DEF Surjection

\* No more than the first k of them.
LEMMA FirstOf ==
  ASSUME NEW S, NEW s \in Seq(S), NEW k \in Nat, k <= Len(s)
  PROVE  /\ ToSet(SubSeq(s, 1, k)) \subseteq S
         /\ IsFiniteSet(ToSet(SubSeq(s, 1, k))) /\ Cardinality(ToSet(SubSeq(s, 1, k))) <= k
<1> DEFINE t == SubSeq(s, 1, k)
<1>0. t \in Seq(S) /\ Len(t) = k
  OBVIOUS
<1> HIDE DEF t
<1>1. DOMAIN t = 1..k /\ t \in [1..k -> S]
  BY <1>0
<1>2. ToSet(t) = {t[i] : i \in 1..k}
  BY <1>1 DEF ToSet
<1>3. \A i \in 1..k : t[i] \in S
  BY <1>1
<1>4. t \in [1..k -> ToSet(t)]
  BY <1>1, <1>2
<1>5. t \in Surjection(1..k, ToSet(t))
  BY <1>2, <1>4 DEF Surjection
<1>6. ExistsSurjection(1..k, ToSet(t))
  BY <1>5 DEF ExistsSurjection
<1>7. IsFiniteSet(ToSet(t)) /\ Cardinality(ToSet(t)) <= k
  BY <1>6, FS_NatSurjection, FS_SurjCardinalityBound
<1>8. QED
  BY <1>2, <1>3, <1>7 DEF t

-----------------------------------------------------------------------------
(***************************************************************************)
(* What a step writes.                                                     *)
(***************************************************************************)

Fields == {"plan", "env", "sockets", "reboot", "arch", "memory", "filesystems", "engine", "proxy", "panels", "jobs",
           "certificates", "backup", "databases", "binds", "registries"}

\* The plan stays, and what was so at one moment stays so.
LEMMA MomentsGrow ==
  ASSUME Next
  PROVE  plan' = plan /\ Moments \subseteq Moments' /\ (~Change => world' = world /\ before' = before)
<1> USE DEF Moments
<1>1. CASE Change
  BY <1>1 DEF Change
<1>2. CASE ~Change
  BY <1>2 DEF Next, ReadPlan, ReadSections, ReadHost, ReadEngine, AskProxy, ExpandPattern, VisitFile, ProxyDone,
              ReadPanels, ReadJobs, ReadCertificates, ReadBackups, ReadDatabases, ReadBinds, ProbeRegistries, Judge,
              Collect, environment
<1>3. QED
  BY <1>1, <1>2

\* A step that is not the field's own collector leaves the field.
LEMMA Written ==
  ASSUME Next, DOMAIN read = Fields
  PROVE  /\ DOMAIN read' = Fields
         /\ read'.plan = read.plan
         /\ ReadPlan \/ read'.env = read.env
         /\ ReadSections \/ (read'.sockets = read.sockets /\ read'.reboot = read.reboot)
         /\ ReadHost \/ (read'.arch = read.arch /\ read'.memory = read.memory /\ read'.filesystems = read.filesystems)
         /\ ReadEngine \/ read'.engine = read.engine
         /\ ProxyDone \/ read'.proxy = read.proxy
         /\ ReadPanels \/ read'.panels = read.panels
         /\ ReadJobs \/ read'.jobs = read.jobs
         /\ ReadCertificates \/ read'.certificates = read.certificates
         /\ ReadBackups \/ read'.backup = read.backup
         /\ ReadDatabases \/ read'.databases = read.databases
         /\ ReadBinds \/ read'.binds = read.binds
         /\ ProbeRegistries \/ read'.registries = read.registries
         /\ AskProxy \/ ExpandPattern \/ VisitFile \/ (crawl' = crawl /\ config' = config)
         /\ Judge \/ told' = told
<1> USE DEF Fields
<1>1. CASE ReadPlan
  BY <1>1 DEF ReadPlan, Collect
<1>2. CASE ReadSections
  BY <1>2 DEF ReadSections, Collect
<1>3. CASE ReadHost
  BY <1>3 DEF ReadHost, Collect
<1>4. CASE ReadEngine
  BY <1>4 DEF ReadEngine, Collect
<1>5. CASE AskProxy \/ ExpandPattern \/ VisitFile
  BY <1>5 DEF AskProxy, ExpandPattern, VisitFile
<1>6. CASE ProxyDone
  BY <1>6 DEF ProxyDone, Collect
<1>7. CASE ReadPanels
  BY <1>7 DEF ReadPanels, Collect
<1>8. CASE ReadJobs
  BY <1>8 DEF ReadJobs, Collect
<1>9. CASE ReadCertificates
  BY <1>9 DEF ReadCertificates, Collect
<1>10. CASE ReadBackups
  BY <1>10 DEF ReadBackups, Collect
<1>11. CASE ReadDatabases
  BY <1>11 DEF ReadDatabases, Collect
<1>12. CASE ReadBinds
  BY <1>12 DEF ReadBinds, Collect
<1>13. CASE ProbeRegistries
  BY <1>13 DEF ProbeRegistries, Collect
<1>14. CASE Judge \/ Change
  BY <1>14 DEF Judge, Change
<1>15. QED
  BY <1>1, <1>2, <1>3, <1>4, <1>5, <1>6, <1>7, <1>8, <1>9, <1>10, <1>11, <1>12, <1>13, <1>14 DEF Next

\* What each collector writes of the host as it is.
LEMMA Collected ==
  ASSUME DOMAIN read = Fields
  PROVE  /\ ReadPlan => read'.env = {StatPath(world, e.at) : e \in UNION {s.env : s \in plan.services}}
         /\ ReadSections => read'.reboot = IF plan.system THEN RebootRequired(world) ELSE "unknown"
         /\ ReadHost => /\ read'.arch = world.uname /\ read'.memory = MemInfo(world)
                        /\ read'.filesystems = Filesystems(world)
         /\ ProxyDone => read'.proxy = [kind |-> crawl.kind, names |-> config.names, ports |-> config.ports,
                                        state |-> ProxyState, noted |-> config.cut \/ Noted(crawl)]
         /\ ReadPanels => read'.panels = Panels(world)
         /\ ReadJobs => read'.jobs = ScheduledTools(world)
         /\ ReadCertificates => read'.certificates = Certificates(world, read.jobs)
         /\ ReadBackups => read'.backup = [tools |-> world.backups.tools, locations |-> Locations(world)]
         /\ ReadDatabases => read'.databases = Databases(world, read.sockets)
         /\ ReadBinds => read'.binds = BindSources(world, Binds(plan), read.filesystems)
         /\ ProbeRegistries => read'.registries = IF plan.egress
              THEN {[name |-> r, reached |-> r \in world.registries] : r \in RegistriesOf(plan)} ELSE {}
<1> USE DEF Fields, Collect
<1>1. ReadPlan => read'.env = {StatPath(world, e.at) : e \in UNION {s.env : s \in plan.services}}
  BY DEF ReadPlan
<1>2. ReadSections => read'.reboot = IF plan.system THEN RebootRequired(world) ELSE "unknown"
  BY DEF ReadSections
<1>3. ReadHost => /\ read'.arch = world.uname /\ read'.memory = MemInfo(world)
                  /\ read'.filesystems = Filesystems(world)
  BY DEF ReadHost
<1>4. ProxyDone => read'.proxy = [kind |-> crawl.kind, names |-> config.names, ports |-> config.ports,
                                  state |-> ProxyState, noted |-> config.cut \/ Noted(crawl)]
  BY DEF ProxyDone
<1>5. /\ ReadPanels => read'.panels = Panels(world)
      /\ ReadJobs => read'.jobs = ScheduledTools(world)
      /\ ReadCertificates => read'.certificates = Certificates(world, read.jobs)
  BY DEF ReadPanels, ReadJobs, ReadCertificates
<1>6. /\ ReadBackups => read'.backup = [tools |-> world.backups.tools, locations |-> Locations(world)]
      /\ ReadDatabases => read'.databases = Databases(world, read.sockets)
      /\ ReadBinds => read'.binds = BindSources(world, Binds(plan), read.filesystems)
  BY DEF ReadBackups, ReadDatabases, ReadBinds
<1>7. ProbeRegistries => read'.registries = IF plan.egress
        THEN {[name |-> r, reached |-> r \in world.registries] : r \in RegistriesOf(plan)} ELSE {}
  BY DEF ProbeRegistries
<1>8. QED
  BY <1>1, <1>2, <1>3, <1>4, <1>5, <1>6, <1>7

-----------------------------------------------------------------------------
(***************************************************************************)
(* The inductive invariant: what was read was so at some moment.           *)
(***************************************************************************)

\* The host and the plan are of one family.
Known == \E f \in Families : plan \in f.plans /\ world \in f.hosts /\ before \in f.hosts

PlanRead == read.plan = plan

EnvSeen == \A e \in read.env : \E w \in Moments : \E f \in UNION {s.env : s \in plan.services} : e = StatPath(w, f.at)

RebootSeen == read.reboot = "yes" => \E w \in Moments : RebootRequired(w) = "yes"

ArchSeen == read.arch = None \/ \E w \in Moments : read.arch = w.uname

MemorySeen == read.memory.total = 0 \/ \E w \in Moments : read.memory = MemInfo(w)

MeasuredAt(measured) == measured = {} \/ \E w \in Moments : measured = Filesystems(w)

FilesystemsSeen == MeasuredAt(read.filesystems)

\* What an engine shows of its images.
ShownBy(e, w) ==
  /\ e.kind = w.engine.kind /\ e.compose = w.engine.compose
  /\ e.listed => e.images = {Shown(i) : i \in w.engine.images}
  /\ \A j \in e.images : \E i \in w.engine.images : j = Shown(i)

EngineSeen ==
  \/ phase \in {"plan", "sections", "host", "engine"} /\ read.engine.images = {}
  \/ \E w \in Moments : ShownBy(read.engine, w)

PanelsSeen == \A p \in read.panels : \E w \in Moments : \E q \in w.panels : p = DetectedPanel(w, q)

CertificatesSeen == \A c \in read.certificates : \E w \in Moments : \E jobs : c \in Certificates(w, jobs)

BackupSeen ==
  \/ phase \in {"plan", "sections", "host", "engine", "proxy", "crawl", "panels", "jobs", "certs", "backup"}
  \/ \E w \in Moments : read.backup.locations = Locations(w)

DatabasesSeen == \A d \in read.databases : \E w \in Moments : \E sockets : d \in Databases(w, sockets)

BindsSeen == \A b \in read.binds :
  \E w \in Moments : \E measured : MeasuredAt(measured) /\ b \in BindSources(w, Binds(plan), measured)

RegistriesSeen == \A r \in read.registries : \E w \in Moments : r.name \in w.registries <=> r.reached

\* What is told is what the rules make of what was read.
ToldIs == told.findings = {} \/ (phase = "told" /\ told.findings = Findings(read))

-----------------------------------------------------------------------------

\* The host that is read is one of the moments.
LEMMA Now == world \in Moments
BY DEF Moments

\* At first nothing was read, and nothing told.
LEMMA InitSeen ==
  ASSUME Init
  PROVE  /\ DOMAIN read = Fields /\ Known /\ PlanRead /\ EnvSeen /\ RebootSeen /\ ArchSeen /\ MemorySeen
         /\ FilesystemsSeen /\ EngineSeen /\ PanelsSeen /\ CertificatesSeen /\ BackupSeen /\ DatabasesSeen
         /\ BindsSeen /\ RegistriesSeen /\ ToldIs
<1>1. DOMAIN read = Fields
  BY DEF Init, Unread, Fields
<1>2. Known /\ PlanRead
  BY DEF Init, Unread, Known, PlanRead
<1>3. EnvSeen /\ RebootSeen /\ ArchSeen /\ MemorySeen /\ FilesystemsSeen /\ EngineSeen
  BY DEF Init, Unread, EnvSeen, RebootSeen, ArchSeen, MemorySeen, FilesystemsSeen, MeasuredAt, EngineSeen
<1>4. PanelsSeen /\ CertificatesSeen /\ BackupSeen /\ DatabasesSeen /\ BindsSeen /\ RegistriesSeen
  BY DEF Init, Unread, PanelsSeen, CertificatesSeen, BackupSeen, DatabasesSeen, BindsSeen, RegistriesSeen
<1>5. ToldIs
  BY DEF Init, Untold, ToldIs
<1>6. QED
  BY <1>1, <1>2, <1>3, <1>4, <1>5

\* A change stays within a family that has the plan, the host and what it becomes.
LEMMA KnownStays ==
  ASSUME Next, Known
  PROVE  Known'
<1>1. CASE Change
  BY <1>1 DEF Change, Known
<1>2. CASE ~Change
  BY <1>2, MomentsGrow DEF Known
<1>3. QED
  BY <1>1, <1>2

\* The input keeps its fields and its plan.
LEMMA PlanStays ==
  ASSUME Next, DOMAIN read = Fields, PlanRead
  PROVE  DOMAIN read' = Fields /\ PlanRead'
BY Written, MomentsGrow DEF PlanRead

\* os.Stat of an `env_file` is of the moment it is asked at.
LEMMA EnvStays ==
  ASSUME Next, DOMAIN read = Fields, EnvSeen
  PROVE  EnvSeen'
<1>1. CASE ReadPlan
  BY <1>1, Collected, MomentsGrow, Now DEF EnvSeen
<1>2. CASE ~ReadPlan
  BY <1>2, Written, MomentsGrow DEF EnvSeen
<1>3. QED
  BY <1>1, <1>2

\* The marker of a reboot is seen or not at one moment.
LEMMA RebootStays ==
  ASSUME Next, DOMAIN read = Fields, RebootSeen
  PROVE  RebootSeen'
<1>1. CASE ReadSections
  BY <1>1, Collected, MomentsGrow, Now DEF RebootSeen
<1>2. CASE ~ReadSections
  BY <1>2, Written, MomentsGrow DEF RebootSeen
<1>3. QED
  BY <1>1, <1>2

\* uname, /proc/meminfo and the measured filesystems are each of one moment.
LEMMA HostStays ==
  ASSUME Next, DOMAIN read = Fields, ArchSeen, MemorySeen, FilesystemsSeen
  PROVE  ArchSeen' /\ MemorySeen' /\ FilesystemsSeen'
<1>1. CASE ReadHost
  BY <1>1, Collected, MomentsGrow, Now DEF ArchSeen, MemorySeen, FilesystemsSeen, MeasuredAt
<1>2. CASE ~ReadHost
  BY <1>2, Written, MomentsGrow DEF ArchSeen, MemorySeen, FilesystemsSeen, MeasuredAt
<1>3. QED
  BY <1>1, <1>2

\* What is known of the hosts is so of every moment.
LEMMA Hosted ==
  ASSUME Known
  PROVE  \A w \in Moments : IsHost(w)
BY HostsTyped DEF Known, Moments

\* The engine's kind, its Compose and its images are of one moment.
LEMMA EngineStays ==
  ASSUME Next, DOMAIN read = Fields, Known, EngineSeen
  PROVE  EngineSeen'
<1>1. CASE ReadEngine
  <2> DEFINE e == world.engine
             images == IF e.answers /\ e.listed THEN {Shown(i) : i \in e.images} ELSE {}
             shown == [kind |-> e.kind, answers |-> e.answers, listed |-> e.answers /\ e.listed, compose |-> e.compose,
                       images |-> images]
  <2>1. IsEngine(e)
    BY Now, Hosted DEF IsHost
  <2>2. read'.engine = [e EXCEPT !.images = IF e.answers /\ e.listed THEN {Shown(i) : i \in @} ELSE {},
                                 !.listed = e.answers /\ @]
    BY <1>1 DEF ReadEngine, Collect, Fields
  <2>3. read'.engine = shown
    BY <2>1, <2>2 DEF IsEngine
  <2>4. ShownBy(shown, world)
    BY <2>1 DEF ShownBy, IsEngine
  <2>5. QED
    BY <2>3, <2>4, Now, MomentsGrow DEF EngineSeen
<1>2. CASE ~ReadEngine
  <2>1. read'.engine = read.engine
    BY <1>2, Written
  <2>2. CASE \E w \in Moments : ShownBy(read.engine, w)
    BY <2>1, <2>2, MomentsGrow DEF EngineSeen, ShownBy
  <2>3. CASE phase \in {"plan", "sections", "host", "engine"} /\ read.engine.images = {}
    <3>1. phase' \in {"plan", "sections", "host", "engine"}
      BY <1>2, <2>3 DEF Next, ReadPlan, ReadSections, ReadHost, AskProxy, ExpandPattern, VisitFile, ProxyDone, Walking,
         ReadPanels, ReadJobs, ReadCertificates, ReadBackups, ReadDatabases, ReadBinds, ProbeRegistries, Judge, Change, Collect
    <3>2. QED
      BY <2>1, <2>3, <3>1 DEF EngineSeen
  <2>4. QED
    BY <2>2, <2>3 DEF EngineSeen
<1>3. QED
  BY <1>1, <1>2

\* A panel that was detected left its traces at one moment.
LEMMA PanelsStay ==
  ASSUME Next, DOMAIN read = Fields, PanelsSeen
  PROVE  PanelsSeen'
<1>1. CASE ReadPanels
  BY <1>1, Collected, MomentsGrow, Now DEF PanelsSeen, Panels
<1>2. CASE ~ReadPanels
  BY <1>2, Written, MomentsGrow DEF PanelsSeen
<1>3. QED
  BY <1>1, <1>2

\* A certificate is one that a scan of some moment gives.
LEMMA CertificatesStay ==
  ASSUME Next, DOMAIN read = Fields, CertificatesSeen
  PROVE  CertificatesSeen'
<1>1. CASE ReadCertificates
  BY <1>1, Collected, MomentsGrow, Now DEF CertificatesSeen
<1>2. CASE ~ReadCertificates
  BY <1>2, Written, MomentsGrow DEF CertificatesSeen
<1>3. QED
  BY <1>1, <1>2

\* The backup locations are all of one moment.
LEMMA BackupStays ==
  ASSUME Next, DOMAIN read = Fields, BackupSeen
  PROVE  BackupSeen'
<1> DEFINE early == {"plan", "sections", "host", "engine", "proxy", "crawl", "panels", "jobs", "certs", "backup"}
<1>1. CASE ReadBackups
  BY <1>1, Collected, MomentsGrow, Now DEF BackupSeen
<1>2. CASE ~ReadBackups
  <2>1. read'.backup = read.backup
    BY <1>2, Written
  <2>2. CASE \E w \in Moments : read.backup.locations = Locations(w)
    BY <2>1, <2>2, MomentsGrow DEF BackupSeen
  <2>3. CASE phase \in early
    <3>1. phase' \in early
      BY <1>2, <2>3 DEF Next, ReadPlan, ReadSections, ReadHost, ReadEngine, AskProxy, ExpandPattern, VisitFile, ProxyDone,
         Walking, ReadPanels, ReadJobs, ReadCertificates, ReadDatabases, ReadBinds, ProbeRegistries, Judge, Change, Collect
    <3>2. QED
      BY <3>1 DEF BackupSeen
  <2>4. QED
    BY <2>2, <2>3 DEF BackupSeen
<1>3. QED
  BY <1>1, <1>2

\* A database is what some moment shows, with whatever sockets the ports section read.
LEMMA DatabasesStay ==
  ASSUME Next, DOMAIN read = Fields, DatabasesSeen
  PROVE  DatabasesSeen'
<1>1. CASE ReadDatabases
  BY <1>1, Collected, MomentsGrow, Now DEF DatabasesSeen
<1>2. CASE ~ReadDatabases
  BY <1>2, Written, MomentsGrow DEF DatabasesSeen
<1>3. QED
  BY <1>1, <1>2

\* A bind source is of one moment; the filesystem it is on, of one as early or earlier.
LEMMA BindsStay ==
  ASSUME Next, DOMAIN read = Fields, FilesystemsSeen, BindsSeen
  PROVE  BindsSeen'
<1>1. CASE ReadBinds
  <2>1. read'.binds = BindSources(world, Binds(plan), read.filesystems) /\ plan' = plan
    BY <1>1, Collected, MomentsGrow
  <2>2. read.filesystems = {} \/ \E w \in Moments' : read.filesystems = Filesystems(w)
    BY MomentsGrow DEF FilesystemsSeen, MeasuredAt
  <2>3. world \in Moments'
    BY MomentsGrow, Now
  <2>4. QED
    BY <2>1, <2>2, <2>3 DEF BindsSeen, MeasuredAt
<1>2. CASE ~ReadBinds
  BY <1>2, Written, MomentsGrow DEF BindsSeen, MeasuredAt
<1>3. QED
  BY <1>1, <1>2

\* A registry was reached or not at one moment.
LEMMA RegistriesStay ==
  ASSUME Next, DOMAIN read = Fields, RegistriesSeen
  PROVE  RegistriesSeen'
<1>1. CASE ProbeRegistries
  <2>1. \A r \in read'.registries : \E n : r = [name |-> n, reached |-> n \in world.registries]
    BY <1>1, Collected
  <2>2. \A r \in read'.registries : r.name \in world.registries <=> r.reached
    <3>1. ASSUME NEW r, NEW n, r = [name |-> n, reached |-> n \in world.registries]
          PROVE  r.name \in world.registries <=> r.reached
      BY <3>1, Zenon
    <3>2. QED
      BY <2>1, <3>1
  <2>3. world \in Moments'
    BY MomentsGrow, Now
  <2>4. QED
    BY <2>2, <2>3 DEF RegistriesSeen
<1>2. CASE ~ProbeRegistries
  BY <1>2, Written, MomentsGrow DEF RegistriesSeen
<1>3. QED
  BY <1>1, <1>2

\* What is told is never told over a later input.
LEMMA ToldStays ==
  ASSUME Next, DOMAIN read = Fields, ToldIs
  PROVE  ToldIs'
<1>1. CASE Judge
  BY <1>1 DEF Judge, ToldIs
<1>2. CASE ~Judge
  <2>1. told' = told
    BY <1>2, Written
  <2>2. phase # "told"
    BY <1>2 DEF Next, ReadPlan, ReadSections, ReadHost, ReadEngine, AskProxy, ExpandPattern, VisitFile, ProxyDone,
       Walking, ReadPanels, ReadJobs, ReadCertificates, ReadBackups, ReadDatabases, ReadBinds, ProbeRegistries, Judge,
       Change, Collect
  <2>3. QED
    BY <2>1, <2>2 DEF ToldIs
<1>3. QED
  BY <1>1, <1>2

-----------------------------------------------------------------------------
(***************************************************************************)
(* The configuration of the web server.                                    *)
(***************************************************************************)

ConfigFields == {"names", "ports", "cut"}

CrawlFields == {"kind", "base", "mapped", "todo", "visited", "files", "deep", "full", "oversize", "unreadable"}

\* The image of a finite set.
LEMMA ImageIsFinite ==
  ASSUME NEW S, IsFiniteSet(S), NEW g, g = [x \in S |-> g[x]]
  PROVE  IsFiniteSet({g[x] : x \in S})
<1>1. g \in Surjection(S, {g[x] : x \in S})
  BY DEF Surjection
<1>2. QED
  BY <1>1, FS_Surjection

\* A file configures finitely many names,
LEMMA NamesOfIsFinite ==
  ASSUME NEW f, IsFiniteSet(f.names)
  PROVE  IsFiniteSet(NamesOf(f))
<1> DEFINE g == [n \in f.names |-> [name |-> n, file |-> f.real]]
<1>1. IsFiniteSet({g[n] : n \in f.names})
  BY ImageIsFinite
<1>2. NamesOf(f) = {g[n] : n \in f.names}
  BY DEF NamesOf
<1>3. QED
  BY <1>1, <1>2

\* and so do finitely many files.
LEMMA NamesOfAllIsFinite ==
  ASSUME NEW files, IsFiniteSet(files), \A f \in files : IsFiniteSet(f.names)
  PROVE  IsFiniteSet(UNION {NamesOf(f) : f \in files})
<1> DEFINE g == [f \in files |-> NamesOf(f)]
<1>1. IsFiniteSet({g[f] : f \in files})
  BY ImageIsFinite
<1>2. {NamesOf(f) : f \in files} = {g[f] : f \in files}
  OBVIOUS
<1>3. \A T \in {NamesOf(f) : f \in files} : IsFiniteSet(T)
  BY NamesOfIsFinite
<1>4. QED
  BY <1>1, <1>2, <1>3, FS_UNION

\* What was gathered, within its bound.
Gathered(acc) ==
  DOMAIN acc = ConfigFields /\ IsFiniteSet(acc.names) /\ Cardinality(acc.names) <= MaxServerNames

\* addName keeps what there is and takes of what is found no more than there is room for.
LEMMA AddNamesIs ==
  ASSUME NEW acc, Gathered(acc), NEW found, IsFiniteSet(found)
  PROVE  /\ Gathered(AddNames(acc, found)) /\ AddNames(acc, found).ports = acc.ports
         /\ acc.names \subseteq AddNames(acc, found).names
         /\ AddNames(acc, found).names \subseteq acc.names \cup found
<1> DEFINE new  == SetToSeq(found \ acc.names)
           room == MaxServerNames - Cardinality(acc.names)
           k    == IF Len(new) < room THEN Len(new) ELSE room
           more == ToSet(SubSeq(new, 1, k))
<1>1. IsFiniteSet(found \ acc.names)
  BY FS_Difference
<1>2. new \in Seq(found \ acc.names) /\ Len(new) \in Nat
  BY <1>1, SetToSeqIs
<1>3. Cardinality(acc.names) \in Nat /\ MaxServerNames \in Nat /\ room \in Nat
  <2>1. Cardinality(acc.names) \in Nat
    BY FS_CardinalityType DEF Gathered
  <2>2. QED
    BY <2>1, WalkBoundsAreCounts DEF Gathered
<1> HIDE DEF new, room
<1>4. k \in Nat /\ k <= Len(new) /\ k <= room
  BY <1>2, <1>3
<1> HIDE DEF k
<1>5. more \subseteq found \ acc.names /\ IsFiniteSet(more) /\ Cardinality(more) <= k
  BY <1>2, <1>4, FirstOf
<1> HIDE DEF more
<1>6. /\ DOMAIN AddNames(acc, found) = ConfigFields /\ AddNames(acc, found).ports = acc.ports
      /\ AddNames(acc, found).names = acc.names \cup more
  BY DEF AddNames, Gathered, ConfigFields, new, room, k, more
<1>7. IsFiniteSet(acc.names \cup more) /\ Cardinality(acc.names \cup more) <= Cardinality(acc.names) + Cardinality(more)
  <2>1. IsFiniteSet(acc.names \cap more) /\ Cardinality(acc.names \cap more) \in Nat
    BY <1>5, FS_Intersection, FS_CardinalityType
  <2>2. IsFiniteSet(acc.names)
    BY DEF Gathered
  <2>3. Cardinality(acc.names \cup more) = Cardinality(acc.names) + Cardinality(more) - Cardinality(acc.names \cap more)
    BY <1>5, <2>2, FS_Union
  <2>4. IsFiniteSet(acc.names \cup more) /\ Cardinality(more) \in Nat
    BY <1>5, <2>2, FS_Union, FS_CardinalityType
  <2>5. QED
    BY <1>3, <2>1, <2>3, <2>4
<1>8. Cardinality(acc.names \cup more) <= MaxServerNames
  <2>1. Cardinality(more) \in Nat /\ Cardinality(acc.names \cup more) \in Nat
    BY <1>5, <1>7, FS_CardinalityType
  <2>2. QED
    BY <1>3, <1>4, <1>5, <1>7, <2>1 DEF room
<1>9. QED
  BY <1>5, <1>6, <1>7, <1>8 DEF Gathered

\* A file the server loads, or one the walk came to.
Came(c, w, f) ==
  f \in w.web.files /\ (f \in Effective(w.web, w.web[c.kind]) \/ (f.kind = "file" /\ f.real \in c.visited))

ServedPorts(kind, f) == ListenPorts(kind, f.listens \cup f.tail) \cup f.vhosts

ConfigSeen ==
  /\ Gathered(config)
  /\ \A p \in config.ports : \E w \in Moments : \E f \in w.web.files : Came(crawl, w, f) /\ p \in ServedPorts(crawl.kind, f)
  /\ \A n \in config.names : \E w \in Moments : \E f \in w.web.files : Came(crawl, w, f) /\ n.name \in f.names

KindSeen == crawl.kind \in {"nginx", "apache"} \/ (phase # "crawl" /\ config.ports = {} /\ config.names = {})

\* What is handed to the rules is what was gathered.
ProxySeen ==
  \/ read.proxy.ports = {} /\ read.proxy.names = {}
  \/ /\ phase \notin {"plan", "sections", "host", "engine", "proxy", "crawl"}
     /\ read.proxy.ports = config.ports /\ read.proxy.names = config.names

\* Nothing is within every bound.
LEMMA NothingGathered == Gathered(NoConfiguration) /\ NoConfiguration.ports = {} /\ NoConfiguration.names = {}
BY FS_EmptySet, WalkBoundsAreCounts DEF Gathered, NoConfiguration, ConfigFields

\* What a server loads are files.
LEMMA EffectiveIsFiles ==
  ASSUME NEW web, NEW s, IsFiniteSet(web.files)
  PROVE  Effective(web, s) \subseteq web.files /\ IsFiniteSet(Effective(web, s))
<1>1. Effective(web, s) \subseteq web.files
  BY DEF Effective
<1>2. QED
  BY <1>1, FS_Subset

\* What listens on a part of a file's sockets listens on the ports of that part.
LEMMA PortsOfPart ==
  ASSUME NEW kind, NEW f
  PROVE  ListenPorts(kind, f.listens) \subseteq ServedPorts(kind, f)
BY DEF ListenPorts, ServedPorts

\* A directive is read as nginx's or else as Apache's.
LEMMA NotNginx ==
  ASSUME NEW kind, kind # "nginx", NEW listens
  PROVE  ListenPorts(kind, listens) = ListenPorts("apache", listens)
BY DEF ListenPorts

\* The server's own answer is of the files it loads.
LEMMA DumpIs ==
  ASSUME NEW web, IsFiniteSet(web.files), \A f \in web.files : IsFile(f)
  PROVE  LET c == ParseNginxDump(web)
         IN  /\ Gathered(c)
             /\ \A p \in c.ports : \E f \in Effective(web, web.nginx) : p \in ServedPorts("nginx", f)
             /\ \A n \in c.names : \E f \in Effective(web, web.nginx) : n.name \in f.names
<1> DEFINE loaded == Effective(web, web.nginx)
           found  == UNION {NamesOf(f) : f \in loaded}
           ports  == UNION {ListenPorts("nginx", f.listens \cup f.tail) : f \in loaded}
           added  == AddNames(NoConfiguration, found)
<1>1. loaded \subseteq web.files /\ IsFiniteSet(loaded)
  BY EffectiveIsFiles
<1>2. IsFiniteSet(found)
  BY <1>1, NamesOfAllIsFinite DEF IsFile
<1>3. \A n \in found : \E f \in loaded : n.name \in f.names
  BY DEF NamesOf
<1> HIDE DEF found
<1>4. Gathered(added) /\ added.names \subseteq found
  BY <1>2, AddNamesIs, NothingGathered
<1>5. \A p \in ports : \E f \in loaded : p \in ServedPorts("nginx", f)
  BY DEF ServedPorts
<1>6. ParseNginxDump(web) = [added EXCEPT !.ports = ports]
  BY DEF ParseNginxDump, found
<1> HIDE DEF loaded, ports, added
<1>7. /\ Gathered([added EXCEPT !.ports = ports]) /\ [added EXCEPT !.ports = ports].ports = ports
      /\ [added EXCEPT !.ports = ports].names = added.names
  BY <1>4 DEF Gathered, ConfigFields
<1>8. QED
  BY <1>3, <1>4, <1>5, <1>6, <1>7 DEF loaded

\* The map is of the virtual hosts the server loads.
LEMMA MapIs ==
  ASSUME NEW web, IsFiniteSet(web.files), \A f \in web.files : IsFile(f)
  PROVE  LET c == ParseApacheVhostMap(web)
         IN  /\ Gathered(c)
             /\ \A p \in c.ports : \E f \in Effective(web, web.apache) : p \in ServedPorts("apache", f)
             /\ \A n \in c.names : \E f \in Effective(web, web.apache) : n.name \in f.names
<1> DEFINE hosts == {f \in Effective(web, web.apache) : f.vhosts # {}}
           found == UNION {NamesOf(f) : f \in hosts}
           ports == UNION {f.vhosts : f \in hosts}
           added == AddNames(NoConfiguration, found)
<1>1. hosts \subseteq Effective(web, web.apache) /\ hosts \subseteq web.files /\ IsFiniteSet(hosts)
  BY EffectiveIsFiles, FS_Subset
<1>2. IsFiniteSet(found)
  BY <1>1, NamesOfAllIsFinite DEF IsFile
<1>3. \A n \in found : \E f \in hosts : n.name \in f.names
  BY DEF NamesOf
<1> HIDE DEF found
<1>4. Gathered(added) /\ added.names \subseteq found
  BY <1>2, AddNamesIs, NothingGathered
<1>5. \A p \in ports : \E f \in hosts : p \in ServedPorts("apache", f)
  BY DEF ServedPorts
<1>6. ParseApacheVhostMap(web) = [added EXCEPT !.ports = ports]
  BY DEF ParseApacheVhostMap, found
<1> HIDE DEF hosts, ports, added
<1>7. /\ Gathered([added EXCEPT !.ports = ports]) /\ [added EXCEPT !.ports = ports].ports = ports
      /\ [added EXCEPT !.ports = ports].names = added.names
  BY <1>4 DEF Gathered, ConfigFields
<1>8. QED
  BY <1>1, <1>3, <1>4, <1>5, <1>6, <1>7

\* One file of the walk adds its own names and ports.
LEMMA ScanIs ==
  ASSUME NEW f, IsFiniteSet(f.names), Gathered(config)
  PROVE  /\ Gathered(Scan(f))
         /\ Scan(f).ports \subseteq config.ports \cup ServedPorts(crawl.kind, f)
         /\ \A n \in Scan(f).names : n \in config.names \/ n.name \in f.names
         /\ config.ports \subseteq Scan(f).ports
<1> DEFINE added == AddNames(config, NamesOf(f))
<1>1. /\ Gathered(added) /\ added.ports = config.ports
      /\ \A n \in added.names : n \in config.names \/ n.name \in f.names
  BY AddNamesIs, NamesOfIsFinite DEF NamesOf
<1> HIDE DEF added
<1>2. CASE crawl.kind = "nginx"
  <2>1. Scan(f) = [added EXCEPT !.ports = @ \cup ListenPorts("nginx", f.listens)]
    BY <1>2 DEF Scan, ScanNginxFile, added
  <2>2. /\ Gathered(Scan(f)) /\ Scan(f).ports = config.ports \cup ListenPorts("nginx", f.listens)
        /\ Scan(f).names = added.names
    BY <1>1, <2>1 DEF Gathered, ConfigFields
  <2>3. QED
    BY <1>1, <1>2, <2>2, PortsOfPart
<1>3. CASE crawl.kind # "nginx"
  <2> DEFINE kept == IF crawl.mapped THEN config ELSE added
  <2>1. Scan(f) = [kept EXCEPT !.ports = @ \cup ListenPorts("apache", f.listens) \cup f.vhosts]
    BY <1>3 DEF Scan, ScanApacheConfig, added
  <2>2. /\ Gathered(kept) /\ kept.ports = config.ports
        /\ \A n \in kept.names : n \in config.names \/ n.name \in f.names
    BY <1>1
  <2> HIDE DEF kept
  <2>3. /\ Gathered(Scan(f)) /\ Scan(f).ports = config.ports \cup ListenPorts("apache", f.listens) \cup f.vhosts
        /\ Scan(f).names = kept.names
    BY <2>1, <2>2 DEF Gathered, ConfigFields
  <2>4. ListenPorts("apache", f.listens) \subseteq ServedPorts(crawl.kind, f) /\ f.vhosts \subseteq ServedPorts(crawl.kind, f)
    BY <1>3, NotNginx, PortsOfPart DEF ServedPorts
  <2>5. QED
    BY <2>2, <2>3, <2>4
<1>4. QED
  BY <1>2, <1>3

\* walk: what was visited stays visited.
LEMMA ExpandIs ==
  ASSUME NEW web, NEW c, DOMAIN c = CrawlFields
  PROVE  LET d == ExpandNext(web, c)
         IN  /\ DOMAIN d = CrawlFields /\ d.kind = c.kind /\ d.mapped = c.mapped /\ d.visited = c.visited
             /\ d.files = c.files
BY DEF ExpandNext, CrawlFields

\* file: a file that is scanned is visited.
LEMMA VisitIs ==
  ASSUME NEW web, NEW c, DOMAIN c = CrawlFields, \A f, g \in web.files : f.path = g.path => f = g
  PROVE  LET d == VisitNext(web, c)
         IN  /\ DOMAIN d = CrawlFields /\ d.kind = c.kind /\ d.mapped = c.mapped /\ c.visited \subseteq d.visited
             /\ \A f \in Scanned(web, c) : f \in web.files /\ f.kind = "file" /\ f.real \in d.visited
<1> DEFINE item  == Head(c.todo)
           path  == item.pattern.at
           there == NodesAt(web, path)
           g     == CHOOSE h \in there : TRUE
           real  == IF there = {} \/ g.access = "denied" THEN path ELSE g.real
           rest  == [c EXCEPT !.todo = Tail(@), !.visited = @ \cup {real}]
           d     == VisitNext(web, c)
<1>1. DOMAIN rest = CrawlFields /\ rest.kind = c.kind /\ rest.mapped = c.mapped /\ rest.visited = c.visited \cup {real}
  BY DEF CrawlFields
<1>2. DOMAIN d = CrawlFields /\ d.kind = c.kind /\ d.mapped = c.mapped /\ d.visited = c.visited \cup {real}
  <2> DEFINE more(patterns) == [i \in DOMAIN patterns |-> Walk(patterns[i], item.depth + 1)]
  <2>1. d = IF real \in c.visited \/ there = {} THEN rest
            ELSE IF g.access = "denied" THEN [rest EXCEPT !.unreadable = @ \cup {path}]
            ELSE IF g.kind = "dir" THEN [rest EXCEPT !.todo = more(<<Pattern(path, TRUE, "conf")>>) \o @]
            ELSE IF c.files >= MaxWalkFiles THEN [rest EXCEPT !.full = TRUE]
            ELSE IF g.access = "stat" THEN [rest EXCEPT !.files = @ + 1, !.unreadable = @ \cup {path}]
            ELSE [rest EXCEPT !.files = @ + 1, !.oversize = @ \/ g.tail # {}, !.todo = more(g.includes) \o @]
    BY DEF VisitNext
  <2> HIDE DEF rest, real, there, more, d, path, item, g
  <2>2. QED
    BY <1>1, <2>1 DEF CrawlFields
<1>3. \A f \in Scanned(web, c) : f \in web.files /\ f.kind = "file" /\ f.real \in d.visited
  <2> SUFFICES ASSUME NEW f \in Scanned(web, c)
               PROVE  f \in web.files /\ f.kind = "file" /\ f.real \in d.visited
    OBVIOUS
  <2>1. f \in there /\ f \in web.files /\ f.path = path /\ f.kind = "file" /\ f.access = "read"
    BY DEF Scanned, NodesAt
  <2>2. g \in there
    BY <2>1
  <2>3. g = f
    BY <2>1, <2>2 DEF NodesAt
  <2>4. real = f.real
    BY <2>1, <2>3
  <2>5. QED
    BY <1>2, <2>1, <2>4
<1>4. QED
  BY <1>2, <1>3

\* A new walk has visited nothing and counted nothing.
LEMMA NewCrawlerIs ==
  ASSUME NEW kind, NEW base, NEW mapped, NEW todo
  PROVE  LET c == NewCrawler(kind, base, mapped, todo)
         IN  DOMAIN c = CrawlFields /\ c.kind = kind /\ c.visited = {} /\ c.todo = todo /\ c.mapped = mapped /\ c.files = 0
BY DEF NewCrawler, CrawlFields

\* What the proxy is asked.
LEMMA Asked ==
  ASSUME AskProxy
  PROVE  \/ /\ crawl'.kind = "nginx" /\ DOMAIN crawl' = CrawlFields
            /\ config' \in {NoConfiguration, ParseNginxDump(world.web)}
         \/ /\ crawl'.kind = "apache" /\ DOMAIN crawl' = CrawlFields
            /\ config' \in {NoConfiguration, ParseApacheVhostMap(world.web)}
         \/ crawl' = crawl /\ config' = config /\ phase' = "panels"
<1> DEFINE n == world.web.nginx
           a == world.web.apache
<1>1. CASE Present(n) /\ Answers(n)
  <2>1. crawl' = [NoCrawl EXCEPT !.kind = "nginx", !.mapped = TRUE] /\ config' = ParseNginxDump(world.web)
    BY <1>1 DEF AskProxy
  <2>2. DOMAIN NoCrawl = CrawlFields
    BY DEF NoCrawl, NewCrawler, CrawlFields
  <2>3. QED
    BY <2>1, <2>2 DEF CrawlFields
<1>2. CASE Present(n) /\ ~Answers(n)
  <2>1. crawl' = WalkNginxTree(n) /\ config' = NoConfiguration
    BY <1>2 DEF AskProxy
  <2>2. \E base, todo : WalkNginxTree(n) = NewCrawler("nginx", base, FALSE, todo)
    BY DEF WalkNginxTree
  <2>3. PICK base, todo : WalkNginxTree(n) = NewCrawler("nginx", base, FALSE, todo)
    BY <2>2
  <2>4. QED
    BY <2>1, <2>3 DEF NewCrawler, CrawlFields
<1>3. CASE ~Present(n) /\ Present(a)
  BY <1>3, NewCrawlerIs DEF AskProxy, WalkApacheTree
<1>4. CASE ~Present(n) /\ ~Present(a)
  BY <1>4 DEF AskProxy
<1>5. QED
  BY <1>1, <1>2, <1>3, <1>4

\* What a step gathers is of a file that it came to, on the host as it was then.
LEMMA ConfigStays ==
  ASSUME Next, DOMAIN read = Fields, DOMAIN crawl = CrawlFields, Known, ConfigSeen
  PROVE  DOMAIN crawl' = CrawlFields /\ ConfigSeen'
<1>1. CASE crawl' = crawl /\ config' = config
  BY <1>1, MomentsGrow DEF ConfigSeen, Came
<1>2. IsHost(world) /\ world \in Moments'
  BY Now, Hosted, MomentsGrow
<1>3. IsFiniteSet(world.web.files) /\ (\A f \in world.web.files : IsFile(f))
      /\ \A f, g \in world.web.files : f.path = g.path => f = g
  BY <1>2 DEF IsHost, IsWeb
<1>4. CASE /\ crawl'.kind = "nginx" /\ DOMAIN crawl' = CrawlFields
           /\ config' \in {NoConfiguration, ParseNginxDump(world.web)}
  <2>1. /\ Gathered(config')
        /\ \A p \in config'.ports : \E f \in Effective(world.web, world.web.nginx) : p \in ServedPorts("nginx", f)
        /\ \A m \in config'.names : \E f \in Effective(world.web, world.web.nginx) : m.name \in f.names
    BY <1>3, <1>4, NothingGathered, DumpIs
  <2>2. \A f \in Effective(world.web, world.web.nginx) : f \in world.web.files /\ Came(crawl', world, f)
    BY <1>3, <1>4, EffectiveIsFiles DEF Came
  <2>3. QED
    BY <1>2, <1>4, <2>1, <2>2 DEF ConfigSeen
<1>5. CASE /\ crawl'.kind = "apache" /\ DOMAIN crawl' = CrawlFields
           /\ config' \in {NoConfiguration, ParseApacheVhostMap(world.web)}
  <2>1. /\ Gathered(config')
        /\ \A p \in config'.ports : \E f \in Effective(world.web, world.web.apache) : p \in ServedPorts("apache", f)
        /\ \A m \in config'.names : \E f \in Effective(world.web, world.web.apache) : m.name \in f.names
    BY <1>3, <1>5, NothingGathered, MapIs
  <2>2. \A f \in Effective(world.web, world.web.apache) : f \in world.web.files /\ Came(crawl', world, f)
    BY <1>3, <1>5, EffectiveIsFiles DEF Came
  <2>3. QED
    BY <1>2, <1>5, <2>1, <2>2 DEF ConfigSeen
<1>6. CASE ExpandPattern
  <2>1. DOMAIN crawl' = CrawlFields /\ crawl'.kind = crawl.kind /\ crawl'.visited = crawl.visited /\ config' = config
    BY <1>6, ExpandIs DEF ExpandPattern
  <2>2. QED
    BY <2>1, MomentsGrow DEF ConfigSeen, Came
<1>7. CASE VisitFile
  <2>1. /\ DOMAIN crawl' = CrawlFields /\ crawl'.kind = crawl.kind /\ crawl.visited \subseteq crawl'.visited
        /\ \A f \in Scanned(world.web, crawl) : f \in world.web.files /\ f.kind = "file" /\ f.real \in crawl'.visited
    BY <1>3, <1>7, VisitIs DEF VisitFile
  <2>2. /\ \A p \in config.ports : \E w \in Moments' : \E f \in w.web.files :
             Came(crawl', w, f) /\ p \in ServedPorts(crawl'.kind, f)
        /\ \A n \in config.names : \E w \in Moments' : \E f \in w.web.files : Came(crawl', w, f) /\ n.name \in f.names
    BY <2>1, MomentsGrow DEF ConfigSeen, Came
  <2>3. CASE Scanned(world.web, crawl) = {}
    BY <1>7, <2>1, <2>2, <2>3 DEF VisitFile, ConfigSeen
  <2>4. ASSUME NEW f \in Scanned(world.web, crawl), config' = Scan(f)
        PROVE  ConfigSeen'
    <3>1. Came(crawl', world, f) /\ f \in world.web.files /\ IsFiniteSet(f.names)
      BY <1>3, <2>1 DEF Came, IsFile
    <3>2. /\ Gathered(config') /\ config'.ports \subseteq config.ports \cup ServedPorts(crawl'.kind, f)
          /\ \A n \in config'.names : n \in config.names \/ n.name \in f.names
      BY <2>1, <2>4, <3>1, ScanIs DEF ConfigSeen
    <3>3. QED
      BY <1>2, <2>2, <3>1, <3>2 DEF ConfigSeen
  <2>5. CASE Scanned(world.web, crawl) # {}
    <3> DEFINE f == CHOOSE h \in Scanned(world.web, crawl) : TRUE
    <3>1. f \in Scanned(world.web, crawl) /\ config' = Scan(f)
      BY <1>7, <2>5 DEF VisitFile
    <3> HIDE DEF f
    <3>2. QED
      BY <2>1, <2>4, <3>1
  <2>6. QED
    BY <2>1, <2>3, <2>4, <2>5
<1>8. QED
  BY <1>1, <1>4, <1>5, <1>6, <1>7, Written, Asked

\* Nothing is gathered before it is known which server it is of.
LEMMA KindStays ==
  ASSUME Next, DOMAIN read = Fields, DOMAIN crawl = CrawlFields, Known, KindSeen
  PROVE  KindSeen'
<1>1. CASE crawl' = crawl /\ config' = config /\ phase' = "panels"
  BY <1>1 DEF KindSeen
<1>2. CASE AskProxy /\ crawl'.kind \in {"nginx", "apache"}
  BY <1>2 DEF KindSeen
<1>3. CASE ExpandPattern \/ VisitFile
  <2>1. phase = "crawl"
    BY <1>3 DEF ExpandPattern, VisitFile, Walking
  <2>2. CASE ExpandPattern
    BY <2>1, <2>2, ExpandIs DEF ExpandPattern, KindSeen
  <2>3. CASE VisitFile
    <3>1. \A f, g \in world.web.files : f.path = g.path => f = g
      BY Now, Hosted DEF IsHost, IsWeb
    <3>2. crawl'.kind = crawl.kind
      BY <2>3, <3>1, VisitIs DEF VisitFile
    <3>3. QED
      BY <2>1, <3>2 DEF KindSeen
  <2>4. QED
    BY <1>3, <2>2, <2>3
<1>4. CASE ~(AskProxy \/ ExpandPattern \/ VisitFile)
  <2>1. crawl' = crawl /\ config' = config
    BY <1>4, Written
  <2>2. phase # "crawl" => phase' # "crawl"
    BY <1>4 DEF Next, ReadPlan, ReadSections, ReadHost, ReadEngine, ProxyDone,
       ReadPanels, ReadJobs, ReadCertificates, ReadBackups, ReadDatabases, ReadBinds, ProbeRegistries, Judge, Change, Collect
  <2>3. QED
    BY <2>1, <2>2 DEF KindSeen
<1>5. QED
  BY <1>1, <1>2, <1>3, <1>4, Asked

\* The configuration is handed on once, when the walk is over.
LEMMA ProxyStays ==
  ASSUME Next, DOMAIN read = Fields, ProxySeen
  PROVE  ProxySeen'
<1> DEFINE early == {"plan", "sections", "host", "engine", "proxy", "crawl"}
<1>1. CASE ProxyDone
  <2>1. read'.proxy.ports = config.ports /\ read'.proxy.names = config.names
    BY <1>1, Collected
  <2>2. phase' = "panels" /\ config' = config
    BY <1>1 DEF ProxyDone, Collect
  <2>3. QED
    BY <2>1, <2>2 DEF ProxySeen
<1>2. CASE ~ProxyDone
  <2>1. read'.proxy = read.proxy
    BY <1>2, Written
  <2>2. CASE phase \notin early
    <3>1. phase' \notin early /\ config' = config
      BY <2>2 DEF Next, ReadPlan, ReadSections, ReadHost, ReadEngine, AskProxy, ExpandPattern, VisitFile, ProxyDone, Walking,
         ReadPanels, ReadJobs, ReadCertificates, ReadBackups, ReadDatabases, ReadBinds, ProbeRegistries, Judge, Change, Collect
    <3>2. QED
      BY <2>1, <3>1 DEF ProxySeen
  <2>3. CASE phase \in early
    BY <2>1, <2>3 DEF ProxySeen
  <2>4. QED
    BY <2>2, <2>3
<1>3. QED
  BY <1>1, <1>2

-----------------------------------------------------------------------------

Seen ==
  /\ DOMAIN read = Fields /\ Known /\ PlanRead
  /\ EnvSeen /\ RebootSeen /\ ArchSeen /\ MemorySeen /\ FilesystemsSeen /\ EngineSeen /\ PanelsSeen /\ CertificatesSeen
  /\ BackupSeen /\ DatabasesSeen /\ BindsSeen /\ RegistriesSeen
  /\ DOMAIN crawl = CrawlFields /\ ConfigSeen /\ KindSeen /\ ProxySeen
  /\ ToldIs

\* The invariant holds at first,
LEMMA SeenFirst == Init => Seen
<1> SUFFICES ASSUME Init PROVE Seen
  OBVIOUS
<1>1. DOMAIN crawl = CrawlFields
  BY DEF Init, NoCrawl, NewCrawler, CrawlFields
<1>2. ConfigSeen
  BY NothingGathered DEF Init, ConfigSeen
<1>3. ProxySeen /\ KindSeen
  BY NothingGathered DEF Init, Unread, NoProxy, ProxySeen, KindSeen
<1>4. QED
  BY <1>1, <1>2, <1>3, InitSeen DEF Seen

\* and every step keeps it.
LEMMA SeenStays == Seen /\ [Next]_vars => Seen'
<1> SUFFICES ASSUME Seen, [Next]_vars PROVE Seen'
  OBVIOUS
<1>1. CASE Next
  <2>1. DOMAIN read' = Fields /\ Known' /\ PlanRead'
    BY <1>1, KnownStays, PlanStays DEF Seen
  <2>2. EnvSeen' /\ RebootSeen' /\ ArchSeen' /\ MemorySeen' /\ FilesystemsSeen'
    BY <1>1, EnvStays, RebootStays, HostStays DEF Seen
  <2>3. EngineSeen' /\ PanelsSeen' /\ CertificatesSeen' /\ BackupSeen'
    BY <1>1, EngineStays, PanelsStay, CertificatesStay, BackupStays DEF Seen
  <2>4. DatabasesSeen' /\ BindsSeen' /\ RegistriesSeen'
    BY <1>1, DatabasesStay, BindsStay, RegistriesStay DEF Seen
  <2>5. DOMAIN crawl' = CrawlFields /\ ConfigSeen' /\ KindSeen' /\ ProxySeen' /\ ToldIs'
    BY <1>1, ConfigStays, KindStays, ProxyStays, ToldStays DEF Seen
  <2>6. QED
    BY <2>1, <2>2, <2>3, <2>4, <2>5 DEF Seen
<1>2. CASE UNCHANGED vars
  BY <1>2 DEF vars, Seen, Known, PlanRead, EnvSeen, RebootSeen, ArchSeen, MemorySeen, FilesystemsSeen, MeasuredAt, EngineSeen,
     PanelsSeen, CertificatesSeen, BackupSeen, DatabasesSeen, BindsSeen, RegistriesSeen, ConfigSeen, KindSeen, ProxySeen, ToldIs, Moments
<1>3. QED
  BY <1>1, <1>2

\* So whatever was read was so at some moment.
LEMMA AlwaysSeen == Spec => []Seen
BY SeenFirst, SeenStays, PTL DEF Spec

-----------------------------------------------------------------------------
(***************************************************************************)
(* A problem that is stated was there, rule by rule.                       *)
(***************************************************************************)

\* The finding is about a subject that was in trouble.
InCase(f) == \E a, b \in Moments : f.subject \in InTrouble(a, b)[f.rule]

\* Nothing, or one subject.
LEMMA IfIs == ASSUME NEW condition PROVE None \in If(condition) <=> condition
BY DEF If

\* Too little memory is available at one of the moments.
LEMMA MemoryTrue ==
  ASSUME Seen, NEW f \in MemoryShortfall(read), f.outcome = "problem"
  PROVE  InCase(f)
<1>1. read.memory.total # 0 /\ ~(Need(plan) <= read.memory.available) /\ f.rule = "memory" /\ f.subject = None
  BY DEF MemoryShortfall, Problem, Finding, Seen, PlanRead
<1>2. PICK w \in Moments : read.memory = MemInfo(w)
  BY <1>1 DEF Seen, MemorySeen
<1>3. IsMemory(w.memory)
  BY Hosted DEF Seen, IsHost
<1>4. read.memory = w.memory
  BY <1>1, <1>2, <1>3 DEF MemInfo, IsMemory
<1>5. InTrouble(w, w).memory = If(~(Need(plan) <= w.memory.available))
  BY DEF InTrouble
<1>6. QED
  BY <1>1, <1>4, <1>5, IfIs DEF InCase

\* A filesystem is full at the moment it is measured.
LEMMA PressureTrue ==
  ASSUME Seen, NEW f \in DiskPressure(read), f.outcome = "problem"
  PROVE  InCase(f)
<1>1. PICK m \in read.filesystems : ~m.readOnly /\ UsedPercent(m) >= 90 /\ f.rule = "pressure" /\ f.subject = m.at
  BY DEF DiskPressure, Problem, Finding
<1>2. PICK w \in Moments : read.filesystems = Filesystems(w)
  BY <1>1 DEF Seen, FilesystemsSeen, MeasuredAt
<1>3. m \in Mounted(w)
  BY <1>1, <1>2 DEF Filesystems, Mounted
<1>4. InTrouble(w, w).pressure = {n.at : n \in {x \in Mounted(w) : ~x.readOnly /\ UsedPercent(x) >= 90}}
  BY DEF InTrouble
<1>5. QED
  BY <1>1, <1>3, <1>4 DEF InCase

\* The engine or its Compose is absent when it is asked for.
LEMMA RuntimeTrue ==
  ASSUME Seen, phase = "told", NEW f \in RuntimeVersion(read), f.outcome = "problem"
  PROVE  InCase(f)
<1>1. (read.engine.kind = "none" \/ read.engine.compose # "plugin") /\ f.rule = "runtime" /\ f.subject = None
  BY DEF RuntimeVersion, Problem, Unknown, Finding
<1>2. PICK w \in Moments : ShownBy(read.engine, w)
  BY DEF Seen, EngineSeen
<1>3. InTrouble(w, w).runtime = If(w.engine.kind = "none" \/ w.engine.compose # "plugin")
  BY DEF InTrouble
<1>4. QED
  BY <1>1, <1>2, <1>3, IfIs DEF InCase, ShownBy

\* A registry is out of reach when it is probed.
LEMMA RegistryTrue ==
  ASSUME Seen, NEW f \in RegistryReachability(read), f.outcome = "problem"
  PROVE  InCase(f)
<1>1. PICK r \in read.registries : r.name \in RegistriesOf(plan) /\ ~r.reached /\ f.rule = "registry" /\ f.subject = r.name
  BY DEF RegistryReachability, Problem, Finding, Seen, PlanRead
<1>2. PICK w \in Moments : r.name \in w.registries <=> r.reached
  BY DEF Seen, RegistriesSeen
<1>3. InTrouble(w, w).registry = RegistriesOf(plan) \ w.registries
  BY DEF InTrouble
<1>4. QED
  BY <1>1, <1>2, <1>3 DEF InCase

\* The marker of a reboot is there, and it is there only when one is needed.
LEMMA RebootTrue ==
  ASSUME Seen, NEW f \in RebootPending(read), f.outcome = "problem"
  PROVE  InCase(f)
<1>1. read.reboot = "yes" /\ f.rule = "reboot" /\ f.subject = None
  BY DEF RebootPending, Problem, Finding
<1>2. PICK w \in Moments : RebootRequired(w) = "yes"
  BY <1>1 DEF Seen, RebootSeen
<1>3. w.reboot.needed
  BY <1>2, Hosted DEF Seen, IsHost, RebootRequired
<1>4. InTrouble(w, w).reboot = If(w.reboot.needed)
  BY DEF InTrouble
<1>5. QED
  BY <1>1, <1>3, <1>4, IfIs DEF InCase

\* What is found at a path is there, or the path is missing.
LEMMA StatPathIs ==
  ASSUME NEW w, NEW at
  PROVE  StatPath(w, at).at = at /\ (StatPath(w, at) \in w.paths \/ StatPath(w, at).state = "missing")
BY DEF StatPath

\* A file of `env_file` that has to be there is not.
LEMMA EnvTrue ==
  ASSUME Seen, NEW f \in MissingEnvFiles(read), f.outcome = "problem"
  PROVE  InCase(f)
<1>1. PICK e \in read.env, g \in UNION {s.env : s \in plan.services} :
        /\ e.state # "there" /\ e.state # "denied" /\ g.at = e.at /\ ~g.optional
        /\ f.rule = "env" /\ f.subject = e.at
  BY DEF MissingEnvFiles, Problem, Unknown, Finding, Seen, PlanRead
<1>2. PICK w \in Moments, h \in UNION {t.env : t \in plan.services} : e = StatPath(w, h.at)
  BY DEF Seen, EnvSeen
<1>3. e = StatPath(w, g.at) /\ e.state \in {"missing", "dangling"}
  BY <1>1, <1>2, StatPathIs, Hosted DEF Seen, IsHost
<1>4. InTrouble(w, w).env = {x.at : x \in {y \in UNION {t.env : t \in plan.services} :
                               ~y.optional /\ StatPath(w, y.at).state \in {"missing", "dangling"}}}
  BY DEF InTrouble
<1>5. QED
  BY <1>1, <1>3, <1>4 DEF InCase

\* The certificates that are opened are among those there are.
LEMMA GatheredAreThere ==
  ASSUME NEW w, IsFiniteSet(w.certs)
  PROVE  /\ GatherFiles(w) \subseteq w.certs /\ IsFiniteSet(GatherFiles(w))
         /\ Cardinality(GatherFiles(w)) \in Nat /\ Cardinality(GatherFiles(w)) <= MaxCertFiles
<1> DEFINE S == {c \in w.certs : c.candidate /\ ~c.deep /\ c.access # "unlisted"}
           found == SetToSeq(S)
           k == IF Len(found) < MaxCertFiles THEN Len(found) ELSE MaxCertFiles
<1>1. IsFiniteSet(S) /\ S \subseteq w.certs
  BY FS_Subset
<1> HIDE DEF S
<1>2. found \in Seq(S) /\ Len(found) \in Nat
  BY <1>1, SetToSeqIs
<1>3. k \in Nat /\ k <= Len(found) /\ k <= MaxCertFiles
  BY <1>2, MaxCertFilesIsACount
<1>4. GatherFiles(w) = ToSet(SubSeq(found, 1, k))
  BY DEF GatherFiles, S
<1> HIDE DEF found, k
<1>5. /\ GatherFiles(w) \subseteq S /\ IsFiniteSet(GatherFiles(w)) /\ Cardinality(GatherFiles(w)) <= k
  BY <1>2, <1>3, <1>4, FirstOf
<1>6. Cardinality(GatherFiles(w)) \in Nat
  BY <1>5, FS_CardinalityType
<1>7. QED
  BY <1>1, <1>3, <1>5, <1>6, MaxCertFilesIsACount

\* A certificate that was read and dated runs out.
LEMMA CertificateTrue ==
  ASSUME Seen, NEW f \in CertificateExpiry(read), f.outcome = "problem"
  PROVE  InCase(f)
<1>1. PICK c \in read.certificates : c.dated /\ c.days <= 30 /\ f.rule = "certificate" /\ f.subject = c.path
  BY DEF CertificateExpiry, Problem, Finding
<1>2. PICK w \in Moments : \E jobs : c \in Certificates(w, jobs)
  BY DEF Seen, CertificatesSeen
<1>3. IsHost(w)
  BY Hosted DEF Seen
<1>4. PICK d \in w.certs : \E tools : c \in Certificate(w, d, tools)
  BY <1>2, <1>3, GatheredAreThere DEF Certificates, IsHost
<1>5. d.holds \in {"certificate", "key", "garbage"}
  BY <1>3 DEF IsHost
<1>6. d.holds = "certificate" /\ ~d.trustStore /\ c.days = d.days /\ c.path = d.path
  BY <1>1, <1>4, <1>5 DEF Certificate
<1>7. InTrouble(w, w).certificate =
        {x.path : x \in {y \in w.certs : y.holds = "certificate" /\ ~y.trustStore /\ y.days <= 30}}
  BY DEF InTrouble
<1>8. QED
  BY <1>1, <1>6, <1>7 DEF InCase

\* Where every filesystem can be measured, those that were are those that are mounted.
LEMMA AllMeasured ==
  ASSUME Seen, ~Unmeasured, NEW w \in Moments
  PROVE  Filesystems(w) = Mounted(w)
<1>1. \A m \in Mounted(w) : m.measured /\ m.total # 0
  BY DEF Unmeasured
<1>2. \A m \in w.mounts : m.total \in Nat
  BY Hosted DEF Seen, IsHost, IsMount
<1>3. QED
  BY <1>1, <1>2 DEF Filesystems, Mounted

\* An image is shown under its own name, and with an architecture only if it has it.
LEMMA ShownIs ==
  ASSUME NEW i, IsImage(i)
  PROVE  Shown(i).ref = i.ref /\ (Shown(i).arch # None => Shown(i).arch = i.arch)
<1>1. CASE i.inspected
  BY <1>1 DEF Shown
<1>2. CASE ~i.inspected
  <2>1. Shown(i) = [ref |-> i.ref, arch |-> None, user |-> [kind |-> "number", uid |-> 0, gid |-> None],
                    inspected |-> i.inspected]
    BY <1>2 DEF Shown, IsImage
  <2>2. QED
    BY <2>1
<1>3. QED
  BY <1>1, <1>2

\* An image is missing at one moment and the room for it at another.
LEMMA DiskTrue ==
  ASSUME Seen, phase = "told", NEW f \in DiskShortfall(read), f.outcome = "problem"
  PROVE  f.rule = "disk" /\ (InCase(f) \/ ~read.engine.listed \/ Unmeasured)
<1>1. /\ f.rule = "disk" /\ f.subject = None
      /\ DeploymentFilesystem(read) # {} /\ MissingImages(read) # {}
      /\ \A m \in DeploymentFilesystem(read) : ~(m.available >= MinimumHeadroom)
  BY DEF DiskShortfall, Problem, Finding
<1>2. SUFFICES ASSUME read.engine.listed, ~Unmeasured
               PROVE  InCase(f)
  BY <1>1
<1>3. PICK b \in Moments : ShownBy(read.engine, b)
  BY DEF Seen, EngineSeen
<1>4. PICK m \in DeploymentFilesystem(read) : ~(m.available >= MinimumHeadroom)
  BY <1>1
<1>5. PICK a \in Moments : read.filesystems = Filesystems(a)
  BY <1>4 DEF DeploymentFilesystem, FilesystemFor, Seen, FilesystemsSeen, MeasuredAt
<1>6. m \in FilesystemFor(StoreRoot(b.engine), Mounted(a)) /\ m.available \in Nat
  <2>1. read.filesystems = Mounted(a)
    BY <1>2, <1>5, AllMeasured
  <2>2. StoreRoot(read.engine) = StoreRoot(b.engine)
    BY <1>3 DEF ShownBy, StoreRoot
  <2>3. m \in FilesystemFor(StoreRoot(b.engine), Mounted(a))
    BY <1>4, <2>1, <2>2 DEF DeploymentFilesystem
  <2>4. m \in a.mounts
    BY <2>3 DEF FilesystemFor, Mounted
  <2>5. QED
    BY <2>3, <2>4, Hosted DEF Seen, IsHost, IsMount
<1>7. PICK s \in Pulled(plan) : \A i \in read.engine.images : i.ref # s.image
  BY <1>1 DEF MissingImages, Seen, PlanRead
<1>8. \A i \in b.engine.images : i.ref # s.image
  <2> SUFFICES ASSUME NEW i \in b.engine.images PROVE i.ref # s.image
    OBVIOUS
  <2>1. Shown(i) \in read.engine.images
    BY <1>2, <1>3 DEF ShownBy
  <2>2. IsImage(i)
    BY Hosted DEF Seen, IsHost, IsEngine
  <2>3. QED
    BY <1>7, <2>1, <2>2, ShownIs
<1>9. InTrouble(a, b).disk =
        If(/\ \E t \in Pulled(plan) : \A i \in b.engine.images : i.ref # t.image
           /\ \E n \in FilesystemFor(StoreRoot(b.engine), Mounted(a)) : n.available < MinimumHeadroom)
  BY DEF InTrouble
<1>10. m.available < MinimumHeadroom
  BY <1>4, <1>6, HeadroomIsASize
<1>11. QED
  BY <1>1, <1>6, <1>7, <1>8, <1>9, <1>10, IfIs DEF InCase

\* The inodes of the store's filesystem run out, the store being where the engine keeps it.
LEMMA InodesTrue ==
  ASSUME Seen, phase = "told", NEW f \in InodeShortfall(read), f.outcome = "problem"
  PROVE  f.rule = "inodes" /\ (InCase(f) \/ Unmeasured)
<1>1. PICK m \in DeploymentFilesystem(read) :
        m.inodes > 0 /\ InodesUsedPercent(m) >= 90 /\ f.rule = "inodes" /\ f.subject = None
  BY DEF InodeShortfall, Problem, Finding
<1>2. SUFFICES ASSUME ~Unmeasured PROVE InCase(f)
  BY <1>1
<1>3. PICK b \in Moments : ShownBy(read.engine, b)
  BY DEF Seen, EngineSeen
<1>4. PICK a \in Moments : read.filesystems = Filesystems(a)
  BY <1>1 DEF DeploymentFilesystem, FilesystemFor, Seen, FilesystemsSeen, MeasuredAt
<1>5. m \in FilesystemFor(StoreRoot(b.engine), Mounted(a))
  <2>1. read.filesystems = Mounted(a)
    BY <1>2, <1>4, AllMeasured
  <2>2. StoreRoot(read.engine) = StoreRoot(b.engine)
    BY <1>3 DEF ShownBy, StoreRoot
  <2>3. QED
    BY <1>1, <2>1, <2>2 DEF DeploymentFilesystem
<1>6. InTrouble(a, b).inodes =
        If(\E n \in FilesystemFor(StoreRoot(b.engine), Mounted(a)) : n.inodes > 0 /\ InodesUsedPercent(n) >= 90)
  BY DEF InTrouble
<1>7. QED
  BY <1>1, <1>5, <1>6, IfIs DEF InCase

\* A machine that is not a 32-bit ARM, and an image that is not of 32 bits on 64: it runs
\* what is called as it is.
LEMMA RunsIsMatch ==
  ASSUME NEW uname, NEW arch, RunsOn(uname, arch), uname \notin ArmV6 \cup ArmV7,
         ~(uname \in Amd64 /\ arch \in I386), ~(uname \in Arm64 /\ arch \in ArmV7 \cup ArmV6 \cup {"arm"})
  PROVE  NormaliseArch(arch) = NormaliseArch(uname)
<1>1. CASE uname \in Amd64
  BY <1>1 DEF RunsOn, NormaliseArch, Amd64
<1>2. CASE uname \in Arm64
  BY <1>2 DEF RunsOn, NormaliseArch, Amd64, Arm64
<1>3. CASE uname \in I386
  BY <1>3 DEF RunsOn, NormaliseArch, Amd64, Arm64, I386, ArmV7, ArmV6
<1>4. CASE uname \notin Amd64 \cup Arm64 \cup I386
  BY <1>4 DEF RunsOn
<1>5. QED
  BY <1>1, <1>2, <1>3, <1>4

\* A machine does not run what it is called a mismatch with, but for the names of 32 bits.
LEMMA ArchitectureTrue ==
  ASSUME Seen, NEW f \in ArchitectureMismatch(read), f.outcome = "problem"
  PROVE  f.rule = "architecture" /\ (InCase(f) \/ ArmVariant \/ ThirtyTwoBits)
<1>1. PICK s \in plan.services :
        /\ f.rule = "architecture" /\ f.subject = s.name /\ read.arch # None
        /\ \/ s.platform # None /\ NormaliseArch(s.platform) # NormaliseArch(read.arch)
           \/ \E i \in ImagesOf(read, s) : i.arch # None /\ NormaliseArch(i.arch) # NormaliseArch(read.arch)
  BY DEF ArchitectureMismatch, Problem, Finding, Seen, PlanRead
<1>2. SUFFICES ASSUME ~ArmVariant, ~ThirtyTwoBits PROVE InCase(f)
  BY <1>1
<1>3. PICK a \in Moments : read.arch = a.uname
  BY <1>1 DEF Seen, ArchSeen
<1>4. PICK b \in Moments : \E arch \in Unfit(b, s) \ {None} : NormaliseArch(arch) # NormaliseArch(a.uname)
  <2>1. CASE s.platform # None /\ NormaliseArch(s.platform) # NormaliseArch(read.arch)
    BY <1>3, <2>1 DEF Unfit
  <2>2. ASSUME NEW i \in ImagesOf(read, s), i.arch # None, NormaliseArch(i.arch) # NormaliseArch(read.arch)
        PROVE  \E b \in Moments : \E arch \in Unfit(b, s) \ {None} : NormaliseArch(arch) # NormaliseArch(a.uname)
    <3>1. i \in read.engine.images /\ i.ref = s.image
      BY DEF ImagesOf
    <3>2. PICK b \in Moments : ShownBy(read.engine, b)
      BY <3>1 DEF Seen, EngineSeen
    <3>3. PICK j \in b.engine.images : i = Shown(j)
      BY <3>1, <3>2 DEF ShownBy
    <3>4. IsImage(j)
      BY Hosted DEF Seen, IsHost, IsEngine
    <3>5. j.ref = s.image /\ j.arch = i.arch
      BY <2>2, <3>1, <3>3, <3>4, ShownIs
    <3>6. i.arch \in Unfit(b, s)
      BY <3>5 DEF Unfit
    <3>7. QED
      BY <1>3, <2>2, <3>6
  <2>3. QED
    BY <1>1, <2>1, <2>2
<1>5. PICK arch \in Unfit(b, s) \ {None} : NormaliseArch(arch) # NormaliseArch(a.uname)
  BY <1>4
<1>6. /\ a.uname \notin ArmV6 \cup ArmV7 /\ ~(a.uname \in Amd64 /\ arch \in I386)
      /\ ~(a.uname \in Arm64 /\ arch \in ArmV7 \cup ArmV6 \cup {"arm"})
  BY <1>2 DEF ArmVariant, ThirtyTwoBits
<1>7. ~RunsOn(a.uname, arch)
  BY <1>5, <1>6, RunsIsMatch
<1>8. InTrouble(a, b).architecture =
        {t.name : t \in {u \in plan.services : \E x \in Unfit(b, u) \ {None} : ~RunsOn(a.uname, x)}}
  BY DEF InTrouble
<1>9. QED
  BY <1>1, <1>7, <1>8 DEF InCase

\* A set of readings has one of the lowest version.
LEMMA LowestVersion ==
  ASSUME NEW found, found # {}, \A d \in found : d.version \in Nat
  PROVE  \E e \in found : \A d \in found : e.version <= d.version
<1> DEFINE versions == {d.version : d \in found}
<1>1. versions \subseteq Nat /\ versions # {}
  OBVIOUS
<1>2. IsWellFoundedOn(OpToRel(<, Nat), Nat)
  BY NatLessThanWellFounded
<1>3. PICK v \in versions : \A u \in versions : ~(<<u, v>> \in OpToRel(<, Nat))
  BY <1>1, <1>2, WFMin
<1>4. \A u \in Nat, t \in Nat : u < t => <<u, t>> \in OpToRel(<, Nat)
  BY DEF OpToRel
<1> HIDE DEF versions
<1>5. \A u \in versions : v <= u
  <2> SUFFICES ASSUME NEW u \in versions PROVE v <= u
    OBVIOUS
  <2>1. u \in Nat /\ v \in Nat
    BY <1>1
  <2>2. ~(u < v)
    BY <1>3, <1>4, <2>1
  <2>3. QED
    BY <2>1, <2>2
<1> USE DEF versions
<1>6. QED
  BY <1>5

\* A database that has a version is one there is, kept where its kind is kept.
LEMMA DatabaseIs ==
  ASSUME NEW w, \A d \in w.data : d.version \in Nat, NEW sockets, NEW d \in Databases(w, sockets), d.version # 0
  PROVE  \E x \in w.data : x.kind \in KeptWith(d.kind) /\ x.version = d.version
<1>1. d.version = DataDirectory(w, d.kind).version
  BY DEF Databases
<1> DEFINE found == {x \in w.data : x.kind \in KeptWith(d.kind) /\ x.standard /\ (d.kind = "postgres" => x.access = "read")}
           e == CHOOSE x \in found : \A y \in found : x.version <= y.version
<1>2. found # {}
  BY <1>1 DEF DataDirectory
<1>3. \E x \in found : \A y \in found : x.version <= y.version
  BY <1>2, LowestVersion
<1>4. e \in found
  BY <1>3
<1>5. DataDirectory(w, d.kind) = [at |-> e.at, version |-> IF e.access = "read" /\ d.kind # "redis" THEN e.version ELSE 0]
  BY <1>2 DEF DataDirectory
<1> HIDE DEF e
<1>6. QED
  BY <1>1, <1>4, <1>5

\* The data directory is of another major version, the lowest that was found.
LEMMA DatabaseTrue ==
  ASSUME Seen, NEW f \in DatabaseVersionMismatch(read), f.outcome = "problem"
  PROVE  InCase(f)
<1>1. PICK s \in plan.services, d \in read.databases :
        /\ f.rule = "database" /\ f.subject = s.name
        /\ s.major # 0 /\ d.kind = s.db /\ d.version \notin {0, s.major}
  BY DEF DatabaseVersionMismatch, Problem, Finding, Seen, PlanRead
<1>2. PICK w \in Moments : \E sockets : d \in Databases(w, sockets)
  BY DEF Seen, DatabasesSeen
<1>3. PICK x \in w.data : x.kind \in KeptWith(d.kind) /\ x.version = d.version
  BY <1>1, <1>2, DatabaseIs, Hosted DEF Seen, IsHost, IsData
<1>4. SameEngine(s.db, x.kind)
  BY <1>1, <1>3 DEF SameEngine, KeptWith
<1>5. InTrouble(w, w).database =
        {t.name : t \in {u \in plan.services : u.major # 0 /\ \E y \in w.data : SameEngine(u.db, y.kind) /\ y.version # u.major}}
  BY DEF InTrouble
<1>6. QED
  BY <1>1, <1>3, <1>4, <1>5 DEF InCase

\* What the proxy serves, a file the server loads serves, unless the walk came to others.
LEMMA ServedIs ==
  ASSUME Seen, ~NotLoaded
  PROVE  /\ \A p \in read.proxy.ports : \E w \in Moments : p \in Loaded(w, "nginx") \cup Loaded(w, "apache")
         /\ \A n \in read.proxy.names :
              \E w \in Moments : n.name \in EffectiveNames(w.web, "nginx") \cup EffectiveNames(w.web, "apache")
<1> SUFFICES ASSUME read.proxy.ports = config.ports, read.proxy.names = config.names
             PROVE  /\ \A p \in config.ports : \E w \in Moments : p \in Loaded(w, "nginx") \cup Loaded(w, "apache")
                    /\ \A n \in config.names :
                         \E w \in Moments : n.name \in EffectiveNames(w.web, "nginx") \cup EffectiveNames(w.web, "apache")
  BY DEF Seen, ProxySeen
<1>1. \A w \in Moments : \A f \in w.web.files : Came(crawl, w, f) => f \in Effective(w.web, w.web[crawl.kind])
  BY DEF NotLoaded, Came
<1>2. \A p \in config.ports : \E w \in Moments : p \in Loaded(w, crawl.kind)
  BY <1>1 DEF Seen, ConfigSeen, Loaded, EffectivePorts, ServedPorts
<1>3. \A n \in config.names : \E w \in Moments : n.name \in EffectiveNames(w.web, crawl.kind)
  BY <1>1 DEF Seen, ConfigSeen, EffectiveNames
<1>4. QED
  BY <1>2, <1>3 DEF Seen, KindSeen

\* The port is one that a server loads or an installed panel holds.
LEMMA FrontTrue ==
  ASSUME Seen, NEW f \in ProxyPortConflict(read), f.outcome = "problem"
  PROVE  f.rule = "front" /\ (InCase(f) \/ LeftoverPanel \/ NotLoaded)
<1>1. PICK p \in WebPorts(plan) :
        /\ f.rule = "front" /\ f.subject = p /\ Stated(plan, p)
        /\ p \in read.proxy.ports \/ \E panel \in read.panels : p \in panel.ports
  BY DEF ProxyPortConflict, Collides, Problem, Unknown, Finding, Seen, PlanRead
<1>2. SUFFICES ASSUME ~LeftoverPanel, ~NotLoaded PROVE InCase(f)
  BY <1>1
<1>3. ASSUME NEW a \in Moments, NEW b \in Moments,
             p \in Loaded(a, "nginx") \cup Loaded(a, "apache")
                     \cup UNION {q.ports \cup {q.port} : q \in {r \in b.panels : r.installed}}
      PROVE  InCase(f)
  <2>1. InTrouble(a, b).front =
          {x \in WebPorts(plan) :
             /\ \E s \in plan.services : [port |-> x, protocol |-> "tcp"] \in s.publishes
             /\ x \in Loaded(a, "nginx") \cup Loaded(a, "apache")
                      \cup UNION {q.ports \cup {q.port} : q \in {r \in b.panels : r.installed}}}
    BY DEF InTrouble
  <2>2. QED
    BY <1>1, <1>3, <2>1 DEF InCase, Stated
<1>4. CASE p \in read.proxy.ports
  <2>1. PICK w \in Moments : p \in Loaded(w, "nginx") \cup Loaded(w, "apache")
    BY <1>2, <1>4, ServedIs
  <2>2. QED
    BY <1>3, <2>1
<1>5. CASE \E panel \in read.panels : p \in panel.ports
  <2>1. PICK w \in Moments : \E q \in w.panels : p \in DetectedPanel(w, q).ports
    BY <1>5 DEF Seen, PanelsSeen
  <2>2. PICK q \in w.panels : p \in DetectedPanel(w, q).ports
    BY <2>1
  <2>3. p \in q.ports \cup {q.port}
    BY <2>2 DEF DetectedPanel, OwnsPorts
  <2>4. q.installed
    BY <1>2 DEF LeftoverPanel
  <2>5. QED
    BY <1>3, <2>3, <2>4
<1>6. QED
  BY <1>1, <1>4, <1>5

\* The domain is one that a server loads.
LEMMA DomainTrue ==
  ASSUME Seen, NEW f \in DomainConflict(read), f.outcome = "problem"
  PROVE  f.rule = "domain" /\ (InCase(f) \/ NotLoaded)
<1>1. /\ f.rule = "domain" /\ f.subject \in DomainsOf(plan)
      /\ \E n \in read.proxy.names : f.subject = n.name
  <2> DEFINE served == {n.name : n \in read.proxy.names}
  <2>1. \/ f \in {Problem("domain", d, "warning") : d \in DomainsOf(plan) \cap served}
        \/ f \in {Finding("domain", d, "manual-check", "info") : d \in DomainsOf(plan) \ served}
    BY DEF DomainConflict, Seen, PlanRead
  <2>2. PICK d \in DomainsOf(plan) \cap served : f = Problem("domain", d, "warning")
    BY <2>1 DEF Finding
  <2>3. QED
    BY <2>2 DEF Problem, Finding
<1>2. SUFFICES ASSUME ~NotLoaded PROVE InCase(f)
  BY <1>1
<1>3. PICK w \in Moments : f.subject \in EffectiveNames(w.web, "nginx") \cup EffectiveNames(w.web, "apache")
  BY <1>1, <1>2, ServedIs
<1>4. InTrouble(w, w).domain = DomainsOf(plan) \cap (EffectiveNames(w.web, "nginx") \cup EffectiveNames(w.web, "apache"))
  BY DEF InTrouble
<1>5. QED
  BY <1>1, <1>3, <1>4 DEF InCase

\* A reading of a bind source is of its path, as the path was.
LEMMA SourceIs ==
  ASSUME NEW w, NEW binds, NEW measured, NEW b \in BindSources(w, binds, measured)
  PROVE  /\ b.path = StatPath(w, b.path.at)
         /\ b.readOnlyFS => \E m \in FilesystemFor(b.path.at, measured) : m.readOnly
<1>1. PICK c \in binds :
        b = [path |-> StatPath(w, c.at), readOnlyFS |-> \E m \in FilesystemFor(c.at, measured) : m.readOnly]
  BY DEF BindSources
<1>2. b.path = StatPath(w, c.at) /\ (b.readOnlyFS => \E m \in FilesystemFor(c.at, measured) : m.readOnly)
  BY <1>1, Zenon
<1>3. QED
  BY <1>2, StatPathIs

\* The source is missing, or on a read-only filesystem, or one of the host's own paths.
LEMMA BindTrue ==
  ASSUME Seen, NEW f \in BindPathConflicts(read), f.outcome = "problem"
  PROVE  f.rule = "bind" /\ (InCase(f) \/ Unmeasured)
<1> DEFINE Trouble(a, b) == {m.at : m \in {n \in Binds(plan) :
                               \/ StatPath(b, n.at).state = "missing" /\ (n.create = "no" \/ OnReadOnly(a, n.at))
                               \/ ~n.ro /\ OnReadOnly(a, n.at)
                               \/ SensitiveHostPath(n.at)}}
<1>1. \A a, b : InTrouble(a, b).bind = Trouble(a, b)
  BY DEF InTrouble
<1>2. CASE \E m \in Binds(plan) : SensitiveHostPath(m.at) /\ f.subject = m.at /\ f.rule = "bind"
  BY <1>1, <1>2, Now DEF InCase
<1>3. ASSUME NEW s \in plan.services, NEW m \in BindsOf(s), NEW b \in read.binds, b.path.at = m.at,
             f \in BindSourceFindings(read, s, m, b)
      PROVE  f.rule = "bind" /\ (InCase(f) \/ Unmeasured)
  <2>1. m \in Binds(plan)
    BY DEF Binds
  <2>2. /\ f.rule = "bind" /\ f.subject = m.at
        /\ (b.path.state = "missing" /\ m.create = "no") \/ (b.readOnlyFS /\ ~m.ro)
    BY <1>3 DEF BindSourceFindings, Problem, Unknown, Finding
  <2>3. PICK w \in Moments : \E measured : MeasuredAt(measured) /\ b \in BindSources(w, Binds(plan), measured)
    BY DEF Seen, BindsSeen
  <2>4. PICK measured : MeasuredAt(measured) /\ b \in BindSources(w, Binds(plan), measured)
    BY <2>3
  <2>5. CASE b.path.state = "missing" /\ m.create = "no"
    <3>1. StatPath(w, m.at).state = "missing"
      BY <1>3, <2>4, <2>5, SourceIs
    <3>2. QED
      BY <1>1, <2>1, <2>2, <2>5, <3>1 DEF InCase
  <2>6. CASE b.readOnlyFS /\ ~m.ro /\ ~Unmeasured
    <3>1. PICK x \in FilesystemFor(m.at, measured) : x.readOnly
      BY <1>3, <2>4, <2>6, SourceIs
    <3>2. PICK a \in Moments : measured = Filesystems(a)
      BY <2>4, <3>1 DEF MeasuredAt, FilesystemFor
    <3>3. measured = Mounted(a)
      BY <2>6, <3>2, AllMeasured
    <3>4. QED
      BY <1>1, <2>1, <2>2, <2>6, <3>1, <3>3 DEF InCase, OnReadOnly
  <2>7. QED
    BY <2>2, <2>5, <2>6
<1>4. \/ \E s \in plan.services : \E m \in BindsOf(s) : \E b \in read.binds :
           b.path.at = m.at /\ f \in BindSourceFindings(read, s, m, b)
      \/ \E m \in Binds(plan) : SensitiveHostPath(m.at) /\ f.subject = m.at /\ f.rule = "bind"
  <2> DEFINE sources == UNION {UNION {UNION {BindSourceFindings(read, s, m, b) : b \in {c \in read.binds : c.path.at = m.at}}
                                 : m \in BindsOf(s)} : s \in read.plan.services}
  <2>1. BindPathConflicts(read) =
          sources \cup {Problem("bind", m.at, "warning") : m \in {n \in Binds(read.plan) : SensitiveHostPath(n.at)}}
    BY DEF BindPathConflicts
  <2>2. read.plan = plan
    BY DEF Seen, PlanRead
  <2>3. CASE f \in sources
    BY <2>2, <2>3
  <2>4. CASE f \in {Problem("bind", m.at, "warning") : m \in {n \in Binds(read.plan) : SensitiveHostPath(n.at)}}
    BY <2>2, <2>4 DEF Problem, Finding
  <2> HIDE DEF sources
  <2>5. QED
    BY <2>1, <2>3, <2>4
<1>5. QED
  BY <1>2, <1>3, <1>4

\* The directories of the host at the moment the backups were read.
LEMMA LocationsSeen ==
  ASSUME Seen, phase = "told"
  PROVE  \E w \in Moments : read.backup.locations = Locations(w)
BY DEF Seen, BackupSeen

\* Where the directories are all alike, and all found and dated, a fresh one is a fresh
\* location.
LEMMA FreshIs ==
  ASSUME Seen, ~MixedBackups, NEW w \in Moments, ~(\A d \in w.backups.dirs : Stale(d))
  PROVE  Locations(w) # {} /\ \A l \in Locations(w) : Fresh(l)
<1>1. PICK e \in w.backups.dirs : ~Stale(e)
  OBVIOUS
<1>2. \A d \in w.backups.dirs : d.access = "read" /\ ~d.late /\ (d.conventional \/ d.namedByJob) /\ ~(Stale(d) /\ ~Stale(e))
  BY <1>1 DEF MixedBackups
<1>3. \A d \in w.backups.dirs : ~d.empty /\ d.age <= 30
  <2> SUFFICES ASSUME NEW d \in w.backups.dirs PROVE ~d.empty /\ d.age <= 30
    OBVIOUS
  <2>1. ~Stale(d)
    BY <1>1, <1>2
  <2>2. d.age \in Nat
    BY Hosted DEF Seen, IsHost
  <2>3. QED
    BY <2>1, <2>2 DEF Stale
<1>4. ScanLocation(e) \in Locations(w)
  BY <1>1, <1>2 DEF Locations
<1>5. \A l \in Locations(w) : Fresh(l)
  <2> SUFFICES ASSUME NEW l \in Locations(w) PROVE Fresh(l)
    OBVIOUS
  <2>1. PICK d \in w.backups.dirs : l = ScanLocation(d)
    BY DEF Locations
  <2>2. l.dated /\ l.age = d.age
    BY <1>2, <1>3, <2>1 DEF ScanLocation
  <2>3. QED
    BY <1>3, <2>2 DEF Fresh
<1>6. QED
  BY <1>4, <1>5

\* No location is fresh.
LEMMA BackupTrue ==
  ASSUME Seen, phase = "told", NEW f \in BackupGap(read) \cup RollbackGap(read), f.outcome = "problem"
  PROVE  f.rule \in {"backup", "rollback"} /\ (InCase(f) \/ MixedBackups)
<1>1. /\ f.rule \in {"backup", "rollback"} /\ f.subject = None /\ PersistentData(plan) # {}
      /\ ~(read.backup.locations # {} /\ \A l \in read.backup.locations : Fresh(l))
  <2>1. CASE f \in BackupGap(read)
    BY <2>1 DEF BackupGap, Problem, Finding, Seen, PlanRead
  <2>2. CASE f \in RollbackGap(read)
    BY <2>2 DEF RollbackGap, VolumeBackup, Problem, Finding, Seen, PlanRead
  <2>3. QED
    BY <2>1, <2>2
<1>2. SUFFICES ASSUME ~MixedBackups PROVE InCase(f)
  BY <1>1
<1>3. PICK w \in Moments : read.backup.locations = Locations(w)
  BY LocationsSeen
<1>4. \A d \in w.backups.dirs : Stale(d)
  BY <1>1, <1>2, <1>3, FreshIs
<1>5. /\ InTrouble(w, w).backup = If(PersistentData(plan) # {} /\ \A d \in w.backups.dirs : Stale(d))
      /\ InTrouble(w, w).rollback = If(PersistentData(plan) # {} /\ \A d \in w.backups.dirs : Stale(d))
  BY DEF InTrouble
<1>6. QED
  BY <1>1, <1>4, <1>5, IfIs DEF InCase

-----------------------------------------------------------------------------

\* A finding that is in no case is one of the known exceptions.
LEMMA ProblemIs ==
  ASSUME Seen, phase = "told", NEW f \in Findings(read), f.outcome = "problem"
  PROVE  \/ InCase(f)
         \/ f.rule = "disk" /\ ~read.engine.listed
         \/ f.rule \in {"disk", "inodes", "bind"} /\ Unmeasured
         \/ f.rule = "architecture" /\ (ArmVariant \/ ThirtyTwoBits)
         \/ f.rule \in {"front", "domain"} /\ (LeftoverPanel \/ NotLoaded)
         \/ f.rule \in {"backup", "rollback"} /\ MixedBackups
<1>1. CASE f \in MemoryShortfall(read) \cup DiskPressure(read) \cup RuntimeVersion(read) \cup RegistryReachability(read)
               \cup DatabaseVersionMismatch(read)
  BY <1>1, MemoryTrue, PressureTrue, RuntimeTrue, RegistryTrue, DatabaseTrue
<1>2. CASE f \in MissingEnvFiles(read) \cup CertificateExpiry(read) \cup RebootPending(read)
  BY <1>2, EnvTrue, CertificateTrue, RebootTrue
<1>3. CASE f \in DiskShortfall(read) \cup InodeShortfall(read) \cup BindPathConflicts(read)
  BY <1>3, DiskTrue, InodesTrue, BindTrue
<1>4. CASE f \in ArchitectureMismatch(read)
  BY <1>4, ArchitectureTrue
<1>5. CASE f \in ProxyPortConflict(read) \cup DomainConflict(read)
  BY <1>5, FrontTrue, DomainTrue
<1>6. CASE f \in BackupGap(read) \cup RollbackGap(read)
  BY <1>6, BackupTrue
<1>7. QED
  BY <1>1, <1>2, <1>3, <1>4, <1>5, <1>6 DEF Findings

\* Of the invariant and what the rules make of it follows the property.
LEMMA SeenIsThere == Seen => ProblemIsThere
<1> SUFFICES ASSUME Seen, NEW f \in told.findings, f.outcome = "problem"
             PROVE  \/ \E trouble \in Cases : f.subject \in trouble[f.rule]
                    \/ f.rule = "disk" /\ ~read.engine.listed
                    \/ f.rule \in {"disk", "inodes", "bind"} /\ Unmeasured
                    \/ f.rule = "architecture" /\ (ArmVariant \/ ThirtyTwoBits)
                    \/ f.rule \in {"front", "domain"} /\ (LeftoverPanel \/ NotLoaded)
                    \/ f.rule \in {"backup", "rollback"} /\ MixedBackups
  BY DEF ProblemIsThere
<1>1. phase = "told" /\ f \in Findings(read)
  BY DEF Seen, ToldIs
<1>2. InCase(f) => \E trouble \in Cases : f.subject \in trouble[f.rule]
  BY DEF InCase, Cases
<1>3. QED
  BY <1>1, <1>2, ProblemIs

\* A problem the host rules state was there on the host when they looked, for any plan
\* and host and whatever changed meanwhile, but for the exceptions of HostAudit.
THEOREM ProblemsThere == Spec => []ProblemIsThere
BY AlwaysSeen, SeenIsThere, PTL

-----------------------------------------------------------------------------
(***************************************************************************)
(* A renewal that is promised is one the host runs.                        *)
(***************************************************************************)

\* Something on the host runs the tool, or it is one of the known exceptions.
Answered(tool) == Runs(tool) \/ StoppedTimer(tool) \/ IgnoredCronFile(tool) \/ NamedAfter(tool)

RenewalSeen ==
  /\ \A tool \in read.jobs : Answered(tool)
  /\ \A c \in read.certificates : c.autoRenew => Answered(c.manager)

\* The moments only grow, and what answers for a tool is at one of them.
LEMMA AnsweredStays ==
  ASSUME Next, NEW tool, Answered(tool)
  PROVE  Answered(tool)'
BY MomentsGrow DEF Answered, Runs, StoppedTimer, IgnoredCronFile, NamedAfter

\* What a line, a script or a timer of this moment names.
LEMMA CronAnswers ==
  ASSUME NEW w \in Moments, NEW f \in w.crons, NEW tool, tool \in f.runs \cup {f.named}
  PROVE  Answered(tool)
BY DEF Answered, Runs, IgnoredCronFile, NamedAfter

\* A timer that is loaded, or enabled, runs or was stopped.
LEMMA TimerAnswers ==
  ASSUME NEW w \in Moments, NEW t \in w.timers, t.loaded \/ t.enabled
  PROVE  Answered(t.tool)
BY DEF Answered, Runs, StoppedTimer

\* A job of the schedule is a line, a script or a timer.
LEMMA ScheduledAnswer ==
  ASSUME NEW w \in Moments, NEW tool \in ScheduledTools(w)
  PROVE  Answered(tool)
<1>1. CASE tool \in CronJobs(w)
  <2>1. PICK f \in w.crons : tool \in IF f.dir \notin CronTables THEN {f.named}
                                      ELSE IF f.access = "read" THEN ParseCrontab(f) ELSE {}
    BY <1>1 DEF CronJobs
  <2>2. tool \in f.runs \cup {f.named}
    BY <2>1 DEF ParseCrontab
  <2>3. QED
    BY <2>2, CronAnswers
<1>2. CASE tool \in TimerJobs(w)
  <2>1. PICK t \in w.timers : t.loaded /\ tool = t.tool
    BY <1>2 DEF TimerJobs
  <2>2. QED
    BY <2>1, TimerAnswers
<1>3. CASE tool \in OwnCrontab(w)
  BY <1>3 DEF OwnCrontab, Answered, Runs
<1>4. QED
  BY <1>1, <1>2, <1>3 DEF ScheduledTools

\* renewalJobs adds the enabled timers and the cron files.
LEMMA RenewalToolAnswers ==
  ASSUME NEW w \in Moments, NEW jobs, \A tool \in jobs : Answered(tool), NEW tool \in RenewalTools(w, jobs)
  PROVE  Answered(tool)
<1>1. CASE tool \in {t.tool : t \in {u \in w.timers : u.enabled}}
  <2>1. PICK t \in w.timers : t.enabled /\ tool = t.tool
    BY <1>1
  <2>2. QED
    BY <2>1, TimerAnswers
<1>2. CASE tool \notin jobs \cup {t.tool : t \in {u \in w.timers : u.enabled}}
  <2>1. PICK f \in w.crons : tool \in IF f.named # None /\ f.dir \notin {"crontab", "spool"} THEN {f.named}
                                      ELSE IF f.access = "read" THEN f.runs ELSE {}
    BY <1>2 DEF RenewalTools
  <2>2. tool \in f.runs \cup {f.named}
    BY <2>1
  <2>3. QED
    BY <2>2, CronAnswers
<1>3. QED
  BY <1>1, <1>2

\* A certificate renews itself by one of the tools it was read with.
LEMMA RenewedBy ==
  ASSUME NEW w, NEW d, NEW tools, NEW c \in Certificate(w, d, tools), c.autoRenew
  PROVE  c.manager \in tools
<1> DEFINE manager == ManagerFor(w, d)
<1>1. \/ c = [path |-> d.path, dated |-> FALSE, days |-> 0, manager |-> None, autoRenew |-> FALSE]
      \/ c = [path |-> d.path, dated |-> TRUE, days |-> d.days, manager |-> manager,
              autoRenew |-> manager \notin {None, "panel"} /\ manager \in tools]
  BY DEF Certificate
<1> HIDE DEF manager
<1>2. CASE c = [path |-> d.path, dated |-> FALSE, days |-> 0, manager |-> None, autoRenew |-> FALSE]
  BY <1>2
<1>3. CASE c = [path |-> d.path, dated |-> TRUE, days |-> d.days, manager |-> manager,
                autoRenew |-> manager \notin {None, "panel"} /\ manager \in tools]
  BY <1>3, Zenon
<1>4. QED
  BY <1>1, <1>2, <1>3

\* Every job and every promise of a renewal has something that answers for it.
LEMMA RenewalStays ==
  ASSUME Next, DOMAIN read = Fields, RenewalSeen
  PROVE  RenewalSeen'
<1>1. CASE ReadJobs
  <2>1. read'.jobs = ScheduledTools(world)
    BY <1>1, Collected
  <2>2. \A tool \in read'.jobs : Answered(tool)'
    BY <2>1, Now, ScheduledAnswer, AnsweredStays
  <2>3. read'.certificates = read.certificates
    BY <1>1 DEF ReadJobs, Collect, Fields
  <2>4. QED
    BY <2>2, <2>3, AnsweredStays DEF RenewalSeen
<1>2. CASE ReadCertificates
  <2>1. read'.certificates = Certificates(world, read.jobs)
    BY <1>2, Collected
  <2>2. \A c \in read'.certificates : \E d : c \in Certificate(world, d, RenewalTools(world, read.jobs))
    BY <2>1 DEF Certificates
  <2>3. \A c \in read'.certificates : c.autoRenew => Answered(c.manager)
    BY <2>2, RenewedBy, Now, RenewalToolAnswers DEF RenewalSeen
  <2>4. read'.jobs = read.jobs
    BY <1>2 DEF ReadCertificates, Collect, Fields
  <2>5. QED
    BY <2>3, <2>4, AnsweredStays DEF RenewalSeen
<1>3. CASE ~ReadJobs /\ ~ReadCertificates
  BY <1>3, Written, AnsweredStays DEF RenewalSeen
<1>4. QED
  BY <1>1, <1>2, <1>3

\* A certificate that is said to renew itself does, whatever timers, cron files and
\* bindings the host has: the tool is one the host runs, or one of three exceptions.
THEOREM RenewalsRun == Spec => []RenewalRuns
<1> DEFINE Inv == DOMAIN read = Fields /\ RenewalSeen
<1>1. Init => Inv
  <2> SUFFICES ASSUME Init PROVE Inv
    OBVIOUS
  <2>1. read.jobs = {} /\ read.certificates = {}
    BY DEF Init, Unread
  <2>2. QED
    BY <2>1, InitSeen DEF RenewalSeen
<1>2. Inv /\ [Next]_vars => Inv'
  <2> SUFFICES ASSUME Inv, [Next]_vars PROVE Inv'
    OBVIOUS
  <2>1. CASE Next
    BY <2>1, Written, RenewalStays
  <2>2. CASE UNCHANGED vars
    BY <2>2 DEF vars, RenewalSeen, Answered, Runs, StoppedTimer, IgnoredCronFile, NamedAfter, Moments
  <2>3. QED
    BY <2>1, <2>2
<1>3. Inv => RenewalRuns
  BY DEF RenewalSeen, RenewalRuns, Answered
<1>4. QED
  BY <1>1, <1>2, <1>3, PTL DEF Spec

-----------------------------------------------------------------------------
(***************************************************************************)
(* Type correctness: the bounds of the walk and of the lists, and what is  *)
(* told.                                                                   *)
(***************************************************************************)

\* What the walk has still to do: patterns to expand one level further than files.
DepthOk(x) ==
  x.depth \in Nat /\ x.depth <= MaxWalkDepth + 1 /\ (x.pattern.takes = "file" => x.depth <= MaxWalkDepth)

Todo(s) == \E S : s \in Seq(S) /\ \A x \in S : DepthOk(x)

WalkOk(c) == DOMAIN c = CrawlFields /\ Todo(c.todo) /\ c.files \in Nat /\ c.files <= MaxWalkFiles

\* The first item and the rest are within the bounds,
LEMMA TodoHead ==
  ASSUME NEW s, Todo(s), s # <<>>
  PROVE  DepthOk(Head(s)) /\ Todo(Tail(s))
BY DEF Todo

\* and so are two lists one after the other,
LEMMA TodoJoined ==
  ASSUME NEW s, NEW t, Todo(s), Todo(t)
  PROVE  Todo(s \o t)
<1>1. PICK S : s \in Seq(S) /\ \A x \in S : DepthOk(x)
  BY DEF Todo
<1>2. PICK T : t \in Seq(T) /\ \A x \in T : DepthOk(x)
  BY DEF Todo
<1>3. s \in Seq(S \cup T) /\ t \in Seq(S \cup T)
  BY <1>1, <1>2
<1>4. s \o t \in Seq(S \cup T)
  BY <1>3
<1>5. QED
  BY <1>1, <1>2, <1>4 DEF Todo

\* and a list every item of which is.
LEMMA TodoOf ==
  ASSUME NEW n \in Nat, NEW s, s = [i \in 1..n |-> s[i]], \A i \in 1..n : DepthOk(s[i])
  PROVE  Todo(s)
<1> DEFINE S == {s[i] : i \in 1..n}
<1>1. s \in [1..n -> S]
  OBVIOUS
<1>2. s \in Seq(S)
  BY <1>1
<1>3. \A x \in S : DepthOk(x)
  OBVIOUS
<1> HIDE DEF S
<1>4. QED
  BY <1>2, <1>3 DEF Todo

\* A pattern may be one level too deep: it is left when it is taken up.
LEMMA WalkDepth ==
  ASSUME NEW p, p.takes # "file", NEW d \in Nat, d <= MaxWalkDepth + 1
  PROVE  DepthOk(Walk(p, d))
BY DEF DepthOk, Walk

\* A file is never too deep.
LEMMA ReadDepth ==
  ASSUME NEW path, NEW d \in Nat, d <= MaxWalkDepth
  PROVE  DepthOk(ReadFile(path, d))
<1>1. MaxWalkDepth \in Nat
  BY WalkBoundsAreCounts
<1>2. ReadFile(path, d).depth = d
  BY DEF ReadFile
<1>3. QED
  BY <1>1, <1>2 DEF DepthOk

\* Every item of a list of such items is one of them.
LEMMA TodoBy ==
  ASSUME NEW S, NEW s \in Seq(S), \A x \in S : DepthOk(x)
  PROVE  Todo(s)
BY DEF Todo

\* The walk begins with the main file, if there is one.
LEMMA RootTodo ==
  ASSUME NEW s
  PROVE  Todo(RootFirst(s))
<1>1. Todo(<<>>)
  <2> DEFINE S == {}
             t == <<>>
  <2>1. t \in Seq(S) /\ \A x \in S : DepthOk(x)
    OBVIOUS
  <2> HIDE DEF S, t
  <2>2. Todo(t)
    BY <2>1, TodoBy
  <2>3. QED
    BY <2>2 DEF t
<1>2. Todo(<<ReadFile(s.root, 0)>>)
  <2> DEFINE r == ReadFile(s.root, 0)
             S == {r}
             t == <<r>>
  <2>1. DepthOk(r)
    BY ReadDepth, WalkBoundsAreCounts
  <2> HIDE DEF r
  <2>2. t \in Seq(S) /\ \A x \in S : DepthOk(x)
    BY <2>1
  <2> HIDE DEF S, t
  <2>3. Todo(t)
    BY <2>2, TodoBy
  <2>4. QED
    BY <2>3 DEF t, r
<1>3. QED
  BY <1>1, <1>2 DEF RootFirst

\* The drop-in directories.
LEMMA NginxTodo == Todo([i \in DOMAIN NginxDropIns |-> Walk(NginxDropIns[i], 1)])
<1> DEFINE s == [i \in DOMAIN NginxDropIns |-> Walk(NginxDropIns[i], 1)]
<1>1. DOMAIN NginxDropIns = 1..2 /\ \A i \in 1..2 : NginxDropIns[i].takes # "file"
  BY DEF NginxDropIns, Pattern
<1>2. \A i \in 1..2 : DepthOk(s[i])
  BY <1>1, WalkDepth, WalkBoundsAreCounts
<1>3. s = [i \in 1..2 |-> s[i]]
  BY <1>1
<1> HIDE DEF s
<1>4. Todo(s)
  BY <1>2, <1>3, TodoOf
<1>5. QED
  BY <1>4 DEF s

\* The five of Apache's, likewise.
LEMMA ApacheTodo == Todo([i \in DOMAIN ApacheDropIns |-> Walk(ApacheDropIns[i], 1)])
<1> DEFINE s == [i \in DOMAIN ApacheDropIns |-> Walk(ApacheDropIns[i], 1)]
<1>1. DOMAIN ApacheDropIns = 1..5 /\ \A i \in 1..5 : ApacheDropIns[i].takes # "file"
  BY DEF ApacheDropIns, Pattern
<1>2. \A i \in 1..5 : DepthOk(s[i])
  BY <1>1, WalkDepth, WalkBoundsAreCounts
<1>3. s = [i \in 1..5 |-> s[i]]
  BY <1>1
<1> HIDE DEF s
<1>4. Todo(s)
  BY <1>2, <1>3, TodoOf
<1>5. QED
  BY <1>4 DEF s

\* A new walk, of the tree of nginx or of Apache.
LEMMA NginxWalk ==
  ASSUME NEW s
  PROVE  Todo(WalkNginxTree(s).todo) /\ WalkNginxTree(s).files = 0
<1> DEFINE drops == [i \in DOMAIN NginxDropIns |-> Walk(NginxDropIns[i], 1)]
           todo  == RootFirst(s) \o drops
           base  == IF s.root = None THEN s.base ELSE Front(s.root)
<1>1. Todo(todo)
  <2> HIDE DEF drops
  <2>1. Todo(drops)
    BY NginxTodo DEF drops
  <2>2. QED
    BY <2>1, RootTodo, TodoJoined
<1>2. WalkNginxTree(s) = NewCrawler("nginx", base, FALSE, todo)
  BY DEF WalkNginxTree
<1> HIDE DEF todo, base
<1>3. QED
  BY <1>1, <1>2 DEF NewCrawler

\* Apache's begins with its main file and the files that its map names.
LEMMA ApacheBegins ==
  ASSUME NEW web, NEW s, NEW mapped, IsFiniteSet(web.files)
  PROVE  \E reads : /\ Todo(reads)
                    /\ WalkApacheTree(web, s, mapped) =
                         NewCrawler("apache", ApacheBase(s, mapped), mapped,
                                    RootFirst(s) \o reads \o [i \in DOMAIN ApacheDropIns |-> Walk(ApacheDropIns[i], 1)])
<1> DEFINE paths == {f.path : f \in {g \in Effective(web, s) : g.vhosts # {}}}
           hosts == IF mapped THEN SetToSeq(paths) ELSE <<>>
           reads == [i \in DOMAIN hosts |-> ReadFile(hosts[i], 0)]
           drops == [i \in DOMAIN ApacheDropIns |-> Walk(ApacheDropIns[i], 1)]
<1>1. IsFiniteSet(paths)
  <2> DEFINE files == {g \in Effective(web, s) : g.vhosts # {}}
             h == [f \in files |-> f.path]
  <2>1. IsFiniteSet(files)
    BY EffectiveIsFiles, FS_Subset
  <2>2. paths = {h[f] : f \in files}
    OBVIOUS
  <2> HIDE DEF files
  <2>3. h = [f \in files |-> h[f]]
    OBVIOUS
  <2> HIDE DEF h
  <2>4. IsFiniteSet({h[f] : f \in files})
    BY <2>1, <2>3, ImageIsFinite
  <2>5. QED
    BY <2>2, <2>4
<1>2. \E n \in Nat : DOMAIN hosts = 1..n
  <2>1. CASE mapped
    <3> HIDE DEF paths
    <3>1. QED
      BY <1>1, <2>1, SetToSeqIs
  <2>2. CASE ~mapped
    BY <2>2
  <2>3. QED
    BY <2>1, <2>2
<1> HIDE DEF hosts
<1>3. Todo(reads)
  <2>1. PICK n \in Nat : DOMAIN hosts = 1..n
    BY <1>2
  <2>2. reads = [i \in 1..n |-> reads[i]] /\ \A i \in 1..n : reads[i] = ReadFile(hosts[i], 0)
    BY <2>1
  <2> HIDE DEF reads
  <2>3. \A i \in 1..n : DepthOk(reads[i])
    BY <2>2, ReadDepth, WalkBoundsAreCounts
  <2>4. QED
    BY <2>2, <2>3, TodoOf
<1>4. WalkApacheTree(web, s, mapped) = NewCrawler("apache", ApacheBase(s, mapped), mapped, RootFirst(s) \o reads \o drops)
  BY DEF WalkApacheTree, hosts
<1> HIDE DEF reads
<1>5. QED
  BY <1>3, <1>4

\* Apache's walk begins within its depth.
LEMMA ApacheWalk ==
  ASSUME NEW web, NEW s, NEW mapped, IsFiniteSet(web.files)
  PROVE  Todo(WalkApacheTree(web, s, mapped).todo) /\ WalkApacheTree(web, s, mapped).files = 0
<1> DEFINE drops == [i \in DOMAIN ApacheDropIns |-> Walk(ApacheDropIns[i], 1)]
<1>1. PICK reads : Todo(reads) /\ WalkApacheTree(web, s, mapped) =
        NewCrawler("apache", ApacheBase(s, mapped), mapped, RootFirst(s) \o reads \o drops)
  BY ApacheBegins
<1>2. Todo(drops)
  BY ApacheTodo
<1> HIDE DEF drops
<1>3. Todo(RootFirst(s) \o reads \o drops)
  BY <1>1, <1>2, RootTodo, TodoJoined
<1>4. QED
  BY <1>1, <1>3 DEF NewCrawler

\* walk: the files of a pattern are no deeper than it.
LEMMA ExpansionIsFinite ==
  ASSUME NEW web, IsFiniteSet(web.files), NEW base, NEW p
  PROVE  IsFiniteSet(Expansion(web, base, p)) /\ IsFiniteSet(Globbed(web, base, p))
<1>1. CASE p.takes = "literal"
  BY <1>1, FS_Singleton DEF Expansion, Globbed
<1>2. CASE p.takes # "literal"
  <2> DEFINE files == {g \in web.files : /\ Len(g.path) > 0 /\ Front(g.path) = ResolveInclude(base, p)
                                         /\ (p.takes = "conf" => g.conf)}
             h == [f \in files |-> f.path]
  <2>1. IsFiniteSet(files)
    BY FS_Subset
  <2>2. Expansion(web, base, p) = {h[f] : f \in files}
    BY <1>2 DEF Expansion, Matches
  <2> HIDE DEF files
  <2>3. h = [f \in files |-> h[f]]
    OBVIOUS
  <2> HIDE DEF h
  <2>4. IsFiniteSet(Expansion(web, base, p))
    BY <2>1, <2>2, <2>3, ImageIsFinite
  <2>5. QED
    BY <2>4, FS_EmptySet DEF Globbed
<1>3. QED
  BY <1>1, <1>2

\* A pattern that is too deep is left; another becomes files as deep as it.
LEMMA ExpandTodo ==
  ASSUME NEW web, IsFiniteSet(web.files), NEW c, WalkOk(c), c.todo # <<>>
  PROVE  WalkOk(ExpandNext(web, c))
<1> DEFINE item  == Head(c.todo)
           paths == Expand(web, c.base, item.pattern)
           reads == [i \in DOMAIN paths |-> ReadFile(paths[i], item.depth)]
           d     == ExpandNext(web, c)
<1>1. DepthOk(item) /\ Todo(Tail(c.todo))
  BY TodoHead DEF WalkOk
<1>2. DOMAIN d = CrawlFields /\ d.files = c.files
  BY ExpandIs DEF WalkOk
<1>3. CASE item.depth > MaxWalkDepth
  <2>1. d = [c EXCEPT !.todo = Tail(@), !.deep = TRUE]
    BY <1>3 DEF ExpandNext
  <2>2. d.todo = Tail(c.todo)
    BY <2>1 DEF WalkOk, CrawlFields
  <2>3. QED
    BY <1>1, <1>2, <2>2 DEF WalkOk
<1>4. CASE ~(item.depth > MaxWalkDepth)
  <2>1. d = [c EXCEPT !.todo = reads \o Tail(@)]
    BY <1>4 DEF ExpandNext
  <2> HIDE DEF reads
  <2>2. d.todo = reads \o Tail(c.todo)
    BY <2>1 DEF WalkOk, CrawlFields
  <2>3. PICK n \in Nat : DOMAIN paths = 1..n
    BY ExpansionIsFinite, SetToSeqIs DEF Expand
  <2>4. item.depth \in Nat /\ item.depth <= MaxWalkDepth
    BY <1>1, <1>4, WalkBoundsAreCounts DEF DepthOk
  <2>5. reads = [i \in 1..n |-> reads[i]] /\ \A i \in 1..n : reads[i] = ReadFile(paths[i], item.depth)
    BY <2>3 DEF reads
  <2> HIDE DEF item, paths
  <2>6. \A i \in 1..n : DepthOk(reads[i])
    BY <2>4, <2>5, ReadDepth
  <2>7. Todo(reads)
    BY <2>5, <2>6, TodoOf
  <2>8. QED
    BY <1>1, <1>2, <2>2, <2>7, TodoJoined DEF WalkOk
<1>5. QED
  BY <1>3, <1>4

\* file: what a file includes is one level further than the file.
LEMMA MoreTodo ==
  ASSUME NEW n \in Nat, NEW patterns, DOMAIN patterns = 1..n, \A i \in 1..n : patterns[i].takes # "file",
         NEW depth \in Nat, depth <= MaxWalkDepth
  PROVE  Todo([i \in DOMAIN patterns |-> Walk(patterns[i], depth + 1)])
<1> DEFINE s == [i \in DOMAIN patterns |-> Walk(patterns[i], depth + 1)]
<1>1. MaxWalkDepth \in Nat
  BY WalkBoundsAreCounts
<1>2. depth + 1 \in Nat /\ depth + 1 <= MaxWalkDepth + 1
  BY <1>1
<1>3. \A i \in 1..n : DepthOk(s[i])
  BY <1>2, WalkDepth
<1>4. s = [i \in 1..n |-> s[i]]
  OBVIOUS
<1> HIDE DEF s
<1>5. Todo(s)
  BY <1>3, <1>4, TodoOf
<1>6. QED
  BY <1>5 DEF s

\* A file is counted while there is room for it, and what it includes is one level further.
LEMMA VisitTodo ==
  ASSUME NEW web, \A f \in web.files : IsFile(f), \A f, g \in web.files : f.path = g.path => f = g,
         NEW c, WalkOk(c), c.todo # <<>>, Head(c.todo).pattern.takes = "file"
  PROVE  WalkOk(VisitNext(web, c))
<1> DEFINE item  == Head(c.todo)
           path  == item.pattern.at
           there == NodesAt(web, path)
           g     == CHOOSE h \in there : TRUE
           real  == IF there = {} \/ g.access = "denied" THEN path ELSE g.real
           rest  == [c EXCEPT !.todo = Tail(@), !.visited = @ \cup {real}]
           d     == VisitNext(web, c)
           more(patterns) == [i \in DOMAIN patterns |-> Walk(patterns[i], item.depth + 1)]
           whole == more(<<Pattern(path, TRUE, "conf")>>)
           inner == more(g.includes)
<1>1. DepthOk(item) /\ Todo(Tail(c.todo)) /\ item.depth \in Nat /\ item.depth <= MaxWalkDepth
  BY TodoHead DEF WalkOk, DepthOk
<1>2. DOMAIN d = CrawlFields
  BY VisitIs DEF WalkOk
<1>3. Todo(whole)
  <2> DEFINE p == <<Pattern(path, TRUE, "conf")>>
  <2>1. DOMAIN p = 1..1 /\ \A i \in 1..1 : p[i].takes # "file"
    BY DEF Pattern
  <2> HIDE DEF p, item
  <2>2. Todo(more(p))
    BY <1>1, <2>1, MoreTodo
  <2>3. QED
    BY <2>2 DEF p
<1>4. there # {} => Todo(inner)
  <2> SUFFICES ASSUME there # {} PROVE Todo(inner)
    OBVIOUS
  <2>1. g \in web.files
    BY DEF NodesAt
  <2>2. IsFile(g)
    BY <2>1
  <2> DEFINE n == Len(g.includes)
  <2>3. n \in Nat /\ DOMAIN g.includes = 1..n /\ \A i \in 1..n : g.includes[i].takes # "file"
    BY <2>2 DEF IsFile
  <2> HIDE DEF g, n, item
  <2>4. QED
    BY <1>1, <2>3, MoreTodo
<1>5. rest.todo = Tail(c.todo) /\ rest.files = c.files /\ DOMAIN rest = CrawlFields
  BY DEF WalkOk, CrawlFields
<1>6. d = IF real \in c.visited \/ there = {} THEN rest
          ELSE IF g.access = "denied" THEN [rest EXCEPT !.unreadable = @ \cup {path}]
          ELSE IF g.kind = "dir" THEN [rest EXCEPT !.todo = whole \o @]
          ELSE IF c.files >= MaxWalkFiles THEN [rest EXCEPT !.full = TRUE]
          ELSE IF g.access = "stat" THEN [rest EXCEPT !.files = @ + 1, !.unreadable = @ \cup {path}]
          ELSE [rest EXCEPT !.files = @ + 1, !.oversize = @ \/ g.tail # {}, !.todo = inner \o @]
  BY DEF VisitNext
<1>7. c.files \in Nat /\ c.files <= MaxWalkFiles /\ MaxWalkFiles \in Nat
  BY WalkBoundsAreCounts DEF WalkOk
<1> HIDE DEF rest, real, there, more, d, path, item, g, whole, inner
<1>8. \/ d.todo = Tail(c.todo)
      \/ d.todo = whole \o Tail(c.todo)
      \/ there # {} /\ d.todo = inner \o Tail(c.todo)
  BY <1>5, <1>6 DEF CrawlFields
<1>9. d.files = c.files \/ (~(c.files >= MaxWalkFiles) /\ d.files = c.files + 1)
  BY <1>5, <1>6 DEF CrawlFields
<1>10. Todo(d.todo)
  BY <1>1, <1>3, <1>4, <1>8, TodoJoined
<1>11. d.files \in Nat /\ d.files <= MaxWalkFiles
  BY <1>7, <1>9
<1>12. QED
  BY <1>2, <1>10, <1>11 DEF WalkOk, d

\* What the proxy is asked begins a walk within its bounds.
LEMMA AskedTodo ==
  ASSUME AskProxy, IsFiniteSet(world.web.files), WalkOk(crawl)
  PROVE  WalkOk(crawl')
<1> DEFINE n == world.web.nginx
           a == world.web.apache
<1>0. MaxWalkFiles \in Nat /\ Todo(<<>>)
  <2> DEFINE s == [root |-> None]
  <2>1. Todo(RootFirst(s))
    BY RootTodo
  <2>2. QED
    BY <2>1, WalkBoundsAreCounts DEF RootFirst
<1>1. CASE Present(n) /\ Answers(n)
  <2>1. crawl' = [NoCrawl EXCEPT !.kind = "nginx", !.mapped = TRUE]
    BY <1>1 DEF AskProxy
  <2>2. DOMAIN NoCrawl = CrawlFields /\ NoCrawl.todo = <<>> /\ NoCrawl.files = 0
    BY DEF NoCrawl, NewCrawler, CrawlFields
  <2>3. DOMAIN crawl' = CrawlFields /\ crawl'.todo = <<>> /\ crawl'.files = 0
    BY <2>1, <2>2 DEF CrawlFields
  <2>4. QED
    BY <1>0, <2>3 DEF WalkOk
<1>2. CASE Present(n) /\ ~Answers(n)
  <2>1. crawl' = WalkNginxTree(n)
    BY <1>2 DEF AskProxy
  <2>2. DOMAIN WalkNginxTree(n) = CrawlFields
    <3>1. \E base, todo : WalkNginxTree(n) = NewCrawler("nginx", base, FALSE, todo)
      BY DEF WalkNginxTree
    <3>2. QED
      BY <3>1 DEF NewCrawler, CrawlFields
  <2>3. QED
    BY <1>0, <2>1, <2>2, NginxWalk DEF WalkOk
<1>3. CASE ~Present(n) /\ Present(a)
  <2>1. \E m : crawl' = WalkApacheTree(world.web, a, m)
    BY <1>3 DEF AskProxy
  <2>2. PICK m : crawl' = WalkApacheTree(world.web, a, m)
    BY <2>1
  <2>3. DOMAIN WalkApacheTree(world.web, a, m) = CrawlFields
    BY NewCrawlerIs DEF WalkApacheTree
  <2>4. QED
    BY <1>0, <2>2, <2>3, ApacheWalk DEF WalkOk
<1>4. CASE ~Present(n) /\ ~Present(a)
  BY <1>4 DEF AskProxy
<1>5. QED
  BY <1>1, <1>2, <1>3, <1>4

\* Every step of the audit keeps the walk within its bounds.
LEMMA WalkStays ==
  ASSUME Next, DOMAIN read = Fields, Known, WalkOk(crawl)
  PROVE  WalkOk(crawl')
<1>1. /\ IsFiniteSet(world.web.files) /\ \A f \in world.web.files : IsFile(f)
      /\ \A f, g \in world.web.files : f.path = g.path => f = g
  BY Now, Hosted DEF IsHost, IsWeb
<1>2. CASE AskProxy
  BY <1>1, <1>2, AskedTodo
<1>3. CASE ExpandPattern
  <2>1. crawl' = ExpandNext(world.web, crawl) /\ crawl.todo # <<>>
    BY <1>3 DEF ExpandPattern, Walking
  <2>2. QED
    BY <1>1, <2>1, ExpandTodo
<1>4. CASE VisitFile
  <2>1. crawl' = VisitNext(world.web, crawl) /\ crawl.todo # <<>> /\ Head(crawl.todo).pattern.takes = "file"
    BY <1>4 DEF VisitFile, Walking
  <2>2. QED
    BY <1>1, <2>1, VisitTodo
<1>5. CASE ~(AskProxy \/ ExpandPattern \/ VisitFile)
  BY <1>5, Written
<1>6. QED
  BY <1>2, <1>3, <1>4, <1>5

-----------------------------------------------------------------------------

\* Each rule's findings are outcomes and severities of the answer's.
Typed(findings) == \A f \in findings : f.outcome \in Outcome /\ f.severity \in Severity

\* A finding has the outcome and the severity it is made with.
LEMMA FindingTyped ==
  ASSUME NEW rule, NEW subject, NEW outcome \in Outcome, NEW severity \in Severity
  PROVE  LET f == Finding(rule, subject, outcome, severity) IN f.outcome \in Outcome /\ f.severity \in Severity
BY DEF Finding

\* How full a filesystem is decides between two severities.
LEMMA PressedTyped == \A percent : Pressed(percent) \in Severity
BY DEF Pressed, Severity

\* The rules on resources,
LEMMA ResourcesTyped ==
  ASSUME NEW in
  PROVE  Typed(MemoryShortfall(in) \cup DiskShortfall(in) \cup InodeShortfall(in) \cup DiskPressure(in))
<1> USE DEF Outcome, Severity, Typed, Finding, Problem
<1>1. Typed(MemoryShortfall(in))
  BY DEF MemoryShortfall
<1>2. Typed(DiskShortfall(in))
  BY DEF DiskShortfall
<1>3. Typed(InodeShortfall(in))
  BY PressedTyped DEF InodeShortfall
<1>4. Typed(DiskPressure(in))
  BY PressedTyped DEF DiskPressure
<1>5. QED
  BY <1>1, <1>2, <1>3, <1>4

\* those on compatibility,
LEMMA CompatibilityTyped ==
  ASSUME NEW in
  PROVE  Typed(ArchitectureMismatch(in) \cup RuntimeVersion(in) \cup RegistryReachability(in)
               \cup DatabaseVersionMismatch(in))
<1> USE DEF Outcome, Severity, Typed, Finding, Problem, Unknown
<1>1. Typed(ArchitectureMismatch(in))
  BY DEF ArchitectureMismatch
<1>2. Typed(RuntimeVersion(in))
  BY DEF RuntimeVersion
<1>3. Typed(RegistryReachability(in))
  BY DEF RegistryReachability
<1>4. Typed(DatabaseVersionMismatch(in))
  BY DEF DatabaseVersionMismatch
<1>5. QED
  BY <1>1, <1>2, <1>3, <1>4

\* those on the front end, bind mounts and `env_file`,
LEMMA FrontTyped ==
  ASSUME NEW in
  PROVE  Typed(ProxyPortConflict(in) \cup DomainConflict(in) \cup BindPathConflicts(in) \cup MissingEnvFiles(in))
<1> USE DEF Outcome, Severity, Typed, Finding, Problem, Unknown
<1>1. Typed(ProxyPortConflict(in))
  BY DEF ProxyPortConflict, Collides
<1>2. Typed(DomainConflict(in))
  <2>1. \A f \in DomainConflict(in) : \E d : f \in {Problem("domain", d, "warning"), Finding("domain", d, "manual-check", "info")}
    BY DEF DomainConflict
  <2>2. QED
    BY <2>1
<1>3. Typed(BindPathConflicts(in))
  <2>1. \A s, m, b : Typed(BindSourceFindings(in, s, m, b))
    BY DEF BindSourceFindings
  <2>2. \A f \in BindPathConflicts(in) :
          \/ \E s, m, b : f \in BindSourceFindings(in, s, m, b)
          \/ \E m : f = Problem("bind", m.at, "warning")
    BY DEF BindPathConflicts
  <2>3. QED
    BY <2>1, <2>2
<1>4. Typed(MissingEnvFiles(in))
  BY DEF MissingEnvFiles
<1>5. QED
  BY <1>1, <1>2, <1>3, <1>4

\* and those on hygiene.
LEMMA HygieneTyped ==
  ASSUME NEW in
  PROVE  Typed(BackupGap(in) \cup RollbackGap(in) \cup CertificateExpiry(in) \cup RebootPending(in))
<1> USE DEF Outcome, Severity, Typed, Finding, Problem
<1>1. Typed(BackupGap(in))
  BY DEF BackupGap
<1>2. Typed(RollbackGap(in))
  BY DEF RollbackGap
<1>3. Typed(CertificateExpiry(in))
  BY DEF CertificateExpiry
<1>4. Typed(RebootPending(in))
  BY DEF RebootPending
<1>5. QED
  BY <1>1, <1>2, <1>3, <1>4

\* Every finding has an outcome and a severity of the answer's,
LEMMA FindingsTyped == ASSUME NEW in PROVE Typed(Findings(in))
BY ResourcesTyped, CompatibilityTyped, FrontTyped, HygieneTyped DEF Findings, Typed

\* and every rule an outcome.
LEMMA OutcomesTyped ==
  ASSUME NEW in
  PROVE  \A rule \in DOMAIN RuleOutcomes(in) : RuleOutcomes(in)[rule] \in Outcome
<1>1. \A os : MostPressing(os) \in Outcome
  BY DEF MostPressing, Outcome
<1>2. QED
  BY <1>1 DEF RuleOutcomes

\* The list of certificates is no longer than the list of files that were gathered.
LEMMA CertificatesBounded ==
  ASSUME NEW w, IsFiniteSet(w.certs), NEW jobs
  PROVE  /\ IsFiniteSet(Certificates(w, jobs)) /\ Cardinality(Certificates(w, jobs)) <= MaxCertFiles
<1> DEFINE tools == RenewalTools(w, jobs)
           one(c) == CHOOSE x \in Certificate(w, c, tools) : TRUE
           some == {c \in GatherFiles(w) : Certificate(w, c, tools) # {}}
           h == [c \in some |-> one(c)]
           all == Certificates(w, jobs)
<1>1. \A c : \A x, y \in Certificate(w, c, tools) : x = y
  BY DEF Certificate
<1>2. IsFiniteSet(some) /\ Cardinality(some) <= Cardinality(GatherFiles(w)) /\ Cardinality(some) \in Nat
  BY GatheredAreThere, FS_Subset, FS_CardinalityType
<1>3. all = UNION {Certificate(w, c, tools) : c \in GatherFiles(w)}
  BY DEF Certificates
<1> HIDE DEF tools, all
<1>4. \A c \in some : h[c] \in all /\ h[c] \in Certificate(w, c, tools)
  BY <1>3
<1>5. \A x \in all : \E c \in some : h[c] = x
  <2> SUFFICES ASSUME NEW x \in all PROVE \E c \in some : h[c] = x
    OBVIOUS
  <2>1. PICK c \in GatherFiles(w) : x \in Certificate(w, c, tools)
    BY <1>3
  <2>2. c \in some
    BY <2>1
  <2>3. h[c] = x
    BY <1>1, <1>4, <2>1, <2>2
  <2>4. QED
    BY <2>2, <2>3
<1> DEFINE S == some
           f == h
<1>6. f \in [S -> all]
  BY <1>4
<1>7. IsFiniteSet(S) /\ Cardinality(S) <= Cardinality(GatherFiles(w)) /\ Cardinality(S) \in Nat
  BY <1>2
<1>8. \A x \in all : \E c \in S : f[c] = x
  BY <1>5
<1> HIDE DEF S, f
<1>9. f \in Surjection(S, all)
  BY <1>6, <1>8 DEF Surjection
<1>10. IsFiniteSet(all) /\ Cardinality(all) <= Cardinality(S)
  BY <1>7, <1>9, FS_Surjection
<1>11. Cardinality(all) \in Nat
  BY <1>10, FS_CardinalityType
<1>12. MaxCertFiles \in Nat /\ Cardinality(GatherFiles(w)) \in Nat /\ Cardinality(GatherFiles(w)) <= MaxCertFiles
  BY GatheredAreThere, MaxCertFilesIsACount
<1>13. Cardinality(all) <= MaxCertFiles
  BY <1>7, <1>10, <1>11, <1>12
<1>14. QED
  BY <1>10, <1>13 DEF all

-----------------------------------------------------------------------------

Phases == {"plan", "sections", "host", "engine", "proxy", "crawl", "panels", "jobs", "certs", "backup",
           "databases", "binds", "registries", "judge", "told"}

ToldTyped == Typed(told.findings) /\ (Told => \A rule \in DOMAIN told.outcomes : told.outcomes[rule] \in Outcome)

ReadTyped == Cardinality(read.certificates) <= MaxCertFiles /\ read.proxy.state \in {"complete", "partial", "failed"}

\* The inductive invariant of type correctness.
TypeInv == Seen /\ phase \in Phases /\ WalkOk(crawl) /\ ReadTyped /\ ToldTyped

\* It holds at first,
LEMMA TypeFirst == Init => TypeInv
<1> SUFFICES ASSUME Init PROVE TypeInv
  OBVIOUS
<1>1. Seen /\ phase \in Phases
  BY SeenFirst DEF Init, Phases
<1>2. WalkOk(crawl)
  <2> DEFINE s == [root |-> None]
  <2>1. Todo(RootFirst(s))
    BY RootTodo
  <2>2. QED
    BY <2>1, WalkBoundsAreCounts DEF Init, NoCrawl, NewCrawler, CrawlFields, WalkOk, RootFirst
<1>3. ReadTyped
  <2>1. read.certificates = {} /\ read.proxy.state = "complete"
    BY DEF Init, Unread, NoProxy
  <2>2. QED
    BY <2>1, FS_EmptySet, MaxCertFilesIsACount DEF ReadTyped
<1>4. ToldTyped
  BY DEF Init, Untold, ToldTyped, Told, Typed
<1>5. QED
  BY <1>1, <1>2, <1>3, <1>4 DEF TypeInv

\* every step keeps it,
LEMMA TypeStays == TypeInv /\ [Next]_vars => TypeInv'
<1> SUFFICES ASSUME TypeInv, [Next]_vars PROVE TypeInv'
  OBVIOUS
<1>1. Seen'
  BY SeenStays DEF TypeInv
<1>2. CASE UNCHANGED vars
  BY <1>1, <1>2 DEF vars, TypeInv, Phases, WalkOk, Todo, DepthOk, ReadTyped, ToldTyped, Typed, Told
<1>3. CASE Next
  <2>1. DOMAIN read = Fields /\ Known
    BY DEF TypeInv, Seen
  <2>2. phase' \in Phases
    BY <1>3 DEF TypeInv, Phases, Next, ReadPlan, ReadSections, ReadHost, ReadEngine, AskProxy, ExpandPattern, VisitFile,
       ProxyDone, ReadPanels, ReadJobs, ReadCertificates, ReadBackups, ReadDatabases, ReadBinds, ProbeRegistries, Judge,
       Change, Collect
  <2>3. WalkOk(crawl')
    BY <1>3, <2>1, WalkStays DEF TypeInv
  <2>4. Cardinality(read'.certificates) <= MaxCertFiles
    <3>1. CASE ReadCertificates
      <4>1. IsFiniteSet(world.certs)
        BY <2>1, Now, Hosted DEF IsHost
      <4>2. QED
        BY <2>1, <3>1, <4>1, Collected, CertificatesBounded
    <3>2. CASE ~ReadCertificates
      BY <1>3, <2>1, <3>2, Written DEF TypeInv, ReadTyped
    <3>3. QED
      BY <3>1, <3>2
  <2>5. read'.proxy.state \in {"complete", "partial", "failed"}
    <3>1. CASE ProxyDone
      BY <2>1, <3>1, Collected DEF ProxyState, CrawlState
    <3>2. CASE ~ProxyDone
      BY <1>3, <2>1, <3>2, Written DEF TypeInv, ReadTyped
    <3>3. QED
      BY <3>1, <3>2
  <2>6. ToldTyped'
    <3>1. CASE Judge
      BY <3>1, FindingsTyped, OutcomesTyped DEF Judge, ToldTyped, Typed
    <3>2. CASE ~Judge
      <4>1. told' = told
        BY <1>3, <2>1, <3>2, Written
      <4>2. Told' => Told
        BY <1>3, <3>2 DEF Told, Next, ReadPlan, ReadSections, ReadHost, ReadEngine, AskProxy, ExpandPattern, VisitFile,
           ProxyDone, ReadPanels, ReadJobs, ReadCertificates, ReadBackups, ReadDatabases, ReadBinds, ProbeRegistries,
           Change, Collect
      <4>3. QED
        BY <4>1, <4>2 DEF TypeInv, ToldTyped, Typed
    <3>3. QED
      BY <3>1, <3>2
  <2>7. QED
    BY <1>1, <2>2, <2>3, <2>4, <2>5, <2>6 DEF TypeInv, ReadTyped
<1>4. QED
  BY <1>2, <1>3

\* and type correctness follows.
LEMMA TypeInvIsTyped == TypeInv => TypeOK
<1> SUFFICES ASSUME TypeInv PROVE TypeOK
  OBVIOUS
<1>1. Cardinality(config.names) <= MaxServerNames
  BY DEF TypeInv, Seen, ConfigSeen, Gathered
<1>2. \A i \in DOMAIN crawl.todo : crawl.todo[i].depth <= MaxWalkDepth + 1
  <2>1. PICK S : crawl.todo \in Seq(S) /\ \A x \in S : DepthOk(x)
    BY DEF TypeInv, WalkOk, Todo
  <2>2. \A i \in DOMAIN crawl.todo : crawl.todo[i] \in S
    BY <2>1
  <2>3. QED
    BY <2>1, <2>2 DEF DepthOk
<1>3. crawl.files <= MaxWalkFiles
  BY DEF TypeInv, WalkOk
<1>4. QED
  BY <1>1, <1>2, <1>3 DEF TypeInv, TypeOK, Phases, ReadTyped, ToldTyped, Typed

\* Type correctness: the walk stays within its depth and its count of files, the names
\* and the certificates within their limits, and what is told is outcomes and severities,
\* whatever the host becomes while it is read.
THEOREM TypeCorrect == Spec => []TypeOK
BY TypeFirst, TypeStays, TypeInvIsTyped, PTL DEF Spec

-----------------------------------------------------------------------------
(***************************************************************************)
(* A walk that notes nothing has come to all that the server loads.        *)
(***************************************************************************)

\* Names that were not cut are all there.
LEMMA AddAll ==
  ASSUME NEW acc, Gathered(acc), NEW found, IsFiniteSet(found), ~AddNames(acc, found).cut
  PROVE  ~acc.cut /\ acc.names \cup found \subseteq AddNames(acc, found).names
<1> DEFINE new  == SetToSeq(found \ acc.names)
           room == MaxServerNames - Cardinality(acc.names)
           k    == IF Len(new) < room THEN Len(new) ELSE room
           more == ToSet(SubSeq(new, 1, k))
<1>1. AddNames(acc, found) = [acc EXCEPT !.names = @ \cup more, !.cut = @ \/ Len(new) > room]
  BY DEF AddNames
<1>2. ~acc.cut /\ ~(Len(new) > room) /\ AddNames(acc, found).names = acc.names \cup more
  <2> HIDE DEF new, room, more
  <2>1. QED
    BY <1>1 DEF Gathered, ConfigFields
<1> DEFINE S == found \ acc.names
           n == Cardinality(S)
<1>3. IsFiniteSet(S)
  BY FS_Subset
<1>4. n \in Nat /\ Len(new) = n /\ new \in Seq(S) /\ \A x \in S : \E i \in 1..n : new[i] = x
  BY <1>3, SetToSeqIs
<1>5. room \in Int
  BY FS_CardinalityType, WalkBoundsAreCounts DEF Gathered
<1>6. k = n
  BY <1>2, <1>4, <1>5
<1> HIDE DEF new, room, k, S, n
<1>7. SubSeq(new, 1, k) = new /\ DOMAIN new = 1..n
  BY <1>4, <1>6
<1>8. more = {new[i] : i \in 1..n}
  BY <1>7 DEF ToSet
<1>9. S \subseteq more
  BY <1>4, <1>8
<1>10. QED
  BY <1>2, <1>9 DEF S

\* What a file configures is gathered: after a map, without its names.
Got(c, acc, f) ==
  /\ ListenPorts(c.kind, f.listens \cup f.tail) \subseteq acc.ports
  /\ c.kind = "apache" => f.vhosts \subseteq acc.ports
  /\ ~c.mapped => f.names \subseteq {n.name : n \in acc.names}

\* The names of a file are among those that are kept with it.
LEMMA NamesAre ==
  ASSUME NEW f, NEW names, NamesOf(f) \subseteq names
  PROVE  f.names \subseteq {n.name : n \in names}
<1> SUFFICES ASSUME NEW x \in f.names PROVE x \in {n.name : n \in names}
  OBVIOUS
<1> DEFINE n == [name |-> x, file |-> f.real]
<1>1. n \in names /\ n.name = x
  BY DEF NamesOf
<1>2. QED
  BY <1>1, Zenon

\* A file that is scanned within the bound adds all it configures, and takes nothing away.
LEMMA ScanAll ==
  ASSUME NEW f, IsFiniteSet(f.names), f.tail = {}, Gathered(config), crawl.kind \in {"nginx", "apache"}, ~Scan(f).cut
  PROVE  /\ ~config.cut /\ config.ports \subseteq Scan(f).ports /\ config.names \subseteq Scan(f).names
         /\ Got(crawl, Scan(f), f)
<1> DEFINE added == AddNames(config, NamesOf(f))
<1>1. IsFiniteSet(NamesOf(f))
  BY NamesOfIsFinite
<1>2. Gathered(added) /\ added.ports = config.ports
  BY <1>1, AddNamesIs
<1>3. ~added.cut => /\ ~config.cut /\ config.names \subseteq added.names
                    /\ f.names \subseteq {n.name : n \in added.names}
  BY <1>1, AddAll, NamesAre
<1>4. f.listens \cup f.tail = f.listens
  OBVIOUS
<1>5. CASE crawl.kind = "nginx"
  <2>1. Scan(f) = [added EXCEPT !.ports = @ \cup ListenPorts("nginx", f.listens)]
    BY <1>5 DEF Scan, ScanNginxFile
  <2> HIDE DEF added
  <2>2. /\ Scan(f).cut = added.cut /\ Scan(f).names = added.names
        /\ Scan(f).ports = config.ports \cup ListenPorts("nginx", f.listens)
    BY <1>2, <2>1 DEF Gathered, ConfigFields
  <2>3. QED
    BY <1>3, <1>4, <1>5, <2>2 DEF Got
<1>6. CASE crawl.kind = "apache" /\ crawl.mapped
  <2>1. Scan(f) = [config EXCEPT !.ports = @ \cup ListenPorts("apache", f.listens) \cup f.vhosts]
    BY <1>6 DEF Scan, ScanApacheConfig
  <2>2. /\ Scan(f).cut = config.cut /\ Scan(f).names = config.names
        /\ Scan(f).ports = config.ports \cup ListenPorts("apache", f.listens) \cup f.vhosts
    BY <2>1 DEF Gathered, ConfigFields
  <2>3. QED
    BY <1>4, <1>6, <2>2 DEF Got
<1>7. CASE crawl.kind = "apache" /\ ~crawl.mapped
  <2>1. Scan(f) = [added EXCEPT !.ports = @ \cup ListenPorts("apache", f.listens) \cup f.vhosts]
    BY <1>7 DEF Scan, ScanApacheConfig
  <2> HIDE DEF added
  <2>2. /\ Scan(f).cut = added.cut /\ Scan(f).names = added.names
        /\ Scan(f).ports = config.ports \cup ListenPorts("apache", f.listens) \cup f.vhosts
    BY <1>2, <2>1 DEF Gathered, ConfigFields
  <2>3. QED
    BY <1>3, <1>4, <1>7, <2>2 DEF Got
<1>8. QED
  BY <1>5, <1>6, <1>7

-----------------------------------------------------------------------------

\* The paths that an item of the walk stands for, and all that are ahead of it.
Awaited(web, base, p) == IF p.takes = "file" THEN {p.at} ELSE Globbed(web, base, p)

AheadOf(web, base, s) == UNION {Awaited(web, base, s[i].pattern) : i \in DOMAIN s}

\* What is ahead of two sequences is ahead of one or of the other,
LEMMA AheadJoined ==
  ASSUME NEW web, NEW base, NEW s, NEW t, Todo(s), Todo(t)
  PROVE  AheadOf(web, base, s \o t) = AheadOf(web, base, s) \cup AheadOf(web, base, t)
<1>1. PICK S : s \in Seq(S)
  BY DEF Todo
<1>2. PICK T : t \in Seq(T)
  BY DEF Todo
<1> DEFINE U == S \cup T
           r == s \o t
           m == Len(s)
           n == Len(t)
<1>3. s \in Seq(U) /\ t \in Seq(U) /\ m \in Nat /\ n \in Nat
  BY <1>1, <1>2
<1>4. /\ DOMAIN r = 1..(m + n) /\ DOMAIN s = 1..m /\ DOMAIN t = 1..n
      /\ \A i \in 1..(m + n) : r[i] = IF i <= m THEN s[i] ELSE t[i - m]
  BY <1>3
<1> HIDE DEF r, m, n, U
<1>5. \A i \in DOMAIN r : (i \in DOMAIN s /\ r[i] = s[i]) \/ (i - m \in DOMAIN t /\ r[i] = t[i - m])
  BY <1>3, <1>4
<1>6. (\A i \in DOMAIN s : i \in DOMAIN r /\ r[i] = s[i]) /\ \A i \in DOMAIN t : i + m \in DOMAIN r /\ r[i + m] = t[i]
  BY <1>3, <1>4
<1> DEFINE A(q, i) == Awaited(web, base, q[i].pattern)
<1>7. \A x : (\E i \in DOMAIN r : x \in A(r, i)) <=> ((\E i \in DOMAIN s : x \in A(s, i)) \/ (\E i \in DOMAIN t : x \in A(t, i)))
  BY <1>5, <1>6
<1>8. \A q, x : x \in AheadOf(web, base, q) <=> \E i \in DOMAIN q : x \in A(q, i)
  BY DEF AheadOf
<1> HIDE DEF A
<1>9. AheadOf(web, base, r) = AheadOf(web, base, s) \cup AheadOf(web, base, t)
  BY <1>7, <1>8
<1>10. QED
  BY <1>9 DEF r

\* and of one that is not empty, ahead of its first item or of the rest.
LEMMA AheadFirst ==
  ASSUME NEW web, NEW base, NEW s, Todo(s), s # <<>>
  PROVE  AheadOf(web, base, s) = Awaited(web, base, Head(s).pattern) \cup AheadOf(web, base, Tail(s))
<1>1. PICK S : s \in Seq(S) /\ \A x \in S : DepthOk(x)
  BY DEF Todo
<1> DEFINE h == <<Head(s)>>
           t == Tail(s)
<1>2. Head(s) \in S /\ t \in Seq(S) /\ h \in Seq(S) /\ s = h \o t
  BY <1>1
<1>3. DOMAIN h = {1} /\ h[1] = Head(s)
  OBVIOUS
<1>4. AheadOf(web, base, h) = Awaited(web, base, Head(s).pattern)
  BY <1>3 DEF AheadOf
<1> HIDE DEF h, t
<1>5. Todo(h) /\ Todo(t)
  BY <1>1, <1>2, TodoBy
<1>6. AheadOf(web, base, h \o t) = AheadOf(web, base, h) \cup AheadOf(web, base, t)
  BY <1>5, AheadJoined
<1>7. QED
  BY <1>2, <1>4, <1>6 DEF t

\* The files that a pattern gave are what it stood for,
ReadsOf(r, S) ==
  /\ DOMAIN r = DOMAIN SetToSeq(S)
  /\ \A i \in DOMAIN r : r[i].pattern.takes = "file" /\ r[i].pattern.at = SetToSeq(S)[i]

\* the paths themselves are ahead,
LEMMA ReadsAhead ==
  ASSUME NEW web, NEW base, NEW S, IsFiniteSet(S), NEW r, ReadsOf(r, S)
  PROVE  AheadOf(web, base, r) = S
<1> DEFINE q == SetToSeq(S)
           n == Cardinality(S)
<1>1. DOMAIN q = 1..n /\ (\A i \in 1..n : q[i] \in S) /\ \A x \in S : \E i \in 1..n : q[i] = x
  BY SetToSeqIs
<1>2. DOMAIN r = 1..n
  BY <1>1 DEF ReadsOf
<1>3. \A i \in DOMAIN r : Awaited(web, base, r[i].pattern) = {q[i]}
  <2>1. \A i \in DOMAIN r : r[i].pattern.takes = "file" /\ r[i].pattern.at = q[i]
    BY DEF ReadsOf
  <2> HIDE DEF q
  <2>2. QED
    BY <2>1 DEF Awaited
<1> HIDE DEF q, n
<1>4. \A x : x \in AheadOf(web, base, r) <=> \E i \in 1..n : x = q[i]
  BY <1>2, <1>3 DEF AheadOf
<1>5. QED
  BY <1>1, <1>4

\* and what a file includes is what its patterns stand for.
LEMMA MoreAhead ==
  ASSUME NEW web, NEW base, NEW patterns, \A i \in DOMAIN patterns : patterns[i].takes # "file", NEW r,
         DOMAIN r = DOMAIN patterns, \A i \in DOMAIN r : r[i].pattern = patterns[i]
  PROVE  AheadOf(web, base, r) = UNION {Globbed(web, base, patterns[i]) : i \in DOMAIN patterns}
<1>1. \A i \in DOMAIN patterns : Awaited(web, base, r[i].pattern) = Globbed(web, base, patterns[i])
  BY DEF Awaited
<1>2. \A x : x \in AheadOf(web, base, r) <=> \E i \in DOMAIN patterns : x \in Globbed(web, base, patterns[i])
  BY <1>1 DEF AheadOf
<1>3. QED
  BY <1>2

-----------------------------------------------------------------------------

\* Where the walk begins in the server's own directory, and nothing is included that it
\* does not look into.
Plain(web) ==
  /\ web.apache.root # None /\ ~Answers(web.apache) => ApacheBase(web.apache, FALSE) = web.apache.base
  /\ \A f \in web.files : f.kind # "dir"

\* Where Apache's main server has no name that its map would leave out.
Unnamed(web) == web.apache.answers => \A f \in Effective(web, web.apache) : f.vhosts = {} => f.names = {}

\* What the walk finds by the includes of a file, where none is a directory.
Sought(web, s, f) == UNION {Globbed(web, s.base, f.includes[i]) : i \in DOMAIN f.includes}

\* A path was visited or is ahead.
Reached(web, c, p) == p \in AheadOf(web, c.base, c.todo) \/ \A f \in NodesAt(web, p) : f.real \in c.visited

\* The invariant of a walk: it comes to the main file; of every file it visited
\* everything is gathered, and it comes to all that it finds by the file's includes.
Closing(web, c, acc, s) ==
  /\ c.base = s.base
  /\ s.root # None => Reached(web, c, s.root)
  /\ \A f \in web.files : f.real \in c.visited => Got(c, acc, f) /\ \A p \in Sought(web, s, f) : Reached(web, c, p)
  /\ \A p \in c.visited : \A f \in NodesAt(web, p) : f.access # "denied"

\* All that the server loads is gathered.
NamesHeld(web, acc, s) == \A f \in Effective(web, s) : f.names \subseteq {n.name : n \in acc.names}

AllHeld(web, acc, kind) ==
  /\ EffectivePorts(web, kind) \subseteq acc.ports
  /\ Unnamed(web) => EffectiveNames(web, kind) \subseteq {n.name : n \in acc.names}

\* What the walk has come to is closed under includes when nothing is ahead, and what the
\* server loads is the least such set.
LEMMA ClosedIsAll ==
  ASSUME NEW web, IsWeb(web), Plain(web), NEW c, NEW acc, NEW s, Closing(web, c, acc, s), c.todo = <<>>, InOpen(web, s)
  PROVE  \A f \in Effective(web, s) : Got(c, acc, f)
<1> DEFINE loaded == Effective(web, s)
           files == {f \in loaded : f.real \in c.visited}
<1> SUFFICES ASSUME s.root # None PROVE loaded \subseteq files
  <2>1. s.root = None => loaded = {}
    BY DEF Effective
  <2>2. loaded \subseteq web.files
    BY EffectiveIsFiles DEF IsWeb
  <2> HIDE DEF loaded
  <2>3. \A f \in loaded : f \in web.files /\ f.real \in c.visited
    BY <2>1, <2>2
  <2>4. \A f \in loaded : Got(c, acc, f)
    BY <2>3 DEF Closing
  <2>5. QED
    BY <2>4 DEF loaded
<1>1. AheadOf(web, c.base, c.todo) = {}
  BY DEF AheadOf
<1>2. \A p : Reached(web, c, p) => \A g \in NodesAt(web, p) : g.real \in c.visited
  BY <1>1 DEF Reached
<1>3. ASSUME NEW g \in web.files, \A whole \in SUBSET web.files : IsWhole(web, s, whole) => g \in whole
      PROVE  g \in loaded
  BY <1>3 DEF Effective, Plain, IsWeb, IsFile
<1>4. \A g \in NodesAt(web, s.root) : g \in files
  <2>1. ASSUME NEW g \in NodesAt(web, s.root)
        PROVE  g \in loaded
    <3>1. g \in web.files /\ \A whole : IsWhole(web, s, whole) => g \in whole
      BY DEF NodesAt, IsWhole
    <3>2. QED
      BY <1>3, <3>1
  <2> HIDE DEF loaded
  <2>2. QED
    BY <1>2, <2>1 DEF Closing
<1>5. ASSUME NEW f \in files, NEW p \in Includes(web, s, f), NEW g \in NodesAt(web, p)
      PROVE  g \in files
  <2>1. f \in web.files /\ f.kind # "dir" /\ f.real \in c.visited
    BY EffectiveIsFiles DEF IsWeb, Plain
  <2>2. g \in web.files /\ g.path = p
    BY DEF NodesAt
  <2>3. g \in loaded
    <3>1. ASSUME NEW whole \in SUBSET web.files, IsWhole(web, s, whole)
          PROVE  g \in whole
      <4>1. f \in whole
        BY <3>1 DEF Effective
      <4>2. QED
        BY <3>1, <4>1 DEF IsWhole
    <3>2. QED
      BY <1>3, <2>2, <3>1
  <2>4. Front(p) \notin web.closed
    BY <2>2, <2>3 DEF InOpen
  <2>5. PICK i \in DOMAIN f.includes : p \in Expansion(web, s.base, f.includes[i])
    BY <2>1 DEF Includes
  <2>6. p \in Globbed(web, s.base, f.includes[i])
    BY <2>4, <2>5 DEF Globbed, Expansion, Matches
  <2>7. Reached(web, c, p)
    BY <2>1, <2>6 DEF Closing, Sought
  <2> HIDE DEF loaded
  <2>8. QED
    BY <1>2, <2>3, <2>7
<1>6. files \in SUBSET web.files
  BY EffectiveIsFiles DEF IsWeb
<1>7. IsWhole(web, s, files)
  BY <1>4, <1>5 DEF IsWhole
<1>8. QED
  BY <1>6, <1>7 DEF Effective

\* A step of the walk that comes to nothing new leaves it so, and what the visit of one
\* file has ahead replaces the path it was at.
LEMMA ReachedStays ==
  ASSUME NEW web, IsWeb(web), NEW c, Todo(c.todo), c.todo # <<>>,
         Head(c.todo).pattern.takes = "file",
         NEW d, d.base = c.base, c.visited \subseteq d.visited,
         AheadOf(web, c.base, Tail(c.todo)) \subseteq AheadOf(web, c.base, d.todo),
         \A f \in NodesAt(web, Head(c.todo).pattern.at) : f.real \in d.visited,
         NEW p, Reached(web, c, p)
  PROVE  Reached(web, d, p)
<1>1. AheadOf(web, c.base, c.todo) = {Head(c.todo).pattern.at} \cup AheadOf(web, c.base, Tail(c.todo))
  BY AheadFirst DEF Awaited
<1>2. QED
  BY <1>1 DEF Reached

\* walk: a pattern gives way to its files.
LEMMA ExpandCloses ==
  ASSUME NEW web, IsWeb(web), NEW c, WalkOk(c), c.todo # <<>>, Head(c.todo).pattern.takes # "file",
         NEW acc, NEW s, Closing(web, c, acc, s), ~Noted(ExpandNext(web, c))
  PROVE  /\ ExpandNext(web, c).kind = c.kind /\ ExpandNext(web, c).mapped = c.mapped
         /\ Closing(web, ExpandNext(web, c), acc, s)
<1> DEFINE item  == Head(c.todo)
           paths == Expand(web, c.base, item.pattern)
           reads == [i \in DOMAIN paths |-> ReadFile(paths[i], item.depth)]
           d     == ExpandNext(web, c)
<1>1. DepthOk(item) /\ Todo(Tail(c.todo))
  BY TodoHead DEF WalkOk
<1>2. d = IF item.depth > MaxWalkDepth THEN [c EXCEPT !.todo = Tail(@), !.deep = TRUE]
          ELSE [c EXCEPT !.todo = reads \o Tail(@)]
  BY DEF ExpandNext
<1>3. ~(item.depth > MaxWalkDepth)
  <2> HIDE DEF item, reads
  <2>1. QED
    BY <1>2 DEF Noted, WalkOk, CrawlFields
<1>4. /\ d.kind = c.kind /\ d.base = c.base /\ d.mapped = c.mapped /\ d.visited = c.visited
      /\ d.todo = reads \o Tail(c.todo) /\ ~Noted(c)
  <2> HIDE DEF item, reads
  <2>1. QED
    BY <1>2, <1>3 DEF Noted, WalkOk, CrawlFields
<1>5. IsFiniteSet(Globbed(web, c.base, item.pattern))
  BY ExpansionIsFinite DEF IsWeb
<1>6. AheadOf(web, c.base, reads) = Awaited(web, c.base, item.pattern)
  <2> DEFINE S == Globbed(web, c.base, item.pattern)
             base == c.base
  <2>1. paths = SetToSeq(S) /\ Awaited(web, c.base, item.pattern) = S /\ IsFiniteSet(S)
    BY <1>5 DEF Expand, Awaited
  <2> HIDE DEF S, item, base
  <2>2. ReadsOf(reads, S)
    BY <2>1 DEF ReadsOf, ReadFile, Pattern
  <2> HIDE DEF reads
  <2>3. AheadOf(web, base, reads) = S
    BY <2>1, <2>2, ReadsAhead
  <2>4. QED
    BY <2>1, <2>3 DEF base
<1>7. Todo(reads)
  <2>1. PICK n \in Nat : DOMAIN paths = 1..n
    BY <1>5, SetToSeqIs DEF Expand
  <2>2. item.depth \in Nat /\ item.depth <= MaxWalkDepth
    BY <1>1, <1>3, WalkBoundsAreCounts DEF DepthOk
  <2>3. reads = [i \in 1..n |-> reads[i]] /\ \A i \in 1..n : reads[i] = ReadFile(paths[i], item.depth)
    BY <2>1
  <2> HIDE DEF item, paths, reads
  <2>4. \A i \in 1..n : DepthOk(reads[i])
    BY <2>2, <2>3, ReadDepth
  <2>5. QED
    BY <2>3, <2>4, TodoOf
<1> HIDE DEF reads, d
<1>8. AheadOf(web, c.base, d.todo) = AheadOf(web, c.base, c.todo)
  <2>1. AheadOf(web, c.base, reads \o Tail(c.todo)) = AheadOf(web, c.base, reads) \cup AheadOf(web, c.base, Tail(c.todo))
    BY <1>1, <1>7, AheadJoined
  <2>2. AheadOf(web, c.base, c.todo) = Awaited(web, c.base, item.pattern) \cup AheadOf(web, c.base, Tail(c.todo))
    BY AheadFirst DEF WalkOk
  <2>3. QED
    BY <1>4, <1>6, <2>1, <2>2
<1>9. \A p : Reached(web, c, p) => Reached(web, d, p)
  BY <1>4, <1>8 DEF Reached
<1>10. \A f : Got(c, acc, f) => Got(d, acc, f)
  BY <1>4 DEF Got
<1>11. QED
  BY <1>4, <1>9, <1>10 DEF Closing, d

\* file: nothing new is at the path, or a file that is read for the first time.
VisitOf(web, c, d) ==
  LET path == Head(c.todo).pattern.at
      there == NodesAt(web, path)
  IN  /\ ~Noted(c) /\ d.kind = c.kind /\ d.base = c.base /\ d.mapped = c.mapped
      /\ \/ /\ there = {} /\ Scanned(web, c) = {}
            /\ d.visited = c.visited \cup {path} /\ d.todo = Tail(c.todo)
         \/ \E f \in there :
              /\ there = {f} /\ f.real \in c.visited /\ Scanned(web, c) = {}
              /\ d.visited = c.visited /\ d.todo = Tail(c.todo)
         \/ \E f \in there :
              /\ there = {f} /\ f.access = "read" /\ f.tail = {} /\ Scanned(web, c) = {f}
              /\ d.visited = c.visited \cup {f.real}
              /\ d.todo = [i \in DOMAIN f.includes |-> Walk(f.includes[i], Head(c.todo).depth + 1)] \o Tail(c.todo)

\* These are the cases of a visit that notes nothing.
LEMMA VisitCases ==
  ASSUME NEW web, IsWeb(web), Plain(web), NEW c, WalkOk(c), c.todo # <<>>, Head(c.todo).pattern.takes = "file",
         \A p \in c.visited : \A f \in NodesAt(web, p) : f.access # "denied",
         ~Noted(VisitNext(web, c))
  PROVE  VisitOf(web, c, VisitNext(web, c))
<1> DEFINE item  == Head(c.todo)
           path  == item.pattern.at
           there == NodesAt(web, path)
           g     == CHOOSE h \in there : TRUE
           real  == IF there = {} \/ g.access = "denied" THEN path ELSE g.real
           rest  == [c EXCEPT !.todo = Tail(@), !.visited = @ \cup {real}]
           d     == VisitNext(web, c)
           more(patterns) == [i \in DOMAIN patterns |-> Walk(patterns[i], item.depth + 1)]
           whole == more(<<Pattern(path, TRUE, "conf")>>)
           inner == more(g.includes)
<1>1. /\ rest.todo = Tail(c.todo) /\ rest.visited = c.visited \cup {real} /\ DOMAIN rest = CrawlFields
      /\ rest.kind = c.kind /\ rest.base = c.base /\ rest.mapped = c.mapped
      /\ rest.deep = c.deep /\ rest.full = c.full /\ rest.oversize = c.oversize /\ rest.unreadable = c.unreadable
  BY DEF WalkOk, CrawlFields
<1>2. d = IF real \in c.visited \/ there = {} THEN rest
          ELSE IF g.access = "denied" THEN [rest EXCEPT !.unreadable = @ \cup {path}]
          ELSE IF g.kind = "dir" THEN [rest EXCEPT !.todo = whole \o @]
          ELSE IF c.files >= MaxWalkFiles THEN [rest EXCEPT !.full = TRUE]
          ELSE IF g.access = "stat" THEN [rest EXCEPT !.files = @ + 1, !.unreadable = @ \cup {path}]
          ELSE [rest EXCEPT !.files = @ + 1, !.oversize = @ \/ g.tail # {}, !.todo = inner \o @]
  BY DEF VisitNext
<1>3. there # {} => /\ there = {g} /\ g \in web.files /\ g.kind = "file" /\ g.access \in {"read", "stat", "denied"}
                    /\ g.path = path
  <2> SUFFICES ASSUME there # {} PROVE /\ there = {g} /\ g \in web.files /\ g.kind = "file"
                                       /\ g.access \in {"read", "stat", "denied"} /\ g.path = path
    OBVIOUS
  <2>1. g \in there
    OBVIOUS
  <2>2. g \in web.files /\ g.path = path
    BY <2>1 DEF NodesAt
  <2>3. \A h \in there : h = g
    BY <2>2 DEF NodesAt, IsWeb
  <2>4. IsFile(g) /\ g.kind # "dir"
    BY <2>2 DEF IsWeb, Plain
  <2> HIDE DEF g, there
  <2>5. QED
    BY <2>1, <2>2, <2>3, <2>4 DEF IsFile
<1>4. Scanned(web, c) = {f \in there : /\ f.kind = "file" /\ f.access = "read"
                                       /\ f.real \notin c.visited /\ c.files < MaxWalkFiles}
  BY DEF Scanned
<1>5. c.files \in Nat /\ MaxWalkFiles \in Nat
  BY WalkBoundsAreCounts DEF WalkOk
<1>6. path \in c.visited => \A f \in there : f.access # "denied"
  OBVIOUS
<1>7. ~Noted(d)
  OBVIOUS
<1> HIDE DEF rest, item, path, there, g, d, more, whole, inner
<1>8. CASE there = {}
  <2>1. d = rest /\ real = path
    BY <1>2, <1>8
  <2>2. QED
    BY <1>1, <1>4, <1>7, <1>8, <2>1 DEF VisitOf, Noted, d, item, path, there
<1>9. CASE there # {} /\ real \in c.visited
  <2>1. d = rest /\ g.access # "denied"
    BY <1>2, <1>3, <1>6, <1>9
  <2>2. real = g.real
    BY <1>9, <2>1
  <2>3. Scanned(web, c) = {} /\ c.visited \cup {real} = c.visited
    BY <1>3, <1>4, <1>9, <2>2
  <2>4. QED
    BY <1>1, <1>3, <1>7, <1>9, <2>1, <2>2, <2>3 DEF VisitOf, Noted, d, item, path, there
<1>10. CASE there # {} /\ real \notin c.visited
  <2>1. g.access # "denied" /\ ~(c.files >= MaxWalkFiles) /\ g.access # "stat"
    <3> HIDE DEF real
    <3>1. g.kind # "dir"
      BY <1>3, <1>10
    <3>2. QED
      BY <1>1, <1>2, <1>7, <1>10, <3>1 DEF Noted, CrawlFields
  <2>2. g.access = "read" /\ real = g.real /\ g.kind = "file"
    BY <1>3, <1>10, <2>1
  <2>3. d = [rest EXCEPT !.files = @ + 1, !.oversize = @ \/ g.tail # {}, !.todo = inner \o @]
    BY <1>2, <1>10, <2>1, <2>2
  <2>4. /\ d.todo = inner \o Tail(c.todo) /\ d.visited = c.visited \cup {real} /\ ~Noted(c) /\ g.tail = {}
        /\ d.kind = c.kind /\ d.base = c.base /\ d.mapped = c.mapped
    BY <1>1, <1>7, <2>3 DEF Noted, CrawlFields
  <2>5. Scanned(web, c) = {g}
    BY <1>3, <1>4, <1>5, <1>10, <2>1, <2>2
  <2>6. inner = [i \in DOMAIN g.includes |-> Walk(g.includes[i], item.depth + 1)]
    BY DEF inner, more
  <2>7. QED
    BY <1>3, <1>10, <2>2, <2>4, <2>5, <2>6 DEF VisitOf, d, item, path, there
<1>11. QED
  BY <1>8, <1>9, <1>10

\* Files that resolve to one are alike.
LEMMA SameFile ==
  ASSUME NEW web, IsWeb(web), NEW f \in web.files, NEW g \in web.files, f.real = g.real
  PROVE  /\ f.names = g.names /\ f.listens = g.listens /\ f.vhosts = g.vhosts /\ f.tail = g.tail
         /\ f.includes = g.includes /\ f.kind = g.kind
<1>1. PICK a \in web.files : Resolves(f, a)
  BY DEF IsWeb
<1>2. PICK b \in web.files : Resolves(g, b)
  BY DEF IsWeb
<1>3. a = b
  BY <1>1, <1>2 DEF IsWeb, Resolves
<1>4. QED
  BY <1>1, <1>2, <1>3 DEF Resolves

\* VisitFile: everything of the file is gathered, and all that it includes is ahead.
LEMMA VisitCloses ==
  ASSUME NEW s, IsWeb(world.web), Plain(world.web), Gathered(config), WalkOk(crawl), crawl.kind \in {"nginx", "apache"},
         VisitFile, Closing(world.web, crawl, config, s), ~Noted(crawl'), ~config'.cut
  PROVE  /\ crawl'.kind = crawl.kind /\ crawl'.mapped = crawl.mapped /\ config.names \subseteq config'.names
         /\ Closing(world.web, crawl', config', s)
<1> DEFINE web   == world.web
           path  == Head(crawl.todo).pattern.at
           there == NodesAt(web, path)
           tail  == Tail(crawl.todo)
<1>1. crawl' = VisitNext(web, crawl) /\ crawl.todo # <<>> /\ Head(crawl.todo).pattern.takes = "file"
  BY DEF VisitFile, Walking
<1>2. config' = IF Scanned(web, crawl) = {} THEN config ELSE Scan(CHOOSE f \in Scanned(web, crawl) : TRUE)
  BY DEF VisitFile
<1>3. /\ crawl'.kind = crawl.kind /\ crawl'.base = crawl.base /\ crawl'.mapped = crawl.mapped
      /\ \/ /\ there = {} /\ Scanned(web, crawl) = {}
            /\ crawl'.visited = crawl.visited \cup {path} /\ crawl'.todo = tail
         \/ \E f \in there :
              /\ there = {f} /\ f.real \in crawl.visited /\ Scanned(web, crawl) = {}
              /\ crawl'.visited = crawl.visited /\ crawl'.todo = tail
         \/ \E f \in there :
              /\ there = {f} /\ f.access = "read" /\ f.tail = {} /\ Scanned(web, crawl) = {f}
              /\ crawl'.visited = crawl.visited \cup {f.real}
              /\ crawl'.todo = [i \in DOMAIN f.includes |-> Walk(f.includes[i], Head(crawl.todo).depth + 1)] \o tail
  <2>1. VisitOf(web, crawl, crawl')
    BY <1>1, VisitCases DEF Closing
  <2>2. QED
    BY <2>1 DEF VisitOf
<1>4. Todo(crawl.todo) /\ Todo(tail) /\ DepthOk(Head(crawl.todo))
  BY <1>1, TodoHead DEF WalkOk
<1>5. ASSUME AheadOf(web, crawl.base, tail) \subseteq AheadOf(web, crawl.base, crawl'.todo),
             crawl.visited \subseteq crawl'.visited, \A f \in there : f.real \in crawl'.visited, NEW p, Reached(web, crawl, p)
      PROVE  Reached(web, crawl', p)
  BY <1>1, <1>3, <1>4, <1>5, ReachedStays
<1> HIDE DEF web, path, there, tail
<1>6. CASE /\ there = {} /\ Scanned(web, crawl) = {}
           /\ crawl'.visited = crawl.visited \cup {path} /\ crawl'.todo = tail
  <2>1. config' = config
    BY <1>2, <1>6
  <2>2. \A p : Reached(web, crawl, p) => Reached(web, crawl', p)
    BY <1>5, <1>6
  <2>3. \A f \in web.files : f.real # path
    BY <1>6 DEF IsWeb, Resolves, there, NodesAt, web
  <2>4. \A f : Got(crawl, config, f) => Got(crawl', config', f)
    BY <1>3, <2>1 DEF Got
  <2>5. QED
    BY <1>3, <1>6, <2>1, <2>2, <2>3, <2>4 DEF Closing, there, web
<1>7. ASSUME NEW f \in there, there = {f}, f.real \in crawl.visited, Scanned(web, crawl) = {},
             crawl'.visited = crawl.visited, crawl'.todo = tail
      PROVE  config.names \subseteq config'.names /\ Closing(web, crawl', config', s)
  <2>1. config' = config
    BY <1>2, <1>7
  <2>2. \A p : Reached(web, crawl, p) => Reached(web, crawl', p)
    BY <1>5, <1>7
  <2>3. \A h : Got(crawl, config, h) => Got(crawl', config', h)
    BY <1>3, <2>1 DEF Got
  <2>4. QED
    BY <1>3, <1>7, <2>1, <2>2, <2>3 DEF Closing, web
<1>8. ASSUME NEW f \in there, there = {f}, f.access = "read", f.tail = {}, Scanned(web, crawl) = {f},
             crawl'.visited = crawl.visited \cup {f.real},
             crawl'.todo = [i \in DOMAIN f.includes |-> Walk(f.includes[i], Head(crawl.todo).depth + 1)] \o tail
      PROVE  config.names \subseteq config'.names /\ Closing(web, crawl', config', s)
  <2> DEFINE inner == [i \in DOMAIN f.includes |-> Walk(f.includes[i], Head(crawl.todo).depth + 1)]
  <2>1. f \in web.files /\ IsFile(f) /\ f.kind # "dir"
    BY DEF there, NodesAt, web, IsWeb, Plain
  <2>2. config' = Scan(f)
    BY <1>2, <1>8
  <2>3. /\ ~config.cut /\ config.ports \subseteq config'.ports /\ config.names \subseteq config'.names
        /\ Got(crawl, config', f)
    BY <1>8, <2>1, <2>2, ScanAll DEF IsFile
  <2>4. \A h : Got(crawl, config, h) => Got(crawl', config', h)
    <3> SUFFICES ASSUME NEW h, Got(crawl, config, h) PROVE Got(crawl', config', h)
      OBVIOUS
    <3>1. {n.name : n \in config.names} \subseteq {n.name : n \in config'.names}
      BY <2>3
    <3>2. QED
      BY <1>3, <2>3, <3>1 DEF Got
  <2>5. Got(crawl', config', f)
    BY <1>3, <2>3 DEF Got
  <2>6. Todo(inner)
    <3> DEFINE n == Len(f.includes)
    <3>1. n \in Nat /\ DOMAIN f.includes = 1..n /\ \A i \in 1..n : f.includes[i].takes # "file"
      BY <2>1 DEF IsFile
    <3>2. Head(crawl.todo).depth \in Nat /\ Head(crawl.todo).depth <= MaxWalkDepth
      BY <1>1, <1>4 DEF DepthOk
    <3> HIDE DEF n
    <3>3. QED
      BY <3>1, <3>2, MoreTodo
  <2>7. AheadOf(web, crawl.base, inner) = Sought(web, s, f)
    <3>1. \A i \in DOMAIN f.includes : f.includes[i].takes # "file"
      BY <2>1 DEF IsFile
    <3>2. DOMAIN inner = DOMAIN f.includes /\ \A i \in DOMAIN inner : inner[i].pattern = f.includes[i]
      BY DEF Walk
    <3> HIDE DEF inner
    <3>3. AheadOf(web, crawl.base, inner) = UNION {Globbed(web, crawl.base, f.includes[i]) : i \in DOMAIN f.includes}
      BY <3>1, <3>2, MoreAhead
    <3>4. crawl.base = s.base
      BY DEF Closing
    <3>5. QED
      BY <2>1, <3>3, <3>4 DEF Sought
  <2> HIDE DEF inner
  <2>8. AheadOf(web, crawl.base, crawl'.todo) = AheadOf(web, crawl.base, inner) \cup AheadOf(web, crawl.base, tail)
    BY <1>4, <1>8, <2>6, AheadJoined DEF inner
  <2>9. \A p : Reached(web, crawl, p) => Reached(web, crawl', p)
    BY <1>5, <1>8, <2>8
  <2>10. \A p \in Sought(web, s, f) : Reached(web, crawl', p)
    BY <1>3, <2>7, <2>8 DEF Reached
  <2>11. ASSUME NEW h \in web.files, h.real \in crawl'.visited
         PROVE  Got(crawl', config', h) /\ \A p \in Sought(web, s, h) : Reached(web, crawl', p)
    <3>1. CASE h.real \in crawl.visited
      BY <2>4, <2>9, <2>11, <3>1 DEF Closing, web
    <3>2. CASE h.real = f.real
      <4>1. /\ h.names = f.names /\ h.listens = f.listens /\ h.vhosts = f.vhosts /\ h.tail = f.tail
            /\ h.includes = f.includes /\ h.kind = f.kind
        BY <2>1, <3>2, SameFile DEF web
      <4>2. Sought(web, s, h) = Sought(web, s, f)
        BY <2>1, <4>1 DEF Sought
      <4>3. Got(crawl', config', h)
        BY <2>5, <4>1 DEF Got
      <4>4. QED
        BY <2>10, <4>2, <4>3
    <3>3. QED
      BY <1>8, <2>11, <3>1, <3>2
  <2>12. \A p \in crawl'.visited : \A h \in NodesAt(web, p) : h.access # "denied"
    <3>1. \A h \in NodesAt(web, f.real) : h.access # "denied"
      <4>1. PICK g \in web.files : Resolves(f, g)
        BY <2>1 DEF IsWeb, web
      <4>2. \A h \in NodesAt(web, f.real) : h = g
        BY <4>1 DEF Resolves, NodesAt, IsWeb, web
      <4>3. g.access = "read"
        BY <1>8, <4>1 DEF Resolves
      <4>4. QED
        BY <4>2, <4>3
    <3>2. QED
      BY <1>8, <3>1 DEF Closing, web
  <2>13. QED
    BY <1>3, <2>3, <2>9, <2>11, <2>12 DEF Closing, web
<1>9. QED
  BY <1>3, <1>6, <1>7, <1>8 DEF web

-----------------------------------------------------------------------------

\* What a server says itself is all that it loads: the dump,
LEMMA DumpAll ==
  ASSUME NEW web, IsWeb(web), ~ParseNginxDump(web).cut
  PROVE  AllHeld(web, ParseNginxDump(web), "nginx")
<1> DEFINE loaded == Effective(web, web.nginx)
           found  == UNION {NamesOf(f) : f \in loaded}
           added  == AddNames(NoConfiguration, found)
           ports  == UNION {ListenPorts("nginx", f.listens \cup f.tail) : f \in loaded}
           acc    == ParseNginxDump(web)
<1>1. loaded \subseteq web.files /\ IsFiniteSet(loaded)
  BY EffectiveIsFiles DEF IsWeb
<1>2. IsFiniteSet(found)
  <2>1. \A f \in loaded : IsFiniteSet(f.names)
    BY <1>1 DEF IsWeb, IsFile
  <2>2. QED
    BY <1>1, <2>1, NamesOfAllIsFinite
<1>3. acc = [added EXCEPT !.ports = ports]
  BY DEF ParseNginxDump
<1>4. \A f \in loaded : f.vhosts = {}
  BY DEF IsWeb
<1>5. EffectivePorts(web, "nginx") = UNION {ListenPorts("nginx", f.listens \cup f.tail) \cup f.vhosts : f \in loaded}
      /\ EffectiveNames(web, "nginx") = UNION {f.names : f \in loaded}
  BY DEF EffectivePorts, EffectiveNames
<1> HIDE DEF loaded, found, acc
<1>6. Gathered(added) /\ (~added.cut => found \subseteq added.names)
  BY <1>2, NothingGathered, AddNamesIs, AddAll
<1> HIDE DEF added
<1>7. acc.ports = ports /\ acc.names = added.names /\ acc.cut = added.cut
  BY <1>3, <1>6 DEF Gathered, ConfigFields
<1>8. ~acc.cut
  BY DEF acc
<1>9. EffectivePorts(web, "nginx") \subseteq acc.ports
  BY <1>4, <1>5, <1>7
<1>10. ASSUME NEW f \in loaded
       PROVE  f.names \subseteq {n.name : n \in acc.names}
  <2>1. NamesOf(f) \subseteq acc.names
    BY <1>6, <1>7, <1>8 DEF found
  <2>2. QED
    BY <2>1, NamesAre
<1>11. EffectiveNames(web, "nginx") \subseteq {n.name : n \in acc.names}
  BY <1>5, <1>10
<1>12. QED
  BY <1>9, <1>11 DEF AllHeld, acc

\* and the names of the map, where the main server has none of its own.
LEMMA MapAll ==
  ASSUME NEW web, IsWeb(web), Unnamed(web), web.apache.answers, ~ParseApacheVhostMap(web).cut
  PROVE  NamesHeld(web, ParseApacheVhostMap(web), web.apache)
<1> DEFINE loaded == Effective(web, web.apache)
           hosts == {f \in loaded : f.vhosts # {}}
           found == UNION {NamesOf(f) : f \in hosts}
           added == AddNames(NoConfiguration, found)
           ports == UNION {f.vhosts : f \in hosts}
           acc   == ParseApacheVhostMap(web)
<1>1. hosts \subseteq web.files /\ IsFiniteSet(hosts)
  BY EffectiveIsFiles, FS_Subset DEF IsWeb
<1>2. IsFiniteSet(found)
  <2>1. \A f \in hosts : IsFiniteSet(f.names)
    BY <1>1 DEF IsWeb, IsFile
  <2> HIDE DEF hosts
  <2>2. QED
    BY <1>1, <2>1, NamesOfAllIsFinite
<1>3. acc = [added EXCEPT !.ports = ports]
  BY DEF ParseApacheVhostMap
<1>4. \A f \in loaded : f \in hosts \/ f.names = {}
  BY DEF Unnamed
<1> HIDE DEF loaded, hosts, found, acc, ports
<1>5. Gathered(added) /\ (~added.cut => found \subseteq added.names)
  BY <1>2, NothingGathered, AddNamesIs, AddAll
<1> HIDE DEF added
<1>6. acc.names = added.names /\ acc.cut = added.cut
  BY <1>3, <1>5 DEF Gathered, ConfigFields
<1>7. ~acc.cut
  BY DEF acc
<1>8. ASSUME NEW f \in hosts
      PROVE  f.names \subseteq {n.name : n \in acc.names}
  <2>1. NamesOf(f) \subseteq acc.names
    BY <1>5, <1>6, <1>7 DEF found
  <2>2. QED
    BY <2>1, NamesAre
<1>9. QED
  BY <1>4, <1>8 DEF NamesHeld, acc, loaded

\* What the proxy's collector has established while it walks, for each of its three ways.
Walked(web, c, acc) ==
  \/ c.kind = "nginx" /\ c.mapped /\ c.todo = <<>> /\ AllHeld(web, acc, "nginx")
  \/ c.kind = "nginx" /\ ~c.mapped /\ Closing(web, c, acc, web.nginx)
  \/ c.kind = "apache" /\ Closing(web, c, acc, web.apache) /\ (c.mapped /\ Unnamed(web) => NamesHeld(web, acc, web.apache))

\* The main file is ahead of a walk that begins with it,
LEMMA RootAhead ==
  ASSUME NEW web, NEW base, NEW s, s.root # None
  PROVE  s.root \in AheadOf(web, base, RootFirst(s))
<1> DEFINE t == RootFirst(s)
<1>1. t = <<ReadFile(s.root, 0)>>
  BY DEF RootFirst
<1>2. 1 \in DOMAIN t /\ t[1].pattern.takes = "file" /\ t[1].pattern.at = s.root
  BY <1>1 DEF ReadFile, Pattern
<1> HIDE DEF t
<1>3. s.root \in AheadOf(web, base, t)
  BY <1>2 DEF AheadOf, Awaited
<1>4. QED
  BY <1>3 DEF t

\* and nothing was visited yet,
LEMMA StartCloses ==
  ASSUME NEW web, NEW c, NEW s, c.base = s.base, c.visited = {},
         s.root # None => s.root \in AheadOf(web, c.base, c.todo), NEW acc
  PROVE  Closing(web, c, acc, s)
BY DEF Closing, Reached

\* so that what AskProxy begins with holds, of each of the three ways.
LEMMA AskCloses ==
  ASSUME AskProxy, phase' = "crawl", IsWeb(world.web), Plain(world.web), ~config'.cut
  PROVE  Walked(world.web, crawl', config')
<1> DEFINE web == world.web
           n == web.nginx
           a == web.apache
<1>1. CASE Present(n) /\ Answers(n)
  <2>1. crawl' = [NoCrawl EXCEPT !.kind = "nginx", !.mapped = TRUE] /\ config' = ParseNginxDump(web)
    BY <1>1 DEF AskProxy
  <2>2. DOMAIN NoCrawl = CrawlFields /\ NoCrawl.todo = <<>>
    BY DEF NoCrawl, NewCrawler, CrawlFields
  <2>3. crawl'.kind = "nginx" /\ crawl'.mapped /\ crawl'.todo = <<>>
    BY <2>1, <2>2 DEF CrawlFields
  <2>4. AllHeld(web, config', "nginx")
    BY <2>1, DumpAll
  <2>5. QED
    BY <2>3, <2>4 DEF Walked
<1>2. CASE Present(n) /\ ~Answers(n)
  <2> DEFINE base  == IF n.root = None THEN n.base ELSE Front(n.root)
             drops == [i \in DOMAIN NginxDropIns |-> Walk(NginxDropIns[i], 1)]
             todo  == RootFirst(n) \o drops
  <2>1. crawl' = NewCrawler("nginx", base, FALSE, todo)
    BY <1>2 DEF AskProxy, WalkNginxTree
  <2>2. base = n.base
    BY DEF IsWeb
  <2>3. Todo(drops)
    BY NginxTodo
  <2> HIDE DEF drops
  <2>4. AheadOf(web, base, todo) = AheadOf(web, base, RootFirst(n)) \cup AheadOf(web, base, drops)
    BY <2>3, RootTodo, AheadJoined
  <2>5. n.root # None => n.root \in AheadOf(web, base, todo)
    BY <2>4, RootAhead
  <2> HIDE DEF base, todo
  <2>6. /\ crawl'.kind = "nginx" /\ ~crawl'.mapped /\ crawl'.base = base /\ crawl'.visited = {} /\ crawl'.todo = todo
    BY <2>1 DEF NewCrawler
  <2>7. Closing(web, crawl', config', n)
    BY <2>2, <2>5, <2>6, StartCloses
  <2>8. QED
    BY <2>6, <2>7 DEF Walked
<1>3. CASE ~Present(n) /\ Present(a)
  <2> DEFINE mapped == Answers(a)
             base   == ApacheBase(a, mapped)
             drops  == [i \in DOMAIN ApacheDropIns |-> Walk(ApacheDropIns[i], 1)]
  <2>1. /\ config' = IF mapped THEN ParseApacheVhostMap(web) ELSE NoConfiguration
        /\ crawl' = WalkApacheTree(web, a, mapped)
    BY <1>3 DEF AskProxy
  <2>2. PICK reads : Todo(reads) /\ WalkApacheTree(web, a, mapped) =
          NewCrawler("apache", base, mapped, RootFirst(a) \o reads \o drops)
    BY ApacheBegins DEF IsWeb
  <2>3. base = a.base
    <3>1. CASE mapped
      BY <3>1 DEF ApacheBase
    <3>2. CASE ~mapped
      BY <3>2 DEF Plain, ApacheBase
    <3>3. QED
      BY <3>1, <3>2
  <2>4. Todo(drops)
    BY ApacheTodo
  <2> DEFINE first == RootFirst(a) \o reads
             todo  == first \o drops
  <2> HIDE DEF drops
  <2>5. Todo(first) /\ AheadOf(web, base, first) = AheadOf(web, base, RootFirst(a)) \cup AheadOf(web, base, reads)
    BY <2>2, RootTodo, TodoJoined, AheadJoined
  <2> HIDE DEF first
  <2>6. AheadOf(web, base, todo) = AheadOf(web, base, first) \cup AheadOf(web, base, drops)
    BY <2>4, <2>5, AheadJoined
  <2>7. a.root # None => a.root \in AheadOf(web, base, todo)
    BY <2>5, <2>6, RootAhead
  <2>8. crawl' = NewCrawler("apache", base, mapped, todo)
    BY <2>1, <2>2 DEF first
  <2> HIDE DEF base, todo, mapped
  <2>9. /\ crawl'.kind = "apache" /\ crawl'.mapped = mapped /\ crawl'.base = base /\ crawl'.visited = {} /\ crawl'.todo = todo
    BY <2>8 DEF NewCrawler
  <2>10. Closing(web, crawl', config', a)
    BY <2>3, <2>7, <2>9, StartCloses
  <2>11. mapped /\ Unnamed(web) => NamesHeld(web, config', a)
    BY <2>1, MapAll DEF mapped, Answers
  <2>12. QED
    BY <2>9, <2>10, <2>11 DEF Walked
<1>4. CASE ~Present(n) /\ ~Present(a)
  BY <1>4 DEF AskProxy
<1>5. QED
  BY <1>1, <1>2, <1>3, <1>4

\* What was noted stays noted, and names that were cut stay cut.
LEMMA NotedStays ==
  ASSUME NEW web, NEW c, WalkOk(c), c.todo # <<>>
  PROVE  (Noted(c) => Noted(ExpandNext(web, c))) /\ (Noted(c) => Noted(VisitNext(web, c)))
<1>1. ASSUME Noted(c) PROVE Noted(ExpandNext(web, c))
  BY <1>1 DEF WalkOk, CrawlFields, ExpandNext, Noted
<1>2. ASSUME Noted(c) PROVE Noted(VisitNext(web, c))
  BY <1>2 DEF WalkOk, CrawlFields, VisitNext, Noted
<1>3. QED
  BY <1>1, <1>2

\* A visit does not forget that names were cut.
LEMMA CutStays ==
  ASSUME Gathered(config), \A f \in world.web.files : IsFile(f), VisitFile, config.cut
  PROVE  config'.cut
<1> DEFINE scanned == Scanned(world.web, crawl)
           f       == CHOOSE g \in scanned : TRUE
           added   == AddNames(config, NamesOf(f))
<1>1. config' = IF scanned = {} THEN config ELSE Scan(f)
  BY DEF VisitFile
<1>2. ASSUME scanned # {} PROVE Scan(f).cut
  <2>1. f \in world.web.files
    BY <1>2 DEF Scanned, NodesAt
  <2>2. IsFiniteSet(NamesOf(f))
    BY <2>1, NamesOfIsFinite DEF IsFile
  <2> HIDE DEF f, scanned
  <2>3. Gathered(added) /\ added.cut
    BY <2>2, AddNamesIs, AddAll
  <2> HIDE DEF added
  <2>4. \/ \E more : Scan(f) = [added EXCEPT !.ports = @ \cup more]
        \/ \E more : Scan(f) = [config EXCEPT !.ports = @ \cup more]
    BY DEF Scan, ScanNginxFile, ScanApacheConfig, added
  <2>5. QED
    BY <2>3, <2>4 DEF Gathered, ConfigFields
<1>3. QED
  BY <1>1, <1>2

\* The walk as it goes: with nothing noted yet, and the tree as it was.
WalkInv == phase = "crawl" /\ ~torn /\ Plain(world.web) /\ ~config.cut /\ ~Noted(crawl) => Walked(world.web, crawl, config)

\* The tree of the walk is still there unless the walk was torn, for the host changes once.
TornInv == torn => before # world

\* What is handed to the rules, where nothing is noted.
HandedInv ==
  read.proxy.kind # None /\ ~read.proxy.noted /\ ~torn =>
    \E w \in Moments :
      Plain(w.web) /\ InOpen(w.web, w.web[read.proxy.kind]) => AllHeld(w.web, read.proxy, read.proxy.kind)

\* A step of the walk, of a pattern
LEMMA WalkedByPattern ==
  ASSUME IsWeb(world.web), Walked(world.web, crawl, config), WalkOk(crawl), ExpandPattern, ~Noted(crawl')
  PROVE  Walked(world.web, crawl', config')
<1> DEFINE web == world.web
<1>1. crawl' = ExpandNext(web, crawl) /\ crawl.todo # <<>> /\ Head(crawl.todo).pattern.takes # "file" /\ config' = config
  BY DEF ExpandPattern, Walking
<1> HIDE DEF web
<1>2. ASSUME NEW s, Closing(web, crawl, config, s)
      PROVE  crawl'.kind = crawl.kind /\ crawl'.mapped = crawl.mapped /\ Closing(web, crawl', config', s)
  BY <1>1, <1>2, ExpandCloses DEF web
<1>3. QED
  BY <1>1, <1>2 DEF Walked, web

\* or of a file.
LEMMA WalkedByFile ==
  ASSUME IsWeb(world.web), Plain(world.web), Walked(world.web, crawl, config), WalkOk(crawl), Gathered(config),
         VisitFile, ~Noted(crawl'), ~config'.cut
  PROVE  Walked(world.web, crawl', config')
<1> DEFINE web == world.web
<1>1. crawl.todo # <<>>
  BY DEF VisitFile, Walking
<1>2. crawl.kind \in {"nginx", "apache"}
  BY DEF Walked
<1> HIDE DEF web
<1>3. ASSUME NEW s, Closing(web, crawl, config, s)
      PROVE  /\ crawl'.kind = crawl.kind /\ crawl'.mapped = crawl.mapped /\ config.names \subseteq config'.names
             /\ Closing(web, crawl', config', s)
  BY <1>2, <1>3, VisitCloses DEF web
<1>4. ASSUME config.names \subseteq config'.names, NEW s, NamesHeld(web, config, s)
      PROVE  NamesHeld(web, config', s)
  <2>1. {n.name : n \in config.names} \subseteq {n.name : n \in config'.names}
    BY <1>4
  <2>2. QED
    BY <1>4, <2>1 DEF NamesHeld
<1>5. QED
  BY <1>1, <1>3, <1>4 DEF Walked, web

\* Only these, the first and a change of the host leave it walking.
LEMMA StillWalking ==
  ASSUME Next, phase' = "crawl"
  PROVE  AskProxy \/ ExpandPattern \/ VisitFile \/ (Change /\ phase = "crawl")
BY DEF Next, ReadPlan, ReadSections, ReadHost, ReadEngine, ExpandPattern, VisitFile, ProxyDone, ReadPanels, ReadJobs,
       ReadCertificates, ReadBackups, ReadDatabases, ReadBinds, ProbeRegistries, Judge, Change, Collect

\* The walk's invariant is kept by every step, the host's own change included.
LEMMA WalkInvStays ==
  ASSUME Next, Seen, WalkOk(crawl), TornInv, WalkInv
  PROVE  WalkInv'
<1> SUFFICES ASSUME phase' = "crawl", ~torn', Plain(world.web)', ~config'.cut, ~Noted(crawl')
             PROVE  Walked(world'.web, crawl', config')
  BY DEF WalkInv, Walked, Closing, Reached, AllHeld, NamesHeld, Plain, Noted
<1>1. IsWeb(world.web) /\ Gathered(config) /\ \A f \in world.web.files : IsFile(f)
  BY Now, Hosted DEF Seen, ConfigSeen, IsHost, IsWeb
<1>2. CASE AskProxy
  <2>1. world' = world
    BY <1>2 DEF AskProxy, environment
  <2>2. QED
    BY <1>1, <1>2, <2>1, AskCloses DEF Plain
<1>3. CASE ExpandPattern
  <2>1. world' = world /\ config' = config /\ torn' = torn /\ phase = "crawl"
        /\ crawl' = ExpandNext(world.web, crawl) /\ crawl.todo # <<>>
    BY <1>3 DEF ExpandPattern, Walking, environment
  <2>2. ~Noted(crawl)
    BY <2>1, NotedStays
  <2>3. Walked(world.web, crawl, config)
    BY <2>1, <2>2 DEF WalkInv, Plain
  <2>4. QED
    BY <1>1, <1>3, <2>1, <2>3, WalkedByPattern
<1>4. CASE VisitFile
  <2>1. world' = world /\ torn' = torn /\ phase = "crawl" /\ crawl' = VisitNext(world.web, crawl) /\ crawl.todo # <<>>
    BY <1>4 DEF VisitFile, Walking, environment
  <2>2. ~Noted(crawl) /\ ~config.cut
    BY <1>1, <1>4, <2>1, NotedStays, CutStays
  <2>3. Plain(world.web) /\ Walked(world.web, crawl, config)
    BY <2>1, <2>2 DEF WalkInv, Plain
  <2>4. QED
    BY <1>1, <1>4, <2>1, <2>3, WalkedByFile
<1>5. CASE Change /\ phase = "crawl"
  <2>1. crawl' = crawl /\ config' = config /\ torn' = (world'.web # world.web)
    BY <1>5 DEF Change
  <2>2. ~torn /\ world'.web = world.web
    BY <1>5, <2>1 DEF Change, TornInv
  <2>3. QED
    BY <1>5, <2>1, <2>2 DEF WalkInv, Plain
<1>6. QED
  BY <1>2, <1>3, <1>4, <1>5, StillWalking

\* A walk that was torn stays so: there is no second change.
LEMMA TornStays ==
  ASSUME Next, TornInv
  PROVE  TornInv' /\ (torn => torn')
<1>1. CASE Change
  BY <1>1 DEF Change, TornInv
<1>2. CASE ~Change
  <2>1. world' = world /\ before' = before
    BY <1>2, MomentsGrow
  <2>2. torn' = torn
    BY <1>2 DEF Next, ReadPlan, ReadSections, ReadHost, ReadEngine, AskProxy, ExpandPattern, VisitFile, ProxyDone,
       ReadPanels, ReadJobs, ReadCertificates, ReadBackups, ReadDatabases, ReadBinds, ProbeRegistries, Judge, Collect,
       environment
  <2>3. QED
    BY <2>1, <2>2 DEF TornInv
<1>3. QED
  BY <1>1, <1>2

\* Nothing is ahead of a walk that is done: all that the server loads is gathered.
LEMMA DoneIsAll ==
  ASSUME NEW web, IsWeb(web), Plain(web), NEW c, c.todo = <<>>, NEW acc, Walked(web, c, acc), InOpen(web, web[c.kind])
  PROVE  AllHeld(web, acc, c.kind)
<1>1. CASE c.kind = "nginx" /\ c.mapped /\ AllHeld(web, acc, "nginx")
  BY <1>1
<1>2. CASE c.kind = "nginx" /\ ~c.mapped /\ Closing(web, c, acc, web.nginx)
  <2>1. \A f \in Effective(web, web.nginx) : Got(c, acc, f) /\ f.vhosts = {}
    BY <1>2, ClosedIsAll DEF IsWeb
  <2>2. QED
    BY <1>2, <2>1 DEF AllHeld, EffectivePorts, EffectiveNames, Got
<1>3. CASE c.kind = "apache" /\ Closing(web, c, acc, web.apache) /\ (c.mapped /\ Unnamed(web) => NamesHeld(web, acc, web.apache))
  <2>1. \A f \in Effective(web, web.apache) : Got(c, acc, f)
    BY <1>3, ClosedIsAll
  <2>2. Unnamed(web) => \A f \in Effective(web, web.apache) : f.names \subseteq {n.name : n \in acc.names}
    BY <1>3, <2>1 DEF NamesHeld, Got
  <2>3. QED
    BY <1>3, <2>1, <2>2 DEF AllHeld, EffectivePorts, EffectiveNames, Got
<1>4. QED
  BY <1>1, <1>2, <1>3 DEF Walked

\* What was handed to the rules keeps what it was worth.
LEMMA HandedStays ==
  ASSUME Next, Seen, WalkInv, TornInv, HandedInv
  PROVE  HandedInv'
<1> SUFFICES ASSUME read'.proxy.kind # None, ~read'.proxy.noted, ~torn'
             PROVE  \E w \in Moments' :
                      Plain(w.web) /\ InOpen(w.web, w.web[read'.proxy.kind]) => AllHeld(w.web, read'.proxy, read'.proxy.kind)
  BY DEF HandedInv, Plain, AllHeld, InOpen
<1>1. DOMAIN read = Fields /\ Moments \subseteq Moments'
  BY MomentsGrow DEF Seen
<1>2. CASE ProxyDone
  <2> DEFINE web == world.web
             kind == crawl.kind
             noted == config.cut \/ Noted(crawl)
  <2>1. crawl.todo = <<>> /\ phase = "crawl" /\ torn' = torn
    BY <1>2 DEF ProxyDone, Collect, environment
  <2>2. read'.proxy = [kind |-> kind, names |-> config.names, ports |-> config.ports,
                       state |-> ProxyState, noted |-> noted]
    BY <1>1, <1>2, Collected
  <2> HIDE DEF kind, noted
  <2>3. /\ read'.proxy.kind = kind /\ read'.proxy.names = config.names /\ read'.proxy.ports = config.ports
        /\ ~noted
    BY <2>2
  <2>4. ASSUME Plain(web), InOpen(web, web[kind]) PROVE AllHeld(web, config, kind)
    <3>1. Walked(web, crawl, config)
      BY <2>1, <2>3, <2>4 DEF WalkInv, noted
    <3>2. IsWeb(web)
      BY Now, Hosted DEF Seen, IsHost
    <3>3. QED
      BY <2>1, <2>4, <3>1, <3>2, DoneIsAll DEF kind
  <2>5. Plain(web) /\ InOpen(web, web[read'.proxy.kind]) => AllHeld(web, read'.proxy, read'.proxy.kind)
    BY <2>3, <2>4 DEF AllHeld
  <2>6. QED
    BY <1>1, <2>5, Now
<1>3. CASE ~ProxyDone
  <2>1. read'.proxy = read.proxy
    BY <1>1, <1>3, Written
  <2>2. ~torn
    BY TornStays
  <2>3. QED
    BY <1>1, <2>1, <2>2 DEF HandedInv
<1>4. QED
  BY <1>2, <1>3

\* The inductive invariant of the walk.
FoundInv == TypeInv /\ TornInv /\ WalkInv /\ HandedInv

\* It holds at first,
LEMMA FoundFirst == Init => FoundInv
<1> SUFFICES ASSUME Init PROVE FoundInv
  OBVIOUS
<1>1. TypeInv
  BY TypeFirst
<1>2. read.proxy.kind = None /\ phase = "plan" /\ ~torn
  BY DEF Init, Unread, NoProxy
<1>3. QED
  BY <1>1, <1>2 DEF FoundInv, TornInv, WalkInv, HandedInv

\* every step keeps it,
LEMMA FoundStays == FoundInv /\ [Next]_vars => FoundInv'
<1> SUFFICES ASSUME FoundInv, [Next]_vars PROVE FoundInv'
  OBVIOUS
<1>1. TypeInv'
  BY TypeStays DEF FoundInv
<1>2. CASE UNCHANGED vars
  <2>1. phase' = phase /\ torn' = torn /\ world' = world /\ before' = before /\ crawl' = crawl /\ config' = config
        /\ read' = read
    BY <1>2 DEF vars
  <2>2. TornInv' /\ WalkInv' /\ HandedInv'
    BY <2>1 DEF FoundInv, TornInv, WalkInv, HandedInv, Plain, Noted, Walked, Closing, Reached, AllHeld, NamesHeld, Moments
  <2>3. QED
    BY <1>1, <2>2 DEF FoundInv
<1>3. CASE Next
  <2>1. Seen /\ WalkOk(crawl) /\ TornInv /\ WalkInv /\ HandedInv
    BY DEF FoundInv, TypeInv
  <2>2. QED
    BY <1>1, <1>3, <2>1, TornStays, WalkInvStays, HandedStays DEF FoundInv
<1>4. QED
  BY <1>2, <1>3

\* and what is promised of the walk follows, of a moment whose tree is plain and open.
LEMMA FoundIsTold == FoundInv => WalkIsTold
<1> SUFFICES ASSUME FoundInv, read.proxy.kind # None, ~read.proxy.noted, ~torn,
                    ~ClosedDirectory, ~WrongBase, ~DirectoryIncluded, ~MainServerNamed
             PROVE  \E w \in Moments :
                      /\ Loaded(w, read.proxy.kind) \subseteq read.proxy.ports
                      /\ EffectiveNames(w.web, read.proxy.kind) \subseteq {n.name : n \in read.proxy.names}
  BY DEF WalkIsTold
<1>1. PICK w \in Moments :
        Plain(w.web) /\ InOpen(w.web, w.web[read.proxy.kind]) => AllHeld(w.web, read.proxy, read.proxy.kind)
  BY DEF FoundInv, HandedInv
<1>2. Plain(w.web) /\ Unnamed(w.web) /\ InOpen(w.web, w.web[read.proxy.kind])
  BY DEF Plain, Unnamed, ClosedDirectory, WrongBase, DirectoryIncluded, MainServerNamed
<1>3. QED
  BY <1>1, <1>2 DEF AllHeld, Loaded

\* A walk that notes nothing has found every port and every name that the server loads,
\* or one of the named exceptions is there, a directory that cannot be listed among them:
\* for any tree of files, includes and links, within any bounds, and when the host changes
\* before the walk or after it.
THEOREM WalkTold == Spec => []WalkIsTold
BY FoundFirst, FoundStays, FoundIsTold, PTL DEF Spec

-----------------------------------------------------------------------------
(***************************************************************************)
(* When no rule asks for attention, nothing they are about was in the way. *)
(* For that it is not enough that what was read was so: all that there was *)
(* to read has to have been read.  Each field is whole, as one moment has  *)
(* it, once its collector has run.                                         *)
(***************************************************************************)

\* The collector has yet to run.
EnvDue          == phase = "plan"
SectionsDue     == phase \in {"plan", "sections"}
HostDue         == phase \in {"plan", "sections", "host"}
ProxyDue        == phase \in {"plan", "sections", "host", "engine", "proxy", "crawl"}
PanelsDue       == ProxyDue \/ phase = "panels"
CertificatesDue == PanelsDue \/ phase \in {"jobs", "certs"}
DatabasesDue    == CertificatesDue \/ phase \in {"backup", "databases"}
BindsDue        == DatabasesDue \/ phase = "binds"
RegistriesDue   == BindsDue \/ phase = "registries"

EnvWhole == EnvDue \/ \E w \in Moments : read.env = {StatPath(w, e.at) : e \in UNION {s.env : s \in plan.services}}

SocketsWhole == SectionsDue \/ ~plan.ports \/ \E w \in Moments : read.sockets = w.listeners

RebootWhole == SectionsDue \/ read.reboot = "unknown" \/ \E w \in Moments : read.reboot = RebootRequired(w)

HostWhole ==
  HostDue \/ \E w \in Moments : read.arch = w.uname /\ read.memory = MemInfo(w) /\ read.filesystems = Filesystems(w)

PanelsWhole == PanelsDue \/ \E w \in Moments : read.panels = Panels(w)

CertificatesWhole == CertificatesDue \/ \E w \in Moments : \E jobs : read.certificates = Certificates(w, jobs)

DatabasesWhole == DatabasesDue \/ \E w \in Moments : read.databases = Databases(w, read.sockets)

BindsWhole == BindsDue \/ \E w \in Moments : read.binds = BindSources(w, Binds(plan), read.filesystems)

RegistriesWhole ==
  \/ RegistriesDue \/ ~plan.egress
  \/ \E w \in Moments : read.registries = {[name |-> r, reached |-> r \in w.registries] : r \in RegistriesOf(plan)}

ToldWhole == Told => told = [findings |-> Findings(read), outcomes |-> RuleOutcomes(read)]

\* A collector that is due stays so until it runs.
LEMMA DueStays ==
  ASSUME Next
  PROVE  /\ EnvDue => ReadPlan \/ EnvDue'
         /\ SectionsDue => ReadSections \/ SectionsDue'
         /\ HostDue => ReadHost \/ HostDue'
         /\ PanelsDue => ReadPanels \/ PanelsDue'
         /\ CertificatesDue => ReadCertificates \/ CertificatesDue'
         /\ DatabasesDue => ReadDatabases \/ DatabasesDue'
         /\ BindsDue => ReadBinds \/ BindsDue'
         /\ RegistriesDue => ProbeRegistries \/ RegistriesDue'
<1> USE DEF EnvDue, SectionsDue, HostDue, ProxyDue, PanelsDue, CertificatesDue, DatabasesDue, BindsDue, RegistriesDue
<1>1. CASE ReadPlan \/ ReadSections \/ ReadHost \/ ReadEngine
  BY <1>1 DEF ReadPlan, ReadSections, ReadHost, ReadEngine, Collect
<1>2. CASE AskProxy \/ ExpandPattern \/ VisitFile \/ ProxyDone
  BY <1>2 DEF AskProxy, ExpandPattern, VisitFile, Walking, ProxyDone, Collect
<1>3. CASE ReadPanels \/ ReadJobs \/ ReadCertificates \/ ReadBackups
  BY <1>3 DEF ReadPanels, ReadJobs, ReadCertificates, ReadBackups, Collect
<1>4. CASE ReadDatabases \/ ReadBinds \/ ProbeRegistries \/ Judge \/ Change
  BY <1>4 DEF ReadDatabases, ReadBinds, ProbeRegistries, Judge, Change, Collect
<1>5. QED
  BY <1>1, <1>2, <1>3, <1>4 DEF Next

\* The files, the sockets and the reboot, and the host.
LEMMA SectionsWhole ==
  ASSUME Next, DOMAIN read = Fields, EnvWhole, SocketsWhole, RebootWhole, HostWhole
  PROVE  EnvWhole' /\ SocketsWhole' /\ RebootWhole' /\ HostWhole'
<1>1. /\ plan' = plan /\ Moments \subseteq Moments' /\ world \in Moments'
  BY MomentsGrow, Now
<1>2. EnvWhole'
  <2>1. CASE ReadPlan
    BY <1>1, <2>1, Collected DEF EnvWhole
  <2>2. CASE ~ReadPlan
    BY <1>1, <2>2, Written, DueStays DEF EnvWhole
  <2>3. QED
    BY <2>1, <2>2
<1>3. SocketsWhole' /\ RebootWhole'
  <2>1. CASE ReadSections
    <3>1. read'.sockets = IF plan.ports THEN world.listeners ELSE {}
      BY <2>1 DEF ReadSections, Collect, Fields
    <3>2. QED
      BY <1>1, <2>1, <3>1, Collected DEF SocketsWhole, RebootWhole
  <2>2. CASE ~ReadSections
    BY <1>1, <2>2, Written, DueStays DEF SocketsWhole, RebootWhole
  <2>3. QED
    BY <2>1, <2>2
<1>4. HostWhole'
  <2>1. CASE ReadHost
    BY <1>1, <2>1, Collected DEF HostWhole
  <2>2. CASE ~ReadHost
    BY <1>1, <2>2, Written, DueStays DEF HostWhole
  <2>3. QED
    BY <2>1, <2>2
<1>5. QED
  BY <1>2, <1>3, <1>4

\* The panels and the certificates.
LEMMA PanelsStayWhole ==
  ASSUME Next, DOMAIN read = Fields, PanelsWhole, CertificatesWhole
  PROVE  PanelsWhole' /\ CertificatesWhole'
<1>1. Moments \subseteq Moments' /\ world \in Moments'
  BY MomentsGrow, Now
<1>2. PanelsWhole'
  <2>1. CASE ReadPanels
    BY <1>1, <2>1, Collected DEF PanelsWhole
  <2>2. CASE ~ReadPanels
    BY <1>1, <2>2, Written, DueStays DEF PanelsWhole
  <2>3. QED
    BY <2>1, <2>2
<1>3. CertificatesWhole'
  <2>1. CASE ReadCertificates
    BY <1>1, <2>1, Collected DEF CertificatesWhole
  <2>2. CASE ~ReadCertificates
    BY <1>1, <2>2, Written, DueStays DEF CertificatesWhole
  <2>3. QED
    BY <2>1, <2>2
<1>4. QED
  BY <1>2, <1>3

\* The databases, of sockets that are not read again; the bind sources, of filesystems
\* that are not measured again; and the registries.
LEMMA DatabasesStayWhole ==
  ASSUME Next, DOMAIN read = Fields, DatabasesWhole, BindsWhole, RegistriesWhole
  PROVE  DatabasesWhole' /\ BindsWhole' /\ RegistriesWhole'
<1>1. plan' = plan /\ Moments \subseteq Moments' /\ world \in Moments'
  BY MomentsGrow, Now
<1>2. DatabasesWhole'
  <2>1. CASE ReadSections
    BY <2>1 DEF ReadSections, Collect, DatabasesWhole, DatabasesDue, CertificatesDue, PanelsDue, ProxyDue
  <2>2. CASE ReadDatabases
    <3>1. read'.sockets = read.sockets
      BY <2>2 DEF ReadDatabases, Collect, Fields
    <3>2. QED
      BY <1>1, <2>2, <3>1, Collected DEF DatabasesWhole
  <2>3. CASE ~ReadSections /\ ~ReadDatabases
    BY <1>1, <2>3, Written, DueStays DEF DatabasesWhole
  <2>4. QED
    BY <2>1, <2>2, <2>3
<1>3. BindsWhole'
  <2>1. CASE ReadHost
    BY <2>1 DEF ReadHost, Collect, BindsWhole, BindsDue, DatabasesDue, CertificatesDue, PanelsDue, ProxyDue
  <2>2. CASE ReadBinds
    <3>1. read'.filesystems = read.filesystems
      BY <2>2 DEF ReadBinds, Collect, Fields
    <3>2. QED
      BY <1>1, <2>2, <3>1, Collected DEF BindsWhole
  <2>3. CASE ~ReadHost /\ ~ReadBinds
    BY <1>1, <2>3, Written, DueStays DEF BindsWhole
  <2>4. QED
    BY <2>1, <2>2, <2>3
<1>4. RegistriesWhole'
  <2>1. CASE ProbeRegistries
    BY <1>1, <2>1, Collected DEF RegistriesWhole
  <2>2. CASE ~ProbeRegistries
    BY <1>1, <2>2, Written, DueStays DEF RegistriesWhole
  <2>3. QED
    BY <2>1, <2>2
<1>5. QED
  BY <1>2, <1>3, <1>4

\* What is told is the rules' findings and outcomes, of what was read.
LEMMA ToldStaysWhole ==
  ASSUME Next, ToldWhole
  PROVE  ToldWhole'
<1>1. CASE Judge
  BY <1>1 DEF Judge, ToldWhole
<1>2. CASE ~Judge
  BY <1>2 DEF Next, ReadPlan, ReadSections, ReadHost, ReadEngine, AskProxy, ExpandPattern, VisitFile, ProxyDone, Walking,
     ReadPanels, ReadJobs, ReadCertificates, ReadBackups, ReadDatabases, ReadBinds, ProbeRegistries, Change, Collect,
     ToldWhole, Told
<1>3. QED
  BY <1>1, <1>2

-----------------------------------------------------------------------------
(***************************************************************************)
(* The front of the machine: nothing a server loads is missing from a      *)
(* complete answer, which only a server itself gives.                      *)
(***************************************************************************)

\* The server's own answer, which the walk after it does not lose.
MappedInv ==
  phase = "crawl" /\ ~torn /\ crawl.mapped /\ ~config.cut =>
    LET web == world.web
    IN  \/ crawl.kind = "nginx" /\ crawl.todo = <<>> /\ AllHeld(web, config, "nginx")
        \/ /\ crawl.kind = "apache" /\ ~Present(web.nginx) /\ Answers(web.apache)
           /\ Unnamed(web) => NamesHeld(web, config, web.apache)

\* All the names of both servers, and all their ports where no whole directory is included.
AllFound(web, proxy) ==
  /\ Unnamed(web) => EffectiveNames(web, "nginx") \cup EffectiveNames(web, "apache") \subseteq {n.name : n \in proxy.names}
  /\ \/ \E f \in web.files : f.kind = "dir"
     \/ EffectivePorts(web, "nginx") \cup EffectivePorts(web, "apache") \subseteq proxy.ports

FrontWhole ==
  ~ProxyDue /\ read.proxy.state = "complete" /\ ~read.proxy.noted /\ ~torn => \E w \in Moments : AllFound(w.web, read.proxy)

\* A server that is not there loads nothing.
LEMMA AbsentLoadsNothing ==
  ASSUME NEW web, NEW kind \in {"nginx", "apache"}, ~Present(web[kind])
  PROVE  EffectiveNames(web, kind) = {} /\ EffectivePorts(web, kind) = {}
<1>1. Effective(web, web[kind]) = {}
  BY DEF Present, Effective
<1>2. QED
  BY <1>1 DEF EffectiveNames, EffectivePorts

\* A server that answers gives its names,
LEMMA AskMaps ==
  ASSUME AskProxy, phase' = "crawl", IsWeb(world.web), crawl'.mapped, ~config'.cut
  PROVE  LET web == world.web
         IN  \/ crawl'.kind = "nginx" /\ crawl'.todo = <<>> /\ AllHeld(web, config', "nginx")
             \/ /\ crawl'.kind = "apache" /\ ~Present(web.nginx) /\ Answers(web.apache)
                /\ Unnamed(web) => NamesHeld(web, config', web.apache)
<1> DEFINE web == world.web
           n == web.nginx
           a == web.apache
<1>1. CASE Present(n) /\ Answers(n)
  <2>1. crawl' = [NoCrawl EXCEPT !.kind = "nginx", !.mapped = TRUE] /\ config' = ParseNginxDump(web)
    BY <1>1 DEF AskProxy
  <2>2. DOMAIN NoCrawl = CrawlFields /\ NoCrawl.todo = <<>>
    BY DEF NoCrawl, NewCrawler, CrawlFields
  <2>3. crawl'.kind = "nginx" /\ crawl'.todo = <<>>
    BY <2>1, <2>2 DEF CrawlFields
  <2>4. AllHeld(web, config', "nginx")
    BY <2>1, DumpAll
  <2>5. QED
    BY <2>3, <2>4
<1>2. CASE Present(n) /\ ~Answers(n)
  BY <1>2 DEF AskProxy, WalkNginxTree, NewCrawler
<1>3. CASE ~Present(n) /\ Present(a)
  <2> DEFINE mapped == Answers(a)
  <2>1. /\ config' = IF mapped THEN ParseApacheVhostMap(web) ELSE NoConfiguration
        /\ crawl' = WalkApacheTree(web, a, mapped)
    BY <1>3 DEF AskProxy
  <2>2. crawl'.kind = "apache" /\ crawl'.mapped = mapped
    BY <2>1 DEF WalkApacheTree, NewCrawler
  <2>3. Unnamed(web) => NamesHeld(web, config', a)
    BY <2>1, <2>2, MapAll DEF Answers
  <2>4. QED
    BY <1>3, <2>2, <2>3
<1>4. CASE ~Present(n) /\ ~Present(a)
  BY <1>4 DEF AskProxy
<1>5. QED
  BY <1>1, <1>2, <1>3, <1>4

\* and a file of the walk that follows takes none away.
LEMMA MappedScan ==
  ASSUME VisitFile, crawl.kind # "nginx", crawl.mapped, Gathered(config)
  PROVE  config'.names = config.names /\ config'.cut = config.cut
<1> DEFINE f == CHOOSE g \in Scanned(world.web, crawl) : TRUE
<1>1. config' = IF Scanned(world.web, crawl) = {} THEN config ELSE Scan(f)
  BY DEF VisitFile
<1>2. Scan(f) = [config EXCEPT !.ports = @ \cup ListenPorts("apache", f.listens) \cup f.vhosts]
  BY DEF Scan, ScanApacheConfig
<1> HIDE DEF f
<1>3. Scan(f).names = config.names /\ Scan(f).cut = config.cut
  BY <1>2 DEF Gathered, ConfigFields
<1>4. QED
  BY <1>1, <1>3

\* The answer is kept by every step of the walk.
LEMMA MappedStays ==
  ASSUME Next, Seen, TornInv, MappedInv
  PROVE  MappedInv'
<1> SUFFICES ASSUME phase' = "crawl", ~torn', crawl'.mapped, ~config'.cut
             PROVE  LET web == world'.web
                    IN  \/ crawl'.kind = "nginx" /\ crawl'.todo = <<>> /\ AllHeld(web, config', "nginx")
                        \/ /\ crawl'.kind = "apache" /\ ~Present(web.nginx) /\ Answers(web.apache)
                           /\ Unnamed(web) => NamesHeld(web, config', web.apache)
  BY DEF MappedInv, AllHeld, NamesHeld, Unnamed, Present, Answers
<1>1. IsWeb(world.web) /\ Gathered(config) /\ DOMAIN crawl = CrawlFields
  BY Now, Hosted DEF Seen, ConfigSeen, IsHost
<1>2. CASE AskProxy
  <2>1. world' = world
    BY <1>2 DEF AskProxy, environment
  <2>2. QED
    BY <1>1, <1>2, <2>1, AskMaps
<1>3. CASE ExpandPattern
  <2>1. world' = world /\ config' = config /\ torn' = torn /\ phase = "crawl" /\ crawl.todo # <<>>
        /\ crawl' = ExpandNext(world.web, crawl)
    BY <1>3 DEF ExpandPattern, Walking, environment
  <2>2. crawl'.kind = crawl.kind /\ crawl'.mapped = crawl.mapped
    BY <1>1, <2>1, ExpandIs
  <2>3. QED
    BY <2>1, <2>2 DEF MappedInv
<1>4. CASE VisitFile
  <2>1. world' = world /\ torn' = torn /\ phase = "crawl" /\ crawl.todo # <<>> /\ crawl' = VisitNext(world.web, crawl)
    BY <1>4 DEF VisitFile, Walking, environment
  <2>2. crawl'.kind = crawl.kind /\ crawl'.mapped = crawl.mapped
    BY <1>1, <2>1, VisitIs DEF IsWeb
  <2>3. CASE config.cut
    BY <1>1, <1>4, <2>3, CutStays DEF IsWeb
  <2>4. CASE ~config.cut
    <3>1. /\ crawl.kind = "apache" /\ ~Present(world.web.nginx) /\ Answers(world.web.apache)
          /\ Unnamed(world.web) => NamesHeld(world.web, config, world.web.apache)
      BY <2>1, <2>2, <2>4 DEF MappedInv
    <3>2. config'.names = config.names
      BY <1>1, <1>4, <2>2, <3>1, MappedScan
    <3>3. QED
      BY <2>1, <2>2, <3>1, <3>2 DEF NamesHeld
  <2>5. QED
    BY <2>3, <2>4
<1>5. CASE Change /\ phase = "crawl"
  <2>1. crawl' = crawl /\ config' = config /\ torn' = (world'.web # world.web)
    BY <1>5 DEF Change
  <2>2. ~torn /\ world'.web = world.web
    BY <1>5, <2>1 DEF Change, TornInv
  <2>3. QED
    BY <1>5, <2>1, <2>2 DEF MappedInv
<1>6. QED
  BY <1>2, <1>3, <1>4, <1>5, StillWalking

\* A complete answer is of a server that gave it, and of the only one that is there.
LEMMA CompleteIsMapped ==
  ASSUME ProxyState = "complete"
  PROVE  crawl.mapped /\ ~config.cut /\ ~(crawl.kind = "nginx" /\ Present(world.web.apache))
BY DEF ProxyState, CrawlState

\* When the walk is over, an answer that is complete has everything.
LEMMA DoneIsFound ==
  ASSUME Seen, WalkInv, MappedInv, phase = "crawl", ~torn, crawl.todo = <<>>,
         ProxyState = "complete", ~config.cut, ~Noted(crawl),
         NEW proxy, proxy.names = config.names, proxy.ports = config.ports
  PROVE  AllFound(world.web, proxy)
<1> DEFINE web == world.web
<1>1. IsWeb(web)
  BY Now, Hosted DEF Seen, IsHost
<1>2. crawl.mapped /\ ~(crawl.kind = "nginx" /\ Present(web.apache))
  BY CompleteIsMapped
<1>3. CASE crawl.kind = "nginx" /\ AllHeld(web, config, "nginx")
  <2>1. EffectiveNames(web, "apache") = {} /\ EffectivePorts(web, "apache") = {}
    BY <1>2, <1>3, AbsentLoadsNothing
  <2>2. QED
    BY <1>3, <2>1 DEF AllHeld, AllFound
<1>4. CASE /\ crawl.kind = "apache" /\ ~Present(web.nginx) /\ Answers(web.apache)
           /\ Unnamed(web) => NamesHeld(web, config, web.apache)
  <2>1. EffectiveNames(web, "nginx") = {} /\ EffectivePorts(web, "nginx") = {}
    BY <1>4, AbsentLoadsNothing
  <2>2. Unnamed(web) => EffectiveNames(web, "apache") \subseteq {n.name : n \in proxy.names}
    BY <1>4 DEF NamesHeld, EffectiveNames
  <2>3. ASSUME \A f \in web.files : f.kind # "dir"
        PROVE  EffectivePorts(web, "apache") \subseteq proxy.ports
    <3>1. Plain(web)
      BY <1>4, <2>3 DEF Plain
    <3>2. Walked(web, crawl, config)
      BY <3>1 DEF WalkInv
    <3>3. InOpen(web, web.apache)
      BY <1>1, <1>4 DEF IsWeb, Answers
    <3>4. AllHeld(web, config, "apache")
      BY <1>1, <1>4, <3>1, <3>2, <3>3, DoneIsAll
    <3>5. QED
      BY <3>4 DEF AllHeld
  <2>4. QED
    BY <2>1, <2>2, <2>3 DEF AllFound
<1>5. QED
  BY <1>2, <1>3, <1>4 DEF MappedInv

\* It is handed to the rules so, and where there is no server there is nothing to find.
LEMMA FrontStaysWhole ==
  ASSUME Next, Seen, WalkInv, MappedInv, TornInv, FrontWhole
  PROVE  FrontWhole'
<1> SUFFICES ASSUME ~ProxyDue', read'.proxy.state = "complete", ~read'.proxy.noted, ~torn'
             PROVE  \E w \in Moments' : AllFound(w.web, read'.proxy)
  BY DEF FrontWhole, AllFound, Unnamed
<1>1. DOMAIN read = Fields /\ Moments \subseteq Moments' /\ world \in Moments'
  BY MomentsGrow, Now DEF Seen
<1>2. CASE ProxyDone
  <2> DEFINE noted == config.cut \/ Noted(crawl)
             kind  == crawl.kind
             state == ProxyState
  <2>1. crawl.todo = <<>> /\ phase = "crawl" /\ torn' = torn
    BY <1>2 DEF ProxyDone, Collect, environment
  <2>2. read'.proxy = [kind |-> kind, names |-> config.names, ports |-> config.ports, state |-> state, noted |-> noted]
    BY <1>1, <1>2, Collected
  <2> HIDE DEF kind, noted, state
  <2>3. /\ read'.proxy.names = config.names /\ read'.proxy.ports = config.ports
        /\ state = "complete" /\ ~noted
    BY <2>2
  <2>4. AllFound(world.web, read'.proxy)
    BY <2>1, <2>3, DoneIsFound DEF state, noted
  <2>5. QED
    BY <1>1, <2>4
<1>3. CASE ~ProxyDone /\ ~ProxyDue
  <2>1. read'.proxy = read.proxy /\ ~torn
    BY <1>1, <1>3, Written, TornStays
  <2>2. QED
    BY <1>1, <1>3, <2>1 DEF FrontWhole
<1>4. CASE ~ProxyDone /\ ProxyDue
  <2>1. AskProxy /\ phase' = "panels"
    BY <1>4 DEF Next, ReadPlan, ReadSections, ReadHost, ReadEngine, AskProxy, ExpandPattern, VisitFile, Walking,
       ReadPanels, ReadJobs, ReadCertificates, ReadBackups, ReadDatabases, ReadBinds, ProbeRegistries, Judge, Change,
       Collect, ProxyDue
  <2>2. ~Present(world.web.nginx) /\ ~Present(world.web.apache)
    BY <2>1 DEF AskProxy
  <2>3. /\ EffectiveNames(world.web, "nginx") = {} /\ EffectivePorts(world.web, "nginx") = {}
        /\ EffectiveNames(world.web, "apache") = {} /\ EffectivePorts(world.web, "apache") = {}
    BY <2>2, AbsentLoadsNothing
  <2>4. QED
    BY <1>1, <2>3 DEF AllFound
<1>5. QED
  BY <1>2, <1>3, <1>4

-----------------------------------------------------------------------------
(***************************************************************************)
(* A rule that does not ask for attention, one by one: what it went by is  *)
(* whole, and it found nothing there.                                      *)
(***************************************************************************)

\* Neither the rule's own verdict nor a finding of it presses.
Calm(in, rule) ==
  Verdicts(in)[rule] \notin Pressing /\ \A f \in Findings(in) : f.rule = rule => f.outcome \notin Pressing

\* The most pressing of some outcomes presses if one of them does.
LEMMA MostPressingIs ==
  ASSUME NEW os, MostPressing(os) \notin Pressing
  PROVE  \A o \in os : o \notin Pressing
BY DEF MostPressing, Pressing

\* The outcome of a rule is no less pressing than its verdict and each of its findings.
LEMMA OutcomeIsCalm ==
  ASSUME NEW in, NEW rule \in DOMAIN Verdicts(in), RuleOutcomes(in)[rule] \notin Pressing
  PROVE  Calm(in, rule)
<1> DEFINE all == {f.outcome : f \in {g \in Findings(in) : g.rule = rule}} \cup {Verdicts(in)[rule]}
<1>1. RuleOutcomes(in)[rule] = MostPressing(all)
  BY DEF RuleOutcomes
<1>2. \A o \in all : o \notin Pressing
  BY <1>1, MostPressingIs
<1>3. QED
  BY <1>2 DEF Calm

\* Nobody is in trouble when there is none.
LEMMA IfNot == ASSUME NEW condition, ~condition PROVE If(condition) = {}
BY DEF If

\* A finding of a rule that is calm does not press.
LEMMA CalmIs ==
  ASSUME NEW rule, Calm(read, rule), NEW subject, NEW severity, NEW outcome \in {"problem", "unknown", "manual-check"}
  PROVE  Finding(rule, subject, outcome, severity) \notin Findings(read)
BY DEF Calm, Finding, Pressing

\* There was enough memory available.
LEMMA MemoryFine ==
  ASSUME Seen, HostWhole, phase = "told", Calm(read, "memory")
  PROVE  \E a, b \in Moments : InTrouble(a, b).memory = {}
<1>1. PICK w \in Moments : read.memory = MemInfo(w)
  BY DEF HostWhole, HostDue
<1>2. read.memory.total # 0 /\ (Need(plan) = 0 \/ Need(plan) <= read.memory.available)
  <2>1. read.plan = plan
    BY DEF Seen, PlanRead
  <2>2. \A f \in MemoryShortfall(read) : f.outcome # "unknown" /\ f.outcome # "problem"
    <3>1. \A f \in MemoryShortfall(read) : f.rule = "memory" /\ f \in Findings(read)
      BY DEF MemoryShortfall, Findings, Finding, Problem
    <3>2. QED
      BY <3>1 DEF Calm, Pressing
  <2>3. CASE read.memory.total = 0
    BY <2>2, <2>3 DEF MemoryShortfall, Finding
  <2>4. CASE read.memory.total # 0 /\ Need(plan) # 0 /\ ~(Need(plan) <= read.memory.available)
    <3>1. \E severity : Problem("memory", None, severity) \in MemoryShortfall(read)
      BY <2>1, <2>4 DEF MemoryShortfall
    <3>2. QED
      BY <2>2, <3>1 DEF Problem, Finding
  <2>5. QED
    BY <2>3, <2>4
<1>3. IsMemory(w.memory)
  BY Hosted DEF Seen, IsHost
<1>4. read.memory = w.memory
  BY <1>1, <1>2, <1>3 DEF MemInfo, IsMemory
<1>5. Need(plan) <= w.memory.available
  BY <1>2, <1>3, <1>4 DEF IsMemory
<1>6. InTrouble(w, w).memory = If(~(Need(plan) <= w.memory.available))
  BY DEF InTrouble
<1>7. QED
  BY <1>5, <1>6, IfNot

\* A path is on one filesystem at most.
LEMMA OneFilesystem ==
  ASSUME Seen, NEW w \in Moments, NEW path,
         NEW m \in FilesystemFor(path, Mounted(w)), NEW n \in FilesystemFor(path, Mounted(w))
  PROVE  m = n
<1>1. m \in w.mounts /\ n \in w.mounts /\ ~m.pseudo /\ ~n.pseudo /\ Under(path, m.at) /\ Under(path, n.at)
  BY DEF FilesystemFor, Mounted
<1>2. m.at \in Seq(STRING) /\ n.at \in Seq(STRING)
  BY <1>1, Hosted DEF Seen, IsHost, IsMount
<1>3. Len(m.at) = Len(n.at)
  <2>1. Len(m.at) <= Len(n.at) /\ Len(n.at) <= Len(m.at)
    BY <1>1 DEF FilesystemFor
  <2>2. Len(m.at) \in Nat /\ Len(n.at) \in Nat
    BY <1>2
  <2>3. QED
    BY <2>1, <2>2
<1>4. m.at = n.at
  <2>1. SubSeq(m.at, 1, Len(m.at)) = SubSeq(path, 1, Len(m.at)) /\ SubSeq(n.at, 1, Len(n.at)) = SubSeq(path, 1, Len(n.at))
    BY <1>1 DEF Under, IsPrefix
  <2>2. SubSeq(m.at, 1, Len(m.at)) = m.at /\ SubSeq(n.at, 1, Len(n.at)) = n.at
    BY <1>2
  <2>3. QED
    BY <1>3, <2>1, <2>2
<1>5. QED
  BY <1>1, <1>4, Hosted DEF Seen, IsHost

\* The filesystem the store is on, as one moment has it.
LEMMA StoreIs ==
  ASSUME Seen, HostWhole, phase = "told", ~Unmeasured
  PROVE  \E a, b \in Moments : /\ ShownBy(read.engine, b) /\ read.filesystems = Mounted(a)
                               /\ DeploymentFilesystem(read) = FilesystemFor(StoreRoot(b.engine), Mounted(a))
<1>1. PICK a \in Moments : read.filesystems = Filesystems(a)
  BY DEF HostWhole, HostDue
<1>2. PICK b \in Moments : ShownBy(read.engine, b)
  BY DEF Seen, EngineSeen
<1>3. read.filesystems = Mounted(a)
  BY <1>1, AllMeasured
<1>4. StoreRoot(read.engine) = StoreRoot(b.engine)
  BY <1>2 DEF ShownBy, StoreRoot
<1>5. QED
  BY <1>2, <1>3, <1>4 DEF DeploymentFilesystem

\* Every image was there, or there was room for it.
LEMMA DiskFine ==
  ASSUME Seen, HostWhole, phase = "told", Calm(read, "disk"), ~Unmeasured
  PROVE  \E a, b \in Moments : InTrouble(a, b).disk = {}
<1>1. PICK a, b \in Moments : /\ ShownBy(read.engine, b) /\ read.filesystems = Mounted(a)
                              /\ DeploymentFilesystem(read) = FilesystemFor(StoreRoot(b.engine), Mounted(a))
  BY StoreIs
<1>2. MissingImages(read) = {} \/ \E m \in DeploymentFilesystem(read) : m.available >= MinimumHeadroom
  <2>1. DeploymentFilesystem(read) # {}
    BY DEF Calm, Verdicts, AssessDisk, Pressing
  <2>2. Problem("disk", None, "blocker") \notin DiskShortfall(read)
    BY CalmIs DEF Findings, Problem
  <2>3. QED
    BY <2>1, <2>2 DEF DiskShortfall
<1>3. InTrouble(a, b).disk =
        If(/\ \E s \in Pulled(plan) : \A i \in b.engine.images : i.ref # s.image
           /\ \E m \in FilesystemFor(StoreRoot(b.engine), Mounted(a)) : m.available < MinimumHeadroom)
  BY DEF InTrouble
<1>4. CASE MissingImages(read) = {}
  <2>1. ASSUME NEW s \in Pulled(plan)
        PROVE  \E i \in b.engine.images : i.ref = s.image
    <3>1. PICK i \in read.engine.images : i.ref = s.image
      BY <1>4 DEF MissingImages, Seen, PlanRead
    <3>2. PICK j \in b.engine.images : i = Shown(j)
      BY <1>1 DEF ShownBy
    <3>3. IsImage(j)
      BY Hosted DEF Seen, IsHost, IsEngine
    <3>4. QED
      BY <3>1, <3>2, <3>3, ShownIs
  <2>2. QED
    BY <1>3, <2>1, IfNot
<1>5. CASE \E m \in DeploymentFilesystem(read) : m.available >= MinimumHeadroom
  <2>1. PICK m \in FilesystemFor(StoreRoot(b.engine), Mounted(a)) : m.available >= MinimumHeadroom
    BY <1>1, <1>5
  <2>2. \A n \in FilesystemFor(StoreRoot(b.engine), Mounted(a)) : n = m
    BY OneFilesystem
  <2>3. m.available \in Nat
    BY Hosted DEF Seen, IsHost, IsMount, FilesystemFor, Mounted
  <2>4. \A n \in FilesystemFor(StoreRoot(b.engine), Mounted(a)) : ~(n.available < MinimumHeadroom)
    BY <2>1, <2>2, <2>3, HeadroomIsASize
  <2>5. QED
    BY <1>3, <2>4, IfNot
<1>6. QED
  BY <1>2, <1>4, <1>5

\* The store had inodes to spare, and no filesystem was full.
LEMMA FilesystemsFine ==
  ASSUME Seen, HostWhole, phase = "told", ~Unmeasured
  PROVE  /\ Calm(read, "inodes") => \E a, b \in Moments : InTrouble(a, b).inodes = {}
         /\ Calm(read, "pressure") => \E a, b \in Moments : InTrouble(a, b).pressure = {}
<1>1. PICK a, b \in Moments : /\ read.filesystems = Mounted(a)
                              /\ DeploymentFilesystem(read) = FilesystemFor(StoreRoot(b.engine), Mounted(a))
  BY StoreIs
<1>2. ASSUME Calm(read, "inodes") PROVE InTrouble(a, b).inodes = {}
  <2>1. ASSUME NEW m \in DeploymentFilesystem(read), m.inodes > 0 /\ InodesUsedPercent(m) >= 90 PROVE FALSE
    <3>1. Problem("inodes", None, Pressed(InodesUsedPercent(m))) \in InodeShortfall(read)
      BY <2>1 DEF InodeShortfall
    <3>2. QED
      BY <1>2, <3>1, CalmIs DEF Findings, Problem
  <2>2. InTrouble(a, b).inodes =
          If(\E m \in FilesystemFor(StoreRoot(b.engine), Mounted(a)) : m.inodes > 0 /\ InodesUsedPercent(m) >= 90)
    BY DEF InTrouble
  <2>3. QED
    BY <1>1, <2>1, <2>2, IfNot
<1>3. ASSUME Calm(read, "pressure") PROVE InTrouble(a, b).pressure = {}
  <2>1. ASSUME NEW m \in Mounted(a), ~m.readOnly /\ UsedPercent(m) >= 90 PROVE FALSE
    <3>1. Problem("pressure", m.at, Pressed(UsedPercent(m))) \in DiskPressure(read)
      BY <1>1, <2>1 DEF DiskPressure
    <3>2. QED
      BY <1>3, <3>1, CalmIs DEF Findings, Problem
  <2>2. InTrouble(a, b).pressure = {m.at : m \in {n \in Mounted(a) : ~n.readOnly /\ UsedPercent(n) >= 90}}
    BY DEF InTrouble
  <2>3. QED
    BY <2>1, <2>2
<1>4. QED
  BY <1>2, <1>3

\* A machine runs what is called as it is.
LEMMA MatchRuns ==
  ASSUME NEW uname, NEW arch, NormaliseArch(arch) = NormaliseArch(uname)
  PROVE  RunsOn(uname, arch)
<1> USE DEF RunsOn, NormaliseArch, Amd64, I386, Arm64, ArmV7, ArmV6
<1>1. CASE uname \in Amd64
  BY <1>1
<1>2. CASE uname \in Arm64
  BY <1>2
<1>3. CASE uname \in ArmV7
  BY <1>3
<1>4. CASE uname \in ArmV6
  BY <1>4
<1>5. CASE uname \in I386
  BY <1>5
<1>6. CASE uname \notin Amd64 \cup Arm64 \cup ArmV7 \cup ArmV6 \cup I386
  BY <1>6
<1>7. QED
  BY <1>1, <1>2, <1>3, <1>4, <1>5, <1>6

\* The machine ran every image and every platform that was pinned.
LEMMA ArchitectureFine ==
  ASSUME Seen, HostWhole, phase = "told", Calm(read, "architecture"), ~UnseenImage
  PROVE  \E a, b \in Moments : InTrouble(a, b).architecture = {}
<1>1. PICK a \in Moments : read.arch = a.uname
  BY DEF HostWhole, HostDue
<1>2. PICK b \in Moments : ShownBy(read.engine, b)
  BY DEF Seen, EngineSeen
<1>3. /\ read.arch # None
      /\ \A s \in Pulled(plan) : s.platform = None => \E i \in ImagesOf(read, s) : i.arch # None
  BY DEF Calm, Verdicts, AssessArchitecture, Pressing, Seen, PlanRead
<1>4. ASSUME NEW s \in plan.services
      PROVE  /\ s.platform # None => NormaliseArch(s.platform) = NormaliseArch(read.arch)
             /\ \A i \in ImagesOf(read, s) : i.arch # None => NormaliseArch(i.arch) = NormaliseArch(read.arch)
  <2>1. Problem("architecture", s.name, "blocker") \notin ArchitectureMismatch(read)
    BY CalmIs DEF Findings, Problem
  <2>2. QED
    BY <1>3, <2>1 DEF ArchitectureMismatch, Seen, PlanRead
<1>5. ASSUME NEW s \in plan.services, NEW arch \in Unfit(b, s) \ {None}
      PROVE  RunsOn(a.uname, arch)
  <2>1. CASE arch = s.platform
    BY <1>1, <1>4, <2>1, MatchRuns
  <2>2. ASSUME NEW j \in b.engine.images, j.ref = s.image, arch = j.arch PROVE RunsOn(a.uname, arch)
    <3>1. IsEngine(b.engine) /\ IsImage(j)
      BY Hosted DEF Seen, IsHost, IsEngine
    <3>2. PICK i \in ImagesOf(read, s) : i.arch # None
      BY <1>3, <2>2, <3>1 DEF UnseenImage, Pulled, IsImage
    <3>3. PICK k \in b.engine.images : i = Shown(k)
      BY <1>2 DEF ShownBy, ImagesOf
    <3>4. k.ref = s.image /\ k.arch = i.arch
      BY <3>1, <3>2, <3>3, ShownIs DEF IsEngine, ImagesOf
    <3>5. k = j
      BY <2>2, <3>1, <3>4 DEF IsEngine
    <3>6. QED
      BY <1>1, <1>4, <2>2, <3>2, <3>4, <3>5, MatchRuns
  <2>3. QED
    BY <2>1, <2>2 DEF Unfit
<1>6. InTrouble(a, b).architecture =
        {s.name : s \in {t \in plan.services : \E arch \in Unfit(b, t) \ {None} : ~RunsOn(a.uname, arch)}}
  BY DEF InTrouble
<1>7. QED
  BY <1>5, <1>6

\* There was an engine with its Compose.
LEMMA RuntimeFine ==
  ASSUME Seen, phase = "told", Calm(read, "runtime")
  PROVE  \E a, b \in Moments : InTrouble(a, b).runtime = {}
<1>1. PICK w \in Moments : ShownBy(read.engine, w)
  BY DEF Seen, EngineSeen
<1>2. w.engine.compose \in {"plugin", "standalone", "none"}
  BY Hosted DEF Seen, IsHost, IsEngine
<1>3. \A severity : Problem("runtime", None, severity) \notin RuntimeVersion(read)
  BY CalmIs DEF Findings, Problem
<1>4. read.engine.kind # "none" /\ read.engine.compose \notin {"none", "standalone"}
  BY <1>3 DEF RuntimeVersion
<1>5. InTrouble(w, w).runtime = If(w.engine.kind = "none" \/ w.engine.compose # "plugin")
  BY DEF InTrouble
<1>6. QED
  BY <1>1, <1>2, <1>4, <1>5, IfNot DEF ShownBy

\* Every registry was reached.
LEMMA RegistryFine ==
  ASSUME Seen, RegistriesWhole, phase = "told", Calm(read, "registry")
  PROVE  \E a, b \in Moments : InTrouble(a, b).registry = {}
<1>1. \A w : InTrouble(w, w).registry = RegistriesOf(plan) \ w.registries
  BY DEF InTrouble
<1>2. CASE RegistriesOf(plan) = {}
  BY <1>1, <1>2, Now
<1>3. CASE RegistriesOf(plan) # {}
  <2>1. plan.egress
    <3>1. Finding("registry", None, "unknown", "info") \notin RegistryReachability(read)
      BY CalmIs DEF Findings
    <3>2. QED
      BY <1>3, <3>1 DEF RegistryReachability, Seen, PlanRead
  <2>2. PICK w \in Moments :
          read.registries = {[name |-> r, reached |-> r \in w.registries] : r \in RegistriesOf(plan)}
    BY <2>1 DEF RegistriesWhole, RegistriesDue, BindsDue, DatabasesDue, CertificatesDue, PanelsDue, ProxyDue
  <2>3. ASSUME NEW r \in RegistriesOf(plan), r \notin w.registries PROVE FALSE
    <3> DEFINE probe == [name |-> r, reached |-> r \in w.registries]
    <3>1. probe \in read.registries
      BY <2>2
    <3>2. probe.name = r /\ ~probe.reached
      BY <2>3, Zenon
    <3> HIDE DEF probe
    <3>3. Problem("registry", r, "blocker") \in RegistryReachability(read)
      BY <1>3, <2>1, <3>1, <3>2 DEF RegistryReachability, Seen, PlanRead
    <3>4. QED
      BY <3>3, CalmIs DEF Findings, Problem
  <2>4. QED
    BY <1>1, <2>3
<1>4. QED
  BY <1>2, <1>3

\* The data directory that is found, where a kind has one and it is not Redis'.
LEMMA DirectoryIs ==
  ASSUME NEW w, NEW d \in w.data, d.kind # "redis", d.version \in Nat, d.standard, d.access = "read",
         \A e \in w.data : e.kind \in KeptWith(d.kind) => e = d
  PROVE  DataDirectory(w, d.kind).version = d.version
<1> DEFINE found == {e \in w.data : e.kind \in KeptWith(d.kind) /\ e.standard /\ (d.kind = "postgres" => e.access = "read")}
           first == CHOOSE e \in found : \A f \in found : e.version <= f.version
<1>1. found = {d}
  BY DEF KeptWith
<1>2. DataDirectory(w, d.kind) = [at |-> first.at, version |-> IF first.access = "read" /\ d.kind # "redis" THEN first.version ELSE 0]
  BY <1>1 DEF DataDirectory
<1>3. first = d
  <2>1. \A f \in found : d.version <= f.version
    BY <1>1
  <2>2. first \in found
    BY <1>1, <2>1
  <2>3. QED
    BY <1>1, <2>2
<1> HIDE DEF first
<1>4. QED
  BY <1>2, <1>3

\* Every database whose version could be seen was of the version the plan has.
LEMMA DatabaseFine ==
  ASSUME Seen, SocketsWhole, DatabasesWhole, phase = "told", Calm(read, "database"), ~UnseenDatabase, plan.ports
  PROVE  \E a, b \in Moments : InTrouble(a, b).database = {}
<1>1. PICK v \in Moments : read.sockets = v.listeners
  BY DEF SocketsWhole, SectionsDue
<1>2. PICK w \in Moments : read.databases = Databases(w, v.listeners)
  BY <1>1 DEF DatabasesWhole, DatabasesDue, CertificatesDue, PanelsDue, ProxyDue
<1>3. ASSUME NEW s \in plan.services, s.major # 0, NEW d \in w.data, d.version # s.major PROVE FALSE
  <2>1. /\ d.kind # "redis" /\ d.standard /\ d.access = "read" /\ (\E l \in v.listeners : DatabaseKind(l) = d.kind)
        /\ \A e \in w.data : (e.kind = d.kind => e = d) /\ s.db = e.kind
    BY <1>3 DEF UnseenDatabase
  <2>2. IsData(d)
    BY Hosted DEF Seen, IsHost
  <2>3. \A e \in w.data : e = d
    BY <2>1
  <2>4. DataDirectory(w, d.kind).version = d.version
    BY <2>1, <2>2, <2>3, DirectoryIs DEF IsData
  <2> DEFINE at      == DataDirectory(w, d.kind).at
             version == DataDirectory(w, d.kind).version
             x       == [kind |-> d.kind, at |-> at, version |-> version]
  <2>5. x \in read.databases
    BY <1>2, <2>1, <2>2 DEF Databases, IsData
  <2> HIDE DEF at, version
  <2>6. x.kind = s.db /\ x.version \notin {0, s.major} /\ s.db # None
    BY <1>3, <2>1, <2>2, <2>4 DEF version, IsData
  <2> HIDE DEF x
  <2>7. \E severity : Problem("database", s.name, severity) \in DatabaseVersionMismatch(read)
    BY <1>3, <2>5, <2>6 DEF DatabaseVersionMismatch, Seen, PlanRead
  <2>8. QED
    BY <2>7, CalmIs DEF Findings, Problem
<1>4. InTrouble(w, w).database =
        {s.name : s \in {t \in plan.services : t.major # 0 /\ \E d \in w.data : SameEngine(t.db, d.kind) /\ d.version # t.major}}
  BY DEF InTrouble
<1>5. QED
  BY <1>3, <1>4

\* An installed panel that hides nothing is detected, with all its ports.
LEMMA PanelIs ==
  ASSUME Seen, NEW w \in Moments, NEW q \in w.panels, q.installed, ~HiddenPanel, NEW p \in q.ports \cup {q.port}
  PROVE  DetectedPanel(w, q) \in Panels(w) /\ p \in DetectedPanel(w, q).ports
<1>1. IsPanel(q)
  BY Hosted DEF Seen, IsHost
<1>2. "denied" \notin {q.strong, q.weak} /\ q.portFile # "denied"
  BY DEF HiddenPanel
<1>3. ByMarkers(q)
  BY <1>1, <1>2 DEF IsPanel, ByMarkers
<1>4. p \in OwnsPorts(q)
  BY <1>1, <1>2 DEF IsPanel, OwnsPorts
<1>5. QED
  BY <1>3, <1>4 DEF Panels, DetectedPanel

\* Neither a server nor a panel held a port of the plan.
LEMMA FrontFine ==
  ASSUME Seen, FrontWhole, PanelsWhole, phase = "told", Calm(read, "front"),
         read.proxy.state = "complete", ~read.proxy.noted, ~torn, ~HiddenPanel, ~DirectoryIncluded
  PROVE  \E a, b \in Moments : InTrouble(a, b).front = {}
<1>1. PICK a \in Moments : AllFound(a.web, read.proxy)
  BY DEF FrontWhole, ProxyDue
<1>2. PICK b \in Moments : read.panels = Panels(b)
  BY DEF PanelsWhole, PanelsDue, ProxyDue
<1>3. Loaded(a, "nginx") \cup Loaded(a, "apache") \subseteq read.proxy.ports
  BY <1>1 DEF AllFound, DirectoryIncluded, Loaded
<1>4. ASSUME NEW p \in WebPorts(plan), p \in read.proxy.ports \/ \E panel \in read.panels : p \in panel.ports PROVE FALSE
  <2>1. Collides(plan, p) \in ProxyPortConflict(read)
    BY <1>4 DEF ProxyPortConflict, Seen, PlanRead
  <2>2. Collides(plan, p) \notin Findings(read)
    BY CalmIs DEF Collides, Problem, Unknown
  <2>3. QED
    BY <2>1, <2>2 DEF Findings
<1>5. ASSUME NEW p \in WebPorts(plan), NEW q \in b.panels, q.installed, p \in q.ports \cup {q.port} PROVE FALSE
  <2>1. DetectedPanel(b, q) \in read.panels /\ p \in DetectedPanel(b, q).ports
    BY <1>2, <1>5, PanelIs
  <2>2. QED
    BY <1>4, <2>1
<1>6. InTrouble(a, b).front =
        {p \in WebPorts(plan) :
           /\ \E s \in plan.services : [port |-> p, protocol |-> "tcp"] \in s.publishes
           /\ p \in Loaded(a, "nginx") \cup Loaded(a, "apache")
                    \cup UNION {q.ports \cup {q.port} : q \in {r \in b.panels : r.installed}}}
  BY DEF InTrouble
<1>7. \A p \in WebPorts(plan) : p \notin Loaded(a, "nginx") \cup Loaded(a, "apache")
  BY <1>3, <1>4
<1>8. \A p \in WebPorts(plan) : p \notin UNION {q.ports \cup {q.port} : q \in {r \in b.panels : r.installed}}
  BY <1>5
<1>9. QED
  BY <1>6, <1>7, <1>8

\* Neither server served a domain of the plan.
LEMMA DomainFine ==
  ASSUME Seen, FrontWhole, phase = "told", Calm(read, "domain"),
         read.proxy.state = "complete", ~read.proxy.noted, ~torn, ~MainServerNamed
  PROVE  \E a, b \in Moments : InTrouble(a, b).domain = {}
<1>1. PICK a \in Moments : AllFound(a.web, read.proxy)
  BY DEF FrontWhole, ProxyDue
<1>2. EffectiveNames(a.web, "nginx") \cup EffectiveNames(a.web, "apache") \subseteq {n.name : n \in read.proxy.names}
  BY <1>1 DEF AllFound, Unnamed, MainServerNamed
<1>3. ASSUME NEW d \in DomainsOf(plan), d \in {n.name : n \in read.proxy.names} PROVE FALSE
  <2>1. Problem("domain", d, "warning") \in DomainConflict(read)
    BY <1>3 DEF DomainConflict, Seen, PlanRead
  <2>2. QED
    BY <2>1, CalmIs DEF Findings, Problem
<1>4. InTrouble(a, a).domain = DomainsOf(plan) \cap (EffectiveNames(a.web, "nginx") \cup EffectiveNames(a.web, "apache"))
  BY DEF InTrouble
<1>5. QED
  BY <1>2, <1>3, <1>4

\* A bind mount's source was there, and could be written to where it is.
LEMMA SourceFine ==
  ASSUME Seen, Calm(read, "bind"), NEW s \in plan.services, NEW m \in BindsOf(s),
         NEW source \in read.binds, source.path.at = m.at
  PROVE  /\ source.path.state \notin {"denied", "dangling"}
         /\ source.path.state = "missing" => m.create # "no"
         /\ source.path.state # "missing" => m.ro \/ ~source.readOnlyFS
<1>1. BindSourceFindings(read, s, m, source) \subseteq Findings(read)
  <2>1. BindSourceFindings(read, s, m, source) \subseteq BindPathConflicts(read)
    BY DEF BindPathConflicts, Seen, PlanRead
  <2>2. QED
    BY <2>1 DEF Findings
<1>2. \A subject, severity : Problem("bind", subject, severity) \notin Findings(read) /\ Unknown("bind", subject) \notin Findings(read)
  BY CalmIs DEF Problem, Unknown
<1>3. QED
  BY <1>1, <1>2 DEF BindSourceFindings

\* Every bind source was there, not on a read-only filesystem, and none of the host's own.
LEMMA BindFine ==
  ASSUME Seen, HostWhole, BindsWhole, phase = "told", Calm(read, "bind"), ~Unmeasured, ~MissingOnReadOnly
  PROVE  \E a, b \in Moments : InTrouble(a, b).bind = {}
<1>1. PICK a \in Moments : read.filesystems = Filesystems(a)
  BY DEF HostWhole, HostDue
<1>2. PICK b \in Moments : read.binds = BindSources(b, Binds(plan), read.filesystems)
  BY DEF BindsWhole, BindsDue, DatabasesDue, CertificatesDue, PanelsDue, ProxyDue
<1>3. read.filesystems = Mounted(a)
  BY <1>1, AllMeasured
<1>4. ASSUME NEW n \in Binds(plan)
      PROVE  /\ ~(StatPath(b, n.at).state = "missing" /\ (n.create = "no" \/ OnReadOnly(a, n.at)))
             /\ ~(~n.ro /\ OnReadOnly(a, n.at)) /\ ~SensitiveHostPath(n.at)
  <2> DEFINE path == StatPath(b, n.at)
             readOnly == OnReadOnly(a, n.at)
             source == [path |-> path, readOnlyFS |-> readOnly]
  <2>1. PICK s \in plan.services : n \in BindsOf(s)
    BY DEF Binds
  <2>2. source \in read.binds
    BY <1>2, <1>3 DEF BindSources, OnReadOnly
  <2>3. path.at = n.at
    BY StatPathIs
  <2>4. ~(path.state = "missing" /\ readOnly)
    BY DEF MissingOnReadOnly
  <2> HIDE DEF path, readOnly
  <2>5. source.path = path /\ (source.readOnlyFS <=> readOnly)
    BY Zenon
  <2> HIDE DEF source
  <2>6. /\ path.state = "missing" => n.create # "no"
        /\ path.state # "missing" => n.ro \/ ~readOnly
    BY <2>1, <2>2, <2>3, <2>5, SourceFine
  <2>7. ~SensitiveHostPath(n.at)
    <3>1. Problem("bind", n.at, "warning") \notin BindPathConflicts(read)
      BY CalmIs DEF Findings, Problem
    <3>2. QED
      BY <3>1 DEF BindPathConflicts, Seen, PlanRead
  <2>8. QED
    BY <2>4, <2>6, <2>7 DEF path, readOnly
<1>5. InTrouble(a, b).bind =
        {m.at : m \in {n \in Binds(plan) :
           \/ StatPath(b, n.at).state = "missing" /\ (n.create = "no" \/ OnReadOnly(a, n.at))
           \/ ~n.ro /\ OnReadOnly(a, n.at)
           \/ SensitiveHostPath(n.at)}}
  BY DEF InTrouble
<1>6. QED
  BY <1>4, <1>5

\* Every file of `env_file` that has to be there was.
LEMMA EnvFine ==
  ASSUME Seen, EnvWhole, phase = "told", Calm(read, "env")
  PROVE  \E a, b \in Moments : InTrouble(a, b).env = {}
<1>1. PICK w \in Moments : read.env = {StatPath(w, e.at) : e \in UNION {s.env : s \in plan.services}}
  BY DEF EnvWhole, EnvDue
<1>2. ASSUME NEW s \in plan.services, NEW f \in s.env, ~f.optional, StatPath(w, f.at).state \in {"missing", "dangling"}
      PROVE  FALSE
  <2> DEFINE e == StatPath(w, f.at)
  <2>1. e \in read.env /\ e.at = f.at
    BY <1>1, StatPathIs
  <2>2. e.state # "there" /\ e.state # "denied"
    BY <1>2
  <2> HIDE DEF e
  <2>3. Problem("env", e.at, "blocker") \in MissingEnvFiles(read)
    BY <1>2, <2>1, <2>2 DEF MissingEnvFiles, Seen, PlanRead
  <2>4. QED
    BY <2>3, CalmIs DEF Findings, Problem
<1>3. InTrouble(w, w).env = {e.at : e \in {f \in UNION {s.env : s \in plan.services} :
                               ~f.optional /\ StatPath(w, f.at).state \in {"missing", "dangling"}}}
  BY DEF InTrouble
<1>4. QED
  BY <1>2, <1>3

\* There was a fresh backup, where there is data to lose; and of the rollback something
\* is always left to confirm.
LEMMA BackupFine ==
  ASSUME Seen, phase = "told"
  PROVE  /\ Calm(read, "backup") => \E a, b \in Moments : InTrouble(a, b).backup = {}
         /\ ~Calm(read, "rollback")
<1>1. PICK w \in Moments : read.backup.locations = Locations(w)
  BY LocationsSeen
<1>2. ASSUME Calm(read, "backup") PROVE InTrouble(w, w).backup = {}
  <2>1. InTrouble(w, w).backup = If(PersistentData(plan) # {} /\ \A d \in w.backups.dirs : Stale(d))
    BY DEF InTrouble
  <2>2. CASE PersistentData(plan) = {}
    BY <2>1, <2>2, IfNot
  <2>3. CASE PersistentData(plan) # {}
    <3>1. ~(read.backup.locations = {} /\ read.backup.tools)
      BY <1>2, <2>3 DEF Calm, Verdicts, AssessBackup, Pressing, Seen, PlanRead
    <3>2. Problem("backup", None, "warning") \notin BackupGap(read)
      BY <1>2, CalmIs DEF Findings, Problem
    <3>3. PICK l \in read.backup.locations : Fresh(l)
      BY <2>3, <3>1, <3>2 DEF BackupGap, Seen, PlanRead
    <3>4. PICK d \in w.backups.dirs : l = ScanLocation(d)
      BY <1>1, <3>3 DEF Locations
    <3>5. d.age \in Nat
      BY Hosted DEF Seen, IsHost
    <3>6. ~Stale(d)
      <4> DEFINE dated == d.access = "read" /\ ~d.empty
      <4>1. l = [path |-> d.path, dated |-> dated, age |-> d.age]
        BY <3>4 DEF ScanLocation
      <4>2. (l.dated => dated) /\ l.age = d.age
        BY <4>1, Zenon
      <4>3. ~d.empty /\ d.age <= 30
        BY <3>3, <4>2 DEF Fresh
      <4>4. QED
        BY <3>5, <4>3 DEF Stale
    <3>7. QED
      BY <2>1, <3>6, IfNot
  <2>4. QED
    BY <2>2, <2>3
<1>3. ASSUME Calm(read, "rollback") PROVE FALSE
  <2>1. /\ Problem("rollback", None, "warning") \notin RollbackGap(read)
        /\ Finding("rollback", None, "manual-check", "info") \notin RollbackGap(read)
    BY <1>3, CalmIs DEF Findings, Problem
  <2>2. QED
    BY <2>1 DEF RollbackGap
<1>4. QED
  BY <1>2, <1>3

\* Where the walk of the roots comes to every certificate, all of them are opened.
LEMMA AllGathered ==
  ASSUME Seen, ~UnseenCertificate, NEW w \in Moments
  PROVE  w.certs \subseteq GatherFiles(w)
<1> DEFINE S == {c \in w.certs : c.candidate /\ ~c.deep /\ c.access # "unlisted"}
           found == SetToSeq(S)
           n == Cardinality(S)
           k == IF Len(found) < MaxCertFiles THEN Len(found) ELSE MaxCertFiles
<1>1. S = w.certs /\ ~(Cardinality(w.certs) > MaxCertFiles) /\ IsFiniteSet(w.certs)
  BY Hosted DEF UnseenCertificate, Seen, IsHost
<1>2. GatherFiles(w) = ToSet(SubSeq(found, 1, k))
  BY DEF GatherFiles
<1> HIDE DEF S
<1>3. /\ n \in Nat /\ Len(found) = n /\ found \in Seq(S) /\ n <= MaxCertFiles
      /\ \A x \in S : \E i \in 1..n : found[i] = x
  <2>1. /\ n \in Nat /\ Len(found) = n /\ found \in Seq(S)
        /\ \A x \in S : \E i \in 1..n : found[i] = x
    BY <1>1, SetToSeqIs
  <2>2. QED
    BY <1>1, <2>1, MaxCertFilesIsACount
<1> HIDE DEF found, n
<1>4. SubSeq(found, 1, k) = found
  BY <1>3, MaxCertFilesIsACount
<1>5. S \subseteq ToSet(found)
  BY <1>3 DEF ToSet
<1>6. QED
  BY <1>1, <1>2, <1>4, <1>5

\* No certificate was about to run out.
LEMMA CertificateFine ==
  ASSUME Seen, CertificatesWhole, phase = "told", Calm(read, "certificate"), ~UnseenCertificate
  PROVE  \E a, b \in Moments : InTrouble(a, b).certificate = {}
<1>1. PICK w \in Moments : \E jobs : read.certificates = Certificates(w, jobs)
  BY DEF CertificatesWhole, CertificatesDue, PanelsDue, ProxyDue
<1>2. PICK tools : read.certificates = UNION {Certificate(w, c, tools) : c \in GatherFiles(w)}
  BY <1>1 DEF Certificates
<1>3. ASSUME NEW d \in w.certs, d.holds = "certificate", ~d.trustStore, d.days <= 30 PROVE FALSE
  <2>1. Certificate(w, d, tools) \subseteq read.certificates
    BY <1>2, AllGathered
  <2>2. PICK c \in Certificate(w, d, tools) : c.path = d.path /\ (c.dated => c.days = d.days)
    BY <1>3 DEF Certificate
  <2>3. c.dated
    BY <2>1, <2>2 DEF Calm, Verdicts, AssessCertificates, Pressing
  <2>4. \E severity : Problem("certificate", c.path, severity) \in CertificateExpiry(read)
    BY <1>3, <2>1, <2>2, <2>3 DEF CertificateExpiry
  <2>5. QED
    BY <2>4, CalmIs DEF Findings, Problem
<1>4. InTrouble(w, w).certificate =
        {c.path : c \in {d \in w.certs : d.holds = "certificate" /\ ~d.trustStore /\ d.days <= 30}}
  BY DEF InTrouble
<1>5. QED
  BY <1>3, <1>4

\* No reboot was pending.
LEMMA RebootFine ==
  ASSUME Seen, RebootWhole, phase = "told", Calm(read, "reboot")
  PROVE  \E a, b \in Moments : InTrouble(a, b).reboot = {}
<1>1. read.reboot # "unknown"
  BY DEF Calm, Verdicts, AssessReboot, Pressing
<1>2. read.reboot # "yes"
  <2>1. Problem("reboot", None, "warning") \notin RebootPending(read)
    BY CalmIs DEF Findings, Problem
  <2>2. QED
    BY <2>1 DEF RebootPending
<1>3. PICK w \in Moments : read.reboot = RebootRequired(w)
  BY <1>1 DEF RebootWhole, SectionsDue
<1>4. ~w.reboot.needed
  BY <1>1, <1>2, <1>3 DEF RebootRequired
<1>5. InTrouble(w, w).reboot = If(w.reboot.needed)
  BY DEF InTrouble
<1>6. QED
  BY <1>4, <1>5, IfNot

-----------------------------------------------------------------------------

\* The inductive invariant: what the rules went by is whole.
WholeInv ==
  /\ FoundInv /\ MappedInv /\ FrontWhole
  /\ EnvWhole /\ SocketsWhole /\ RebootWhole /\ HostWhole /\ PanelsWhole /\ CertificatesWhole
  /\ DatabasesWhole /\ BindsWhole /\ RegistriesWhole /\ ToldWhole

\* At first every collector is due,
LEMMA WholeFirst == Init => WholeInv
<1> SUFFICES ASSUME Init PROVE WholeInv
  OBVIOUS
<1>1. FoundInv
  BY FoundFirst
<1>2. phase = "plan"
  BY DEF Init
<1>3. MappedInv /\ FrontWhole /\ ToldWhole
  BY <1>2 DEF MappedInv, FrontWhole, ProxyDue, ToldWhole, Told
<1>4. /\ EnvWhole /\ SocketsWhole /\ RebootWhole /\ HostWhole /\ PanelsWhole /\ CertificatesWhole
      /\ DatabasesWhole /\ BindsWhole /\ RegistriesWhole
  BY <1>2 DEF EnvWhole, EnvDue, SocketsWhole, RebootWhole, SectionsDue, HostWhole, HostDue, PanelsWhole, PanelsDue, ProxyDue,
     CertificatesWhole, CertificatesDue, DatabasesWhole, DatabasesDue, BindsWhole, BindsDue, RegistriesWhole, RegistriesDue
<1>5. QED
  BY <1>1, <1>3, <1>4 DEF WholeInv

\* every step keeps it,
LEMMA WholeStays == WholeInv /\ [Next]_vars => WholeInv'
<1> SUFFICES ASSUME WholeInv, [Next]_vars PROVE WholeInv'
  OBVIOUS
<1>1. FoundInv'
  BY FoundStays DEF WholeInv
<1>2. Seen /\ DOMAIN read = Fields /\ WalkInv /\ TornInv
  BY DEF WholeInv, FoundInv, TypeInv, Seen
<1>3. CASE Next
  <2>1. MappedInv' /\ FrontWhole'
    BY <1>2, <1>3, MappedStays, FrontStaysWhole DEF WholeInv
  <2>2. EnvWhole' /\ SocketsWhole' /\ RebootWhole' /\ HostWhole'
    BY <1>2, <1>3, SectionsWhole DEF WholeInv
  <2>3. PanelsWhole' /\ CertificatesWhole'
    BY <1>2, <1>3, PanelsStayWhole DEF WholeInv
  <2>4. DatabasesWhole' /\ BindsWhole' /\ RegistriesWhole'
    BY <1>2, <1>3, DatabasesStayWhole DEF WholeInv
  <2>5. ToldWhole'
    BY <1>3, ToldStaysWhole DEF WholeInv
  <2>6. QED
    BY <1>1, <2>1, <2>2, <2>3, <2>4, <2>5 DEF WholeInv
<1>4. CASE UNCHANGED vars
  <2>1. /\ phase' = phase /\ plan' = plan /\ torn' = torn /\ world' = world /\ before' = before /\ crawl' = crawl
        /\ config' = config /\ read' = read /\ told' = told
    BY <1>4 DEF vars
  <2>2. MappedInv' /\ FrontWhole' /\ ToldWhole'
    BY <2>1 DEF WholeInv, MappedInv, FrontWhole, ProxyDue, AllFound, Unnamed, AllHeld, NamesHeld, Moments, ToldWhole, Told
  <2>3. /\ EnvWhole' /\ SocketsWhole' /\ RebootWhole' /\ HostWhole' /\ PanelsWhole' /\ CertificatesWhole'
        /\ DatabasesWhole' /\ BindsWhole' /\ RegistriesWhole'
    BY <2>1 DEF WholeInv, Moments, EnvWhole, EnvDue, SocketsWhole, RebootWhole, SectionsDue, HostWhole, HostDue, PanelsWhole,
       PanelsDue, ProxyDue, CertificatesWhole, CertificatesDue, DatabasesWhole, DatabasesDue, BindsWhole, BindsDue,
       RegistriesWhole, RegistriesDue
  <2>4. QED
    BY <1>1, <2>2, <2>3 DEF WholeInv
<1>5. QED
  BY <1>3, <1>4

\* A rule that does not press found nobody in trouble, at some pair of moments.
Untroubled(rule) == \E a, b \in Moments : InTrouble(a, b)[rule] = {}

\* and what silence is worth follows, rule by rule.
LEMMA WholeIsFine == WholeInv => FineIsTrue
<1> SUFFICES ASSUME WholeInv, Told, NEW rule \in DOMAIN told.outcomes, told.outcomes[rule] \notin Pressing
             PROVE  \/ Untroubled(rule)
                    \/ rule \in {"disk", "inodes", "pressure", "bind"} /\ Unmeasured
                    \/ rule \in {"front", "domain"} /\ (read.proxy.state # "complete" \/ read.proxy.noted \/ torn)
                    \/ rule = "architecture" /\ UnseenImage
                    \/ rule = "domain" /\ MainServerNamed
                    \/ rule = "front" /\ (HiddenPanel \/ DirectoryIncluded)
                    \/ rule = "bind" /\ MissingOnReadOnly
                    \/ rule = "database" /\ (UnseenDatabase \/ ~plan.ports)
                    \/ rule = "certificate" /\ UnseenCertificate
  <2>1. \A r : Untroubled(r) => \E trouble \in Cases : trouble[r] = {}
    BY DEF Untroubled, Cases
  <2>2. QED
    BY <2>1 DEF FineIsTrue
<1>1. Seen /\ phase = "told"
  BY DEF WholeInv, FoundInv, TypeInv, Told
<1>2. /\ rule \in DOMAIN Verdicts(read) /\ Calm(read, rule)
  <2>1. told = [findings |-> Findings(read), outcomes |-> RuleOutcomes(read)]
    BY DEF WholeInv, ToldWhole
  <2>2. told.outcomes = RuleOutcomes(read)
    BY <2>1
  <2>3. DOMAIN RuleOutcomes(read) = DOMAIN Verdicts(read)
    BY DEF RuleOutcomes
  <2>4. QED
    BY <2>2, <2>3, OutcomeIsCalm
<1>3. rule \in {"memory", "disk", "inodes", "pressure", "architecture", "runtime", "registry", "database",
                "front", "domain", "bind", "env", "backup", "rollback", "certificate", "reboot"}
  BY <1>2 DEF Verdicts
<1> USE DEF WholeInv, Untroubled
<1>4. CASE rule \in {"memory", "runtime", "registry", "database"}
  BY <1>1, <1>2, <1>4, MemoryFine, RuntimeFine, RegistryFine, DatabaseFine
<1>5. CASE rule \in {"disk", "inodes", "pressure", "architecture"}
  BY <1>1, <1>2, <1>5, DiskFine, FilesystemsFine, ArchitectureFine
<1>6. CASE rule \in {"front", "domain", "bind"}
  BY <1>1, <1>2, <1>6, FrontFine, DomainFine, BindFine
<1>7. CASE rule \in {"env", "backup", "rollback", "certificate", "reboot"}
  BY <1>1, <1>2, <1>7, EnvFine, BackupFine, CertificateFine, RebootFine
<1>8. QED
  BY <1>3, <1>4, <1>5, <1>6, <1>7

\* When a rule does not ask for attention, no subject of it was in trouble, but for what
\* the collectors are known not to see: for any plans, hosts and bounds, and when the host
\* changes between any two of the readings.
THEOREM FineTrue == Spec => []FineIsTrue
BY WholeFirst, WholeStays, WholeIsFine, PTL DEF Spec
=============================================================================

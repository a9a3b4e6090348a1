------------------------------- MODULE HostRules -------------------------------
(***************************************************************************)
(* What the witness says of the host a deployment is planned for: its      *)
(* capacity, compatibility, front end, bind mounts, backups, certificates  *)
(* and reboot (app/witness: resources, compatibility, frontend, hygiene    *)
(* and bind rules), with each rule's verdict (outcomes.go).                *)
(*                                                                         *)
(* `in` is their input: the plan, and what was read of the host.  A service*)
(* of the plan has                                                         *)
(*   name, publishes, domains, reservation, limit, image, build, registry, *)
(*   platform      what it declares, None or 0 where it declares nothing   *)
(*   db, major     the engine and the major version its image is called by *)
(*   mounts        [kind, at, ro, create, ext], create "yes", "no", "unset"*)
(*   user          [kind "none", "name" or "number", uid, gid]             *)
(*   env           [at, optional], the files of `env_file`                 *)
(***************************************************************************)
EXTENDS HostRead, Outcomes

CONSTANT MinimumHeadroom   \* minimumHeadroom

ASSUME HeadroomIsASize == MinimumHeadroom \in Nat

Finding(rule, subject, outcome, severity) ==
  [rule |-> rule, subject |-> subject, outcome |-> outcome, severity |-> severity]

Problem(rule, subject, severity) == Finding(rule, subject, "problem", severity)
Unknown(rule, subject)           == Finding(rule, subject, "unknown", "warning")

-----------------------------------------------------------------------------
(***************************************************************************)
(* Resources.                                                              *)
(***************************************************************************)

\* What a service asks for: its reservation, else the room up to its limit.
Asks(s) == IF s.reservation > 0 THEN s.reservation ELSE s.limit

Need(plan) == MapThenSumSet(Asks, plan.services)

MemoryShortfall(in) ==
  IF in.memory.total = 0 THEN {Finding("memory", None, "unknown", "info")}
  ELSE IF Need(in.plan) = 0 THEN {Finding("memory", None, "not-applicable", "info")}
  ELSE IF Need(in.plan) <= in.memory.available THEN {}
  ELSE {Problem("memory", None, IF Need(in.plan) > in.memory.total THEN "blocker" ELSE "warning")}

AssessMemory(in) == IF Need(in.plan) > 0 THEN "no-problem" ELSE "not-applicable"

StoreRoot(engine) == IF engine.kind = "podman" THEN <<"var", "lib", "containers">> ELSE <<"var", "lib", "docker">>

\* deploymentFilesystem: the store's, among those that were measured.
DeploymentFilesystem(in) == FilesystemFor(StoreRoot(in.engine), in.filesystems)

Pulled(plan) == {s \in plan.services : ~s.build /\ s.image # None}

MissingImages(in) == {s \in Pulled(in.plan) : \A i \in in.engine.images : i.ref # s.image}

\* Mutant: any filesystem with room will do.
DiskShortfallAnywhere(in) ==
  IF in.filesystems = {} THEN {Finding("disk", None, "unknown", "info")}
  ELSE IF MissingImages(in) = {} \/ \E m \in in.filesystems : m.available >= MinimumHeadroom THEN {}
  ELSE {Problem("disk", None, "blocker")}

DiskShortfall(in) ==
  IF DeploymentFilesystem(in) = {} THEN {Finding("disk", None, "unknown", "info")}
  ELSE IF MissingImages(in) = {} \/ \E m \in DeploymentFilesystem(in) : m.available >= MinimumHeadroom THEN {}
  ELSE {Problem("disk", None, "blocker")}

\* engineList of the images: without an engine there are none.
ImagesListed(in) == in.engine.kind = "none" \/ in.engine.listed

AssessDisk(in) ==
  IF DeploymentFilesystem(in) = {} \/ ~ImagesListed(in) THEN "unknown" ELSE "no-problem"

Pressed(percent) == IF percent >= 97 THEN "blocker" ELSE "warning"

\* No inode count is no limit.
InodeShortfall(in) ==
  {Problem("inodes", None, Pressed(InodesUsedPercent(m))) :
     m \in {n \in DeploymentFilesystem(in) : n.inodes > 0 /\ InodesUsedPercent(n) >= 90}}

AssessInodes(in) ==
  LET target == DeploymentFilesystem(in)
  IN  IF target = {} THEN "unknown" ELSE IF \E m \in target : m.inodes = 0 THEN "not-applicable" ELSE "no-problem"

DiskPressure(in) ==
  {Problem("pressure", m.at, Pressed(UsedPercent(m))) :
     m \in {n \in in.filesystems : ~n.readOnly /\ UsedPercent(n) >= 90}}

AssessFilesystems(in) == IF in.filesystems = {} THEN "unknown" ELSE "no-problem"

-----------------------------------------------------------------------------
(***************************************************************************)
(* Compatibility.  An image's `arch` is None when it was not inspected.    *)
(***************************************************************************)

ImagesOf(in, s) == {i \in in.engine.images : i.ref = s.image}

ArchitectureMismatch(in) ==
  LET arch == NormaliseArch(in.arch)
      pinned == {s \in in.plan.services : s.platform # None /\ NormaliseArch(s.platform) # arch}
      built  == {s \in in.plan.services : \E i \in ImagesOf(in, s) : i.arch # None /\ NormaliseArch(i.arch) # arch}
  IN  IF in.arch = None THEN {} ELSE {Problem("architecture", s.name, "blocker") : s \in pinned \cup built}

\* A pinned platform is not asked for an image.
AssessArchitecture(in) ==
  LET pending == {s \in Pulled(in.plan) : s.platform = None /\ \A i \in ImagesOf(in, s) : i.arch = None}
  IN  IF in.arch = None \/ pending # {} THEN "unknown" ELSE "no-problem"

RuntimeVersion(in) ==
  IF in.engine.kind = "none" THEN {Problem("runtime", None, "blocker")}
  ELSE (IF in.engine.answers THEN {} ELSE {Unknown("runtime", None)})
       \cup (IF in.engine.compose = "none" THEN {Problem("runtime", None, "blocker")}
             ELSE IF in.engine.compose = "standalone" THEN {Problem("runtime", None, "warning")} ELSE {})

RegistriesOf(plan) == {s.registry : s \in Pulled(plan)}

\* Without --egress the question is left open in a finding of its own.
RegistryReachability(in) ==
  IF RegistriesOf(in.plan) = {} THEN {}
  ELSE IF ~in.plan.egress THEN {Finding("registry", None, "unknown", "info")}
  ELSE {Problem("registry", r.name, "blocker") :
          r \in {q \in in.registries : q.name \in RegistriesOf(in.plan) /\ ~q.reached}}

AssessRegistries(in) == IF RegistriesOf(in.plan) = {} THEN "not-applicable" ELSE "no-problem"

\* mountsPath: the path itself, or a directory it is under.
MountsPath(s, at) == at # None /\ \E m \in s.mounts : m.kind = "bind" /\ Under(at, m.at)

\* Compared only with the databases whose kind and version are both known.
DatabaseVersionMismatch(in) ==
  UNION {{Problem("database", s.name, IF MountsPath(s, db.at) THEN "blocker" ELSE "warning") :
            db \in {d \in in.databases : d.kind = s.db /\ d.version \notin {0, s.major}}} :
         s \in {t \in in.plan.services : t.db # None /\ t.major # 0}}

AssessDatabases(in) ==
  LET databases == {s \in in.plan.services : s.db # None}
  IN  IF databases = {} THEN "not-applicable"
      ELSE IF \E s \in databases : s.major = 0 /\ \E d \in in.databases : d.kind = s.db THEN "unknown"
      ELSE "no-problem"

-----------------------------------------------------------------------------
(***************************************************************************)
(* The front of the machine.                                               *)
(***************************************************************************)

WebPorts(plan) == {80, 443} \cap {p.port : p \in UNION {s.publishes : s \in plan.services}}

\* The port is published over TCP, which a front end is known to speak.
Stated(plan, port) == \E s \in plan.services : [port |-> port, protocol |-> "tcp"] \in s.publishes

Collides(plan, port) ==
  IF Stated(plan, port) THEN Problem("front", port, "blocker") ELSE Unknown("front", port)

\* A panel that holds the port, and the server that listens on it.
ProxyPortConflict(in) ==
  {Collides(in.plan, port) :
     port \in {p \in WebPorts(in.plan) : p \in in.proxy.ports \/ \E panel \in in.panels : p \in panel.ports}}

AssessProxyPorts(in) ==
  IF WebPorts(in.plan) = {} THEN "not-applicable" ELSE IF in.proxy.state = "failed" THEN "unknown" ELSE "no-problem"

DomainsOf(plan) == UNION {s.domains : s \in plan.services}

DomainConflict(in) ==
  LET served == {n.name : n \in in.proxy.names}
  IN  {Problem("domain", d, "warning") : d \in DomainsOf(in.plan) \cap served}
      \cup (IF "_" \in served
            THEN {Finding("domain", d, "manual-check", "info") : d \in DomainsOf(in.plan) \ served} ELSE {})

AssessDomains(in) ==
  IF DomainsOf(in.plan) = {} THEN "not-applicable"
  ELSE IF in.proxy.kind # None /\ in.proxy.state = "failed" THEN "unknown" ELSE "no-problem"

-----------------------------------------------------------------------------
(***************************************************************************)
(* Bind mounts.                                                            *)
(***************************************************************************)

BindsOf(s) == {m \in s.mounts : m.kind = "bind"}
Binds(plan) == UNION {BindsOf(s) : s \in plan.services}

Nobody == [kind |-> "none", uid |-> 0, gid |-> 0]

\* The plan's user, else the image's, else nobody knows.
ContainerUser(in, s) ==
  IF s.user.kind # "none" THEN s.user
  ELSE IF ImagesOf(in, s) = {} THEN Nobody ELSE (CHOOSE i \in ImagesOf(in, s) : TRUE).user

\* deniedByMode: a mode is the three digits of owner, group and others, each a set
\* of "r", "w" and "x".  Root is never refused.
DeniedByMode(path, user, write) ==
  LET class == IF user.uid = path.uid THEN 1 ELSE IF user.gid = path.gid THEN 2 ELSE 3
      needed == {"r"} \cup (IF write THEN {"w"} ELSE {}) \cup (IF path.type = "directory" THEN {"x"} ELSE {})
  IN  user.kind = "number" /\ user.uid # 0 /\ path.type # "none" /\ ~needed \subseteq path.mode[class]

\* One bind mount against what the host showed of its source.
BindSourceFindings(in, s, m, source) ==
  LET path == source.path
  IN  IF path.state = "denied" THEN {Unknown("bind", m.at)}
      ELSE IF path.state = "missing"
      THEN IF m.create = "no" THEN {Problem("bind", m.at, "blocker")}
           ELSE IF m.create = "unset" \/ m.ext THEN {Unknown("bind", m.at)} ELSE {}
      ELSE IF path.state = "dangling" THEN {Unknown("bind", m.at)}
      ELSE IF source.readOnlyFS /\ ~m.ro THEN {Problem("bind", m.at, "warning")}
      ELSE IF DeniedByMode(path, ContainerUser(in, s), ~m.ro) THEN {Unknown("bind", m.at)} ELSE {}

\* Where a container that writes changes how the host itself behaves: one path for
\* each form of the list.
SensitiveHostPath(at) == at \in {<<>>, <<"run">>, <<"home">>} \/ Under(at, <<"etc">>) \/ Under(at, <<"var", "lib", "docker">>)

BindPathConflicts(in) ==
  (UNION {UNION {UNION {BindSourceFindings(in, s, m, b) : b \in {c \in in.binds : c.path.at = m.at}} : m \in BindsOf(s)} :
          s \in in.plan.services})
  \cup {Problem("bind", m.at, "warning") : m \in {n \in Binds(in.plan) : SensitiveHostPath(n.at)}}

AssessBindPaths(in) == IF Binds(in.plan) = {} THEN "not-applicable" ELSE "no-problem"

-----------------------------------------------------------------------------
(***************************************************************************)
(* Hygiene.                                                                *)
(***************************************************************************)

\* env_file: one that is optional may be missing; one that was not seen is unknown.
MissingEnvFiles(in) ==
  UNION {{IF e.state = "denied" THEN Unknown("env", e.at) ELSE Problem("env", e.at, "blocker") :
            e \in {p \in in.env : p.state # "there" /\ \E f \in s.env : f.at = p.at /\ ~f.optional}} :
         s \in in.plan.services}

AssessEnvFiles(in) == IF \A s \in in.plan.services : s.env = {} THEN "not-applicable" ELSE "no-problem"

PersistentData(plan) == {m \in UNION {s.mounts : s \in plan.services} : m.kind = "volume" \/ ~m.ro}

Fresh(l) == l.dated /\ l.age <= 30

BackupGap(in) ==
  IF PersistentData(in.plan) = {} \/ (in.backup.locations = {} /\ in.backup.tools)
     \/ (in.backup.locations # {} /\ \A l \in in.backup.locations : Fresh(l)) THEN {}
  ELSE {Problem("backup", None, "warning")}

\* A tool and no local directory: it may write elsewhere.
AssessBackup(in) ==
  IF PersistentData(in.plan) = {} THEN "not-applicable"
  ELSE IF in.backup.locations = {} /\ in.backup.tools THEN "manual-check" ELSE "no-problem"

\* The row of the rollback section for the data: it needs one fresh location.
VolumeBackup(in) ==
  IF PersistentData(in.plan) = {} \/ \E l \in in.backup.locations : Fresh(l) THEN "available" ELSE "unavailable"

\* The rows for the proxy's configuration and for a snapshot of the host can only be
\* confirmed by hand; none of the services runs here yet, so the row of each
\* image is available.
RollbackGap(in) ==
  IF VolumeBackup(in) = "unavailable" THEN {Problem("rollback", None, "warning")}
  ELSE {Finding("rollback", None, "manual-check", "info")}

\* Mutant: a certificate that was not read has zero days left.
CertificateExpiryUndated(in) ==
  {Problem("certificate", c.path, IF c.days <= 7 THEN "blocker" ELSE "warning") :
     c \in {d \in in.certificates : d.days <= 30}}

CertificateExpiry(in) ==
  {Problem("certificate", c.path, IF c.days <= 7 THEN "blocker" ELSE "warning") :
     c \in {d \in in.certificates : d.dated /\ d.days <= 30}}

AssessCertificates(in) == IF \E c \in in.certificates : ~c.dated THEN "unknown" ELSE "no-problem"

RebootPending(in) == IF in.reboot = "yes" THEN {Problem("reboot", None, "warning")} ELSE {}

AssessReboot(in) == IF in.reboot = "unknown" THEN "unknown" ELSE "no-problem"

-----------------------------------------------------------------------------

Findings(in) ==
  MemoryShortfall(in) \cup DiskShortfall(in) \cup InodeShortfall(in) \cup DiskPressure(in)
  \cup ArchitectureMismatch(in) \cup RuntimeVersion(in) \cup RegistryReachability(in) \cup DatabaseVersionMismatch(in)
  \cup ProxyPortConflict(in) \cup DomainConflict(in) \cup BindPathConflicts(in) \cup MissingEnvFiles(in)
  \cup BackupGap(in) \cup RollbackGap(in) \cup CertificateExpiry(in) \cup RebootPending(in)

Verdicts(in) ==
  [memory |-> AssessMemory(in), disk |-> AssessDisk(in), inodes |-> AssessInodes(in), pressure |-> AssessFilesystems(in),
   architecture |-> AssessArchitecture(in), runtime |-> "no-problem", registry |-> AssessRegistries(in),
   database |-> AssessDatabases(in), front |-> AssessProxyPorts(in), domain |-> AssessDomains(in),
   bind |-> AssessBindPaths(in), env |-> AssessEnvFiles(in), backup |-> AssessBackup(in), rollback |-> "no-problem",
   certificate |-> AssessCertificates(in), reboot |-> AssessReboot(in)]

\* Each rule's outcome: the most pressing of its findings and its verdict.
RuleOutcomes(in) ==
  LET verdicts == Verdicts(in)
      findings == Findings(in)
  IN  [rule \in DOMAIN verdicts |-> MostPressing({f.outcome : f \in {g \in findings : g.rule = rule}} \cup {verdicts[rule]})]
=============================================================================

------------------------------- MODULE HostRead -------------------------------
(***************************************************************************)
(* What the collectors of the witness section make of a host (app/collect: *)
(* host, panels, scheduler, certs, backup), each from the host `w` as it is*)
(* when that collector runs.  The host itself is the environment:          *)
(*   uname, memory, mounts      machine, memory, and mounted filesystems   *)
(*   engine                     kind, answers, listed, compose, images,    *)
(*                              containers: what docker.Collect returns    *)
(*   panels, crons, timers, certs, bindings, backups, data, listeners,     *)
(*   paths, registries, reboot  sets of records, described below           *)
(* What the account of the audit may not look at is part of it: `access`.  *)
(***************************************************************************)
EXTENDS WebServer, FiniteSetsExt

CONSTANT MaxCertFiles

ASSUME MaxCertFilesIsACount == MaxCertFiles \in Nat

Under(path, mount) == IsPrefix(mount, path)

-----------------------------------------------------------------------------
(***************************************************************************)
(* host.Collect.                                                           *)
(***************************************************************************)

NormaliseArch(arch) ==
  IF arch \in {"x86_64", "amd64"} THEN "amd64"
  ELSE IF arch \in {"aarch64", "arm64", "arm64/v8", "armv8"} THEN "arm64"
  ELSE IF arch \in {"armv7l", "armv7", "arm/v7"} THEN "arm/v7"
  ELSE IF arch \in {"armv6l", "arm/v6"} THEN "arm/v6"
  ELSE IF arch \in {"i386", "i686", "x86"} THEN "386" ELSE arch

\* The filesystems measured: pseudo ones are left out, and one that this account
\* cannot enter is missing.
Filesystems(w) == {m \in w.mounts : ~m.pseudo /\ m.measured /\ m.total > 0}

\* The mount with the longest path a path is under: a set of at most one.
FilesystemFor(path, mounts) ==
  {m \in mounts : Under(path, m.at) /\ \A n \in mounts : Under(path, n.at) => Len(n.at) <= Len(m.at)}

UsedPercent(m) == (100 * m.used) \div m.total
InodesUsedPercent(m) == (100 * (m.inodes - m.inodesFree)) \div m.inodes

MemInfo(w) == IF w.memory.readable THEN w.memory ELSE [w.memory EXCEPT !.total = 0, !.available = 0]

-----------------------------------------------------------------------------
(***************************************************************************)
(* panels.Collect.  A panel of the table has a marker that proves it and   *)
(* one that hints, each "there", "absent" or "denied"; perhaps a container;*)
(* a unit; the ports it is known to hold; and the file that names another. *)
(***************************************************************************)

OwnsPorts(p) == p.ports \cup (IF p.portFile = "read" THEN {p.port} ELSE {})

ByMarkers(p) == "there" \in {p.strong, p.weak}
ByContainer(w, p) == w.engine.answers /\ p.container # "none"

RunningUnit(p) == p.unit = "active"

DetectedPanel(w, p) ==
  [name |-> p.name,
   ports |-> (IF ByMarkers(p) THEN OwnsPorts(p) ELSE {}) \cup (IF ByContainer(w, p) THEN p.ports ELSE {}),
   running |-> (ByContainer(w, p) /\ p.container = "running") \/ RunningUnit(p)]

Panels(w) == {DetectedPanel(w, p) : p \in {q \in w.panels : ByMarkers(q) \/ ByContainer(w, q)}}

-----------------------------------------------------------------------------
(***************************************************************************)
(* The scheduled jobs and the renewals among them.  A cron file has its    *)
(* directory, `access`, `ignored` (cron skips it for its name), the tool   *)
(* it is named after (or None) and the tools its lines run; a timer has    *)
(* its tool, whether it is `loaded`, `enabled` and will elapse (`next`).   *)
(***************************************************************************)

CronTables == {"crontab", "cron.d", "spool"}

\* The tools of the lines of a table, each line under the table's own name.
ParseCrontab(f) == IF f.runs = {} THEN {} ELSE f.runs \cup {f.named}

\* Lines of the crontabs, and the scripts run-parts runs.
CronJobs(w) ==
  UNION {IF f.dir \notin CronTables THEN {f.named} ELSE IF f.access = "read" THEN ParseCrontab(f) ELSE {} :
           f \in {g \in w.crons : ~g.ignored /\ g.access # "unlisted"}}

\* list-timers --all: every timer that is loaded, whether or not it will elapse.
TimerJobs(w) == IF w.systemd THEN {t.tool : t \in {u \in w.timers : u.loaded}} ELSE {}

\* The crontab of the account itself, which is asked for unless it is root's.
OwnCrontab(w) == IF w.root THEN {} ELSE w.ownCrontab

ScheduledTools(w) == (CronJobs(w) \cup TimerJobs(w) \cup OwnCrontab(w)) \ {None}

\* Mutant: a tool that has a timer unit at all is run by it.
RenewalToolsInstalled(w, jobs) == jobs \cup {t.tool : t \in w.timers}

\* renewalJobs: the inventory of jobs, the timers that are enabled, and the cron
\* files once more, by their name under /etc/cron.* or else by their lines.
RenewalTools(w, jobs) ==
  jobs \cup {t.tool : t \in {u \in w.timers : u.enabled}}
  \cup UNION {IF f.named # None /\ f.dir \notin {"crontab", "spool"} THEN {f.named} ELSE IF f.access = "read" THEN f.runs ELSE {} :
              f \in {g \in w.crons : g.access # "unlisted"}}

-----------------------------------------------------------------------------
(***************************************************************************)
(* certs.Collect.  A certificate file has its path, the tree it is in,     *)
(* `candidate` (its name is opened), `access`, what it `holds`, the days   *)
(* it has left, and whether it is a root of the trust store.               *)
(***************************************************************************)

\* The walk of the certificate roots, over what it can list, to the depth and the
\* number of files it allows itself.
GatherFiles(w) ==
  LET found == SetToSeq({c \in w.certs : c.candidate /\ ~c.deep /\ c.access # "unlisted"})
  IN  ToSet(SubSeq(found, 1, IF Len(found) < MaxCertFiles THEN Len(found) ELSE MaxCertFiles))

\* certbotBindings, acmeBindings: the configurations that name a file bind it and all
\* that is in its directory.
BoundBy(w, tool, path) ==
  \E b \in w.bindings : b.tool = tool /\ b.access = "read" /\ \E p \in b.paths : p = path \/ Front(p) = Front(path)

\* managerFor: a binding first, then the tree the file is in.
ManagerFor(w, c) ==
  IF BoundBy(w, "certbot", c.path) THEN "certbot"
  ELSE IF BoundBy(w, "acme.sh", c.path) THEN "acme.sh"
  ELSE IF c.tree \in {"certbot", "acme.sh", "lego", "panel"} THEN c.tree ELSE None

\* scan, one file: a key is no certificate, and one that cannot be parsed is kept
\* without a date.
Certificate(w, c, tools) ==
  LET manager == ManagerFor(w, c)
  IN  IF c.access # "read" \/ c.holds = "garbage"
      THEN {[path |-> c.path, dated |-> FALSE, days |-> 0, manager |-> None, autoRenew |-> FALSE]}
      ELSE IF c.holds = "key" \/ c.trustStore THEN {}
      ELSE {[path |-> c.path, dated |-> TRUE, days |-> c.days, manager |-> manager,
             autoRenew |-> manager \notin {None, "panel"} /\ manager \in tools]}

Certificates(w, jobs) ==
  LET tools == RenewalTools(w, jobs) IN UNION {Certificate(w, c, tools) : c \in GatherFiles(w)}

-----------------------------------------------------------------------------
(***************************************************************************)
(* backup.Collect.  A directory is a conventional one or `named` by a job, *)
(* and its newest file has an age, or there is none (`empty`); `late`, the *)
(* budget for walking was spent before it.                                 *)
(***************************************************************************)

\* The newest file of one, if a file of it could be read.
ScanLocation(d) == [path |-> d.path, dated |-> d.access = "read" /\ ~d.empty, age |-> d.age]

Locations(w) ==
  {ScanLocation(d) : d \in {e \in w.backups.dirs : ~e.late /\ (e.conventional \/ e.namedByJob)}}

-----------------------------------------------------------------------------
(***************************************************************************)
(* host.Databases: from the sockets the ports section read, and the data   *)
(* directory where the distribution keeps it.                              *)
(***************************************************************************)

ProcessKind(process) ==
  IF process = "postgres" THEN "postgres" ELSE IF process = "mysqld" THEN "mysql"
  ELSE IF process = "mariadbd" THEN "mariadb" ELSE IF process = "redis-server" THEN "redis" ELSE None

PortKind(port) == IF port = 5432 THEN "postgres" ELSE IF port = 3306 THEN "mysql"
                  ELSE IF port = 6379 THEN "redis" ELSE None

\* The process names the engine; an unattributed socket is named after its port.
DatabaseKind(l) ==
  IF ProcessKind(l.process) # None THEN ProcessKind(l.process)
  ELSE IF l.process = None THEN PortKind(l.port)
  ELSE IF PortKind(l.port) # None THEN "unknown" ELSE None

\* The engines whose data is looked for in the same directories.
KeptWith(kind) == IF kind \in {"mysql", "mariadb"} THEN {"mysql", "mariadb"} ELSE {kind}

\* The first data directory of the engine: PostgreSQL's is found by its version file,
\* the others by the directory itself, and Redis leaves no version.
DataDirectory(w, kind) ==
  LET found == {d \in w.data : d.kind \in KeptWith(kind) /\ d.standard /\ (kind = "postgres" => d.access = "read")}
  IN  IF found = {} THEN [at |-> None, version |-> 0]
      ELSE LET d == CHOOSE e \in found : \A f \in found : e.version <= f.version
           IN  [at |-> d.at, version |-> IF d.access = "read" /\ kind # "redis" THEN d.version ELSE 0]

Databases(w, sockets) ==
  {[kind |-> kind, at |-> DataDirectory(w, kind).at, version |-> DataDirectory(w, kind).version] :
     kind \in {DatabaseKind(l) : l \in sockets} \ {None}}

-----------------------------------------------------------------------------
(***************************************************************************)
(* Paths: the bind sources and the files of `env_file`.  One is "missing", *)
(* "denied", "dangling" or "there", with a type, an owner and a mode.      *)
(***************************************************************************)

StatPath(w, at) ==
  LET found == {p \in w.paths : p.at = at}
  IN  IF found = {} THEN [at |-> at, state |-> "missing", type |-> "none", uid |-> 0, gid |-> 0, mode |-> <<>>]
      ELSE CHOOSE p \in found : TRUE

BindSources(w, binds, measured) ==
  {[path |-> StatPath(w, b.at), readOnlyFS |-> \E m \in FilesystemFor(b.at, measured) : m.readOnly] : b \in binds}

\* system.rebootPending, and rebootRequired of what it wrote.
RebootRequired(w) ==
  IF w.reboot.file THEN "yes"
  ELSE IF w.reboot.tool = "answers" THEN IF w.reboot.needed THEN "yes" ELSE "no" ELSE "unknown"
=============================================================================

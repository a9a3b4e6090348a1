------------------------------ MODULE MCHostAudit ------------------------------
(***************************************************************************)
(* The plans and hosts HostAudit is checked with: in each family one part  *)
(* of the host is varied with what the plan asks of it, and the rest is    *)
(* plain and in order.                                                     *)
(***************************************************************************)
EXTENDS HostAudit

CONSTANTS app,                  \* a service
          shop, blog, wiki,     \* domains
          img, hub,             \* an image, and the registry it is pulled from
          certbot, plesk        \* a renewal tool, and a control panel

Family(plans, hosts) == [plans |-> plans, hosts |-> hosts]

NoUser == [kind |-> "none", uid |-> 0, gid |-> None]
User(uid, gid) == [kind |-> "number", uid |-> uid, gid |-> gid]

PlainService ==
  [name |-> app, publishes |-> {}, domains |-> {}, reservation |-> 0, limit |-> 0, image |-> img, build |-> FALSE,
   registry |-> hub, platform |-> None, db |-> None, major |-> 0, mounts |-> {}, user |-> NoUser, env |-> {}]

PlanOf(s) == [services |-> {s}, egress |-> FALSE, ports |-> TRUE, system |-> TRUE]

Root == <<>>
VarLib == <<"var", "lib">>

Mount(at, total, used, inodes, inodesFree) ==
  [at |-> at, pseudo |-> FALSE, measured |-> TRUE, total |-> total, used |-> used, available |-> total - used,
   inodes |-> inodes, inodesFree |-> inodesFree, readOnly |-> FALSE]

RootMount == Mount(Root, 20, 4, 100, 50)

ServerAt(root, base, answers) == [root |-> root, base |-> base, binary |-> answers # "absent", answers |-> answers = "yes"]
NoServer == [root |-> None, base |-> <<"etc">>, binary |-> FALSE, answers |-> FALSE]
NoWeb == [nginx |-> NoServer, apache |-> NoServer, files |-> {}, closed |-> {}]

PlainEngine == [kind |-> "docker", answers |-> TRUE, listed |-> TRUE, compose |-> "plugin",
                images |-> {[ref |-> img, arch |-> "amd64", user |-> User(1000, None), inspected |-> TRUE]}]

PlainHost ==
  [uname |-> "x86_64", memory |-> [readable |-> TRUE, total |-> 8, available |-> 4], mounts |-> {RootMount},
   engine |-> PlainEngine, panels |-> {}, crons |-> {}, timers |-> {}, systemd |-> TRUE, root |-> TRUE,
   ownCrontab |-> {}, certs |-> {}, bindings |-> {}, backups |-> [tools |-> FALSE, dirs |-> {}], data |-> {},
   listeners |-> {}, paths |-> {}, registries |-> {hub}, reboot |-> [needed |-> FALSE, file |-> FALSE, tool |-> "answers"],
   web |-> NoWeb]

-----------------------------------------------------------------------------

\* Memory asked for and there; a store on the root or on a filesystem of its own, with
\* room, full, out of inodes, or not to be measured.
Capacity ==
  Family({PlanOf([PlainService EXCEPT !.reservation = r, !.limit = l]) : r \in {0, 3}, l \in {0, 6}},
         {[PlainHost EXCEPT !.memory = m] : m \in {[readable |-> TRUE, total |-> 8, available |-> 2],
                                                   [readable |-> TRUE, total |-> 2, available |-> 2],
                                                   [readable |-> FALSE, total |-> 8, available |-> 2]}}
         \cup {[PlainHost EXCEPT !.mounts = ms, !.engine.images = is, !.engine.listed = is = {}] :
                 is \in {{}, PlainEngine.images},
                 ms \in {{RootMount}, {Mount(Root, 20, 19, 0, 0)}, {Mount(Root, 100, 97, 100, 2)},
                         {Mount(Root, 20, 19, 100, 5), Mount(VarLib, 20, 4, 100, 5)},
                         {RootMount, [Mount(VarLib, 20, 19, 100, 2) EXCEPT !.measured = FALSE]},
                         {Mount(Root, 20, 19, 100, 2), [Mount(VarLib, 20, 4, 100, 50) EXCEPT !.measured = FALSE]},
                         {RootMount, [Mount(VarLib, 20, 20, 100, 100) EXCEPT !.readOnly = TRUE]},
                         {[RootMount EXCEPT !.measured = FALSE]}}})

Image(arch, inspected) == [ref |-> img, arch |-> arch, user |-> User(1000, None), inspected |-> inspected]

\* A machine does not change its architecture: a family for each.
Machine(uname, archs) ==
  Family({PlanOf([PlainService EXCEPT !.platform = p, !.build = b]) : p \in {None} \cup archs, b \in BOOLEAN},
         {[PlainHost EXCEPT !.uname = uname, !.engine.images = is] :
            is \in {{}} \cup {{Image(a, i)} : a \in archs, i \in BOOLEAN}}
         \cup {[PlainHost EXCEPT !.uname = uname, !.engine.answers = FALSE],
               [PlainHost EXCEPT !.uname = uname, !.engine.compose = "standalone"],
               [PlainHost EXCEPT !.uname = uname, !.engine.compose = "none"],
               [PlainHost EXCEPT !.uname = uname, !.engine = [@ EXCEPT !.kind = "none", !.answers = FALSE, !.images = {}]]})

Machines == {Machine("x86_64", {"amd64", "arm64", "386"}), Machine("aarch64", {"amd64", "arm64", "aarch64"}), Machine("armv7l", {"arm"})}

-----------------------------------------------------------------------------
(***************************************************************************)
(* Web servers.                                                            *)
(***************************************************************************)

Port(n) == [form |-> "port", port |-> n]
Bare == [form |-> "address", port |-> 0]
Socket == [form |-> "unix", port |-> 0]

Conf(path) ==
  [path |-> path, real |-> path, kind |-> "file", conf |-> TRUE, access |-> "read", names |-> {}, listens |-> {},
   vhosts |-> {}, includes |-> <<>>, tail |-> {}]

Web(nginx, apache, files) == [nginx |-> nginx, apache |-> apache, files |-> files, closed |-> {}]
Unlisted(host, dirs) == [host EXCEPT !.web.closed = dirs]

Etc == <<"etc", "nginx">>
At(dir, name) == Etc \o <<dir, name>>

Main(includes) == [Conf(Etc \o <<"nginx.conf">>) EXCEPT !.includes = includes]
Standard == Main(NginxDropIns)

SiteA == [Conf(At("sites-enabled", "a")) EXCEPT !.conf = FALSE, !.names = {shop}, !.listens = {Port(80)}]
SiteB == [Conf(At("conf.d", "b.conf")) EXCEPT !.names = {blog, "_"}, !.listens = {Bare, Socket}]
SiteC == [Conf(At("conf.d", "c.conf")) EXCEPT !.names = {wiki}, !.listens = {Port(443)}]

\* A chain of includes deeper than the walk goes, and one that returns to its start.
Step(name, next, ports) ==
  [Conf(At("snippets", name)) EXCEPT !.includes = <<Pattern(<<"snippets", next>>, FALSE, "literal")>>,
                                     !.listens = {Port(p) : p \in ports}]
Chained == [SiteA EXCEPT !.includes = <<Pattern(<<"snippets", "x">>, FALSE, "literal")>>]
Chain == {Standard, Chained, Step("x", "y", {}), Step("y", "z", {443}), Step("z", "x", {80})}

Trees ==
  {{Standard}, {Standard, SiteA}, {Standard, SiteB, SiteC}, Chain,
   {Standard, SiteA, SiteB, SiteC},                                     \* more names than are kept
   {Standard, SiteA, [SiteA EXCEPT !.path = At("sites-enabled", "z")]}, \* the same file twice
   {Standard, [SiteA EXCEPT !.access = "stat"]},
   {Standard, [SiteA EXCEPT !.access = "denied"], SiteC},
   {Standard, [SiteB EXCEPT !.tail = {Port(443)}]},
   {Main(<<>>), SiteA},                                                 \* not included
   {[Standard EXCEPT !.access = "stat"], SiteA}}

Publishing == {[port |-> 80, protocol |-> "tcp"], [port |-> 443, protocol |-> "udp"]}

WebPlans ==
  {PlanOf([PlainService EXCEPT !.publishes = ps, !.domains = {shop, wiki}]) :
     ps \in {Publishing, {[port |-> 443, protocol |-> "tcp"]}}}

Nginx ==
  Family(WebPlans,
         {[PlainHost EXCEPT !.web = Web(ServerAt(Etc \o <<"nginx.conf">>, Etc, answers), NoServer, files)] :
            answers \in {"yes", "no"}, files \in Trees}
         \cup {PlainHost, [PlainHost EXCEPT !.web = Web(ServerAt(None, Etc, "no"), NoServer, {SiteA})]}
         \cup {Unlisted([PlainHost EXCEPT !.web = Web(ServerAt(Etc \o <<"nginx.conf">>, Etc, "no"), NoServer, files)],
                         {Etc \o <<"sites-enabled">>}) : files \in {{Standard, SiteA, SiteC}, {Standard, SiteC}}})

-----------------------------------------------------------------------------

HttpdConf(base) == base \o <<"conf", "httpd.conf">>
Httpd == <<"etc", "httpd">>
Apache2 == <<"etc", "apache2">>

ApacheMain(path, dir) ==
  [Conf(path) EXCEPT !.listens = {Port(443)}, !.includes = <<Pattern(<<dir>>, FALSE, "conf")>>]
Host(base, dir) ==
  [Conf(base \o <<dir, "a.conf">>) EXCEPT !.names = {shop}, !.vhosts = {80}, !.listens = {Bare}]

ApacheHost(root, base, answers, files) ==
  [PlainHost EXCEPT !.web = Web(NoServer, ServerAt(root, base, answers), files)]

ApacheTrees(root, base, dir) ==
  {{ApacheMain(root, dir)}, {ApacheMain(root, dir), Host(base, dir)},
   {[ApacheMain(root, dir) EXCEPT !.names = {wiki}]},                   \* the main server's own
   {[ApacheMain(root, dir) EXCEPT !.includes = <<Pattern(<<"extra">>, FALSE, "literal")>>],
    [Conf(base \o <<"extra">>) EXCEPT !.kind = "dir"],
    [Conf(base \o <<"extra", "more">>) EXCEPT !.conf = FALSE, !.vhosts = {80}, !.names = {wiki}]},
   {ApacheMain(root, dir), [Host(base, dir) EXCEPT !.access = "stat"]},
   {[ApacheMain(root, dir) EXCEPT !.access = "denied"], Host(base, dir)},
   {ApacheMain(root, dir), Host(base, dir), [Conf(base \o <<"sites-enabled">>) EXCEPT !.kind = "dir", !.conf = FALSE],
    [Conf(base \o <<"sites-enabled", "more">>) EXCEPT !.conf = FALSE, !.vhosts = {80}, !.names = {wiki}]}}

RedHat == Family(WebPlans, {ApacheHost(HttpdConf(Httpd), Httpd, answers, files) :
                              answers \in {"yes", "no", "absent"},
                              files \in ApacheTrees(HttpdConf(Httpd), Httpd, "conf.d")}
                            \cup {Unlisted(ApacheHost(HttpdConf(Httpd), Httpd, "no", {ApacheMain(HttpdConf(Httpd), "conf.d"), Host(Httpd, "conf.d")}),
                                           {Httpd \o <<"conf.d">>})})

Debian == Family(WebPlans, {ApacheHost(Apache2 \o <<"apache2.conf">>, Apache2, answers, files) :
                              answers \in {"yes", "no"},
                              files \in ApacheTrees(Apache2 \o <<"apache2.conf">>, Apache2, "sites-enabled")})

\* A directory that is included holds the port, of which the walk takes only *.conf.
Directory ==
  Family({PlanOf([PlainService EXCEPT !.publishes = {[port |-> 80, protocol |-> "tcp"]}, !.domains = {shop}])},
         {ApacheHost(HttpdConf(Httpd), Httpd, "yes", files) :
            files \in {{[Conf(HttpdConf(Httpd)) EXCEPT !.includes = <<Pattern(<<"extra">>, FALSE, "literal")>>],
                        [Conf(Httpd \o <<"extra">>) EXCEPT !.kind = "dir"],
                        [Conf(Httpd \o <<"extra", "more">>) EXCEPT !.conf = conf, !.listens = {Port(80)}, !.names = names]} :
                       conf \in BOOLEAN, names \in {{}, {shop}}}}
         \cup {PlainHost})

\* Both are installed, and a panel beside one of them.
Panel(strong, weak, unit, file) ==
  [name |-> plesk, strong |-> strong, weak |-> weak, container |-> "none", unit |-> unit, ports |-> {80},
   portFile |-> file, port |-> 443, installed |-> strong # "absent"]

Fronts ==
  Family(WebPlans,
         {PlainHost,
          [PlainHost EXCEPT !.web = Web(ServerAt(Etc \o <<"nginx.conf">>, Etc, "yes"),
                                        ServerAt(HttpdConf(Httpd), Httpd, "yes"),
                                        {Standard, SiteC, ApacheMain(HttpdConf(Httpd), "conf.d"), Host(Httpd, "conf.d")})],
          [PlainHost EXCEPT !.web = Web(ServerAt(Etc \o <<"nginx.conf">>, Etc, "yes"),
                                        ServerAt(HttpdConf(Httpd), Httpd, "yes"),
                                        {Standard, [ApacheMain(HttpdConf(Httpd), "conf.d") EXCEPT !.listens = {}], Host(Httpd, "conf.d")})],
          [PlainHost EXCEPT !.web = Web(ServerAt(Etc \o <<"nginx.conf">>, Etc, "yes"), NoServer, {Standard, SiteA})],
          [PlainHost EXCEPT !.panels = {[Panel("there", "absent", "active", "none") EXCEPT !.port = 80]}]}
         \cup {[PlainHost EXCEPT !.panels = {Panel(strong, weak, "active", file)}] :
                 strong \in {"there", "denied", "absent"}, weak \in {"there", "absent"}, file \in {"read", "denied"}}
         \cup {[PlainHost EXCEPT !.panels = {[Panel("there", "absent", "inactive", "read") EXCEPT !.container = c]}] :
                 c \in {"running", "stopped"}})

-----------------------------------------------------------------------------

Data(kind, version) == [kind |-> kind, at |-> VarLib \o <<kind>>, version |-> version, standard |-> TRUE, access |-> "read"]
Listener(port, process) == [port |-> port, process |-> process]

DatabasePlans ==
  {[PlanOf([PlainService EXCEPT !.db = d, !.major = m, !.mounts = ms]) EXCEPT !.ports = ports] :
     ports \in BOOLEAN, d \in {"postgres", "mariadb", "mysql"}, m \in {0, 14, 16},
     ms \in {{}, {[kind |-> "bind", at |-> VarLib, ro |-> FALSE, create |-> "yes", ext |-> FALSE]}}}

DatabaseHosts ==
  {[PlainHost EXCEPT !.data = ds, !.listeners = ls,
                     !.paths = {[at |-> VarLib, state |-> "there", type |-> "directory", uid |-> 0, gid |-> 0,
                                 mode |-> <<{"r", "w", "x"}, {"r", "x"}, {"r", "x"}>>]}] :
     ls \in {{}, {Listener(5432, "postgres")}, {Listener(5432, None)}, {Listener(3306, "mariadbd")}, {Listener(3306, None)}, {Listener(3306, "mysqld")}},
     ds \in {{Data("postgres", 14)}, {Data("postgres", 14), [Data("postgres", 16) EXCEPT !.at = VarLib \o <<"pg16">>]},
             {Data("mysql", 8)}, {[Data("mariadb", 10) EXCEPT !.at = VarLib \o <<"mysql">>]}, {[Data("postgres", 14) EXCEPT !.access = "stat"]}, {[Data("postgres", 14) EXCEPT !.standard = FALSE]}}}
  \cup {PlainHost, [PlainHost EXCEPT !.listeners = {Listener(6379, "redis-server"), Listener(3306, "tunnel")}]}

StoredData == Family(DatabasePlans, DatabaseHosts)

\* Redis leaves no version.
KeptRedis == Family({PlanOf([PlainService EXCEPT !.db = "redis", !.major = m]) : m \in {6, 7}},
                    {[PlainHost EXCEPT !.data = {Data("redis", 6)}, !.listeners = {Listener(6379, process)}] :
                       process \in {None, "redis-server"}})

\* The ports section is not selected, so no socket is read.
Unselected == Family({[PlanOf([PlainService EXCEPT !.db = "postgres", !.major = 16]) EXCEPT !.ports = FALSE]},
                     {[PlainHost EXCEPT !.data = {Data("postgres", 14)}, !.listeners = {Listener(5432, "postgres")}]})

-----------------------------------------------------------------------------

Live == <<"etc", "letsencrypt", "live", "a">>
Certificate1(name, days) ==
  [path |-> Live \o <<name>>, tree |-> "certbot", candidate |-> TRUE, deep |-> FALSE, access |-> "read",
   holds |-> "certificate", days |-> days, trustStore |-> FALSE]

Timer(loaded, enabled, next) == [tool |-> certbot, loaded |-> loaded, enabled |-> enabled, next |-> next]
Cron(dir, access, ignored, named, runs) ==
  [dir |-> dir, access |-> access, ignored |-> ignored, named |-> named, runs |-> runs]

CertificateSets ==
  {{Certificate1("cert.pem", 60)}, {Certificate1("cert.pem", 20)}, {Certificate1("cert.pem", 5), Certificate1("key.pem", 90)},
   {[Certificate1("cert.pem", 5) EXCEPT !.access = "unlisted"]}, {[Certificate1("cert.pem", 60) EXCEPT !.access = "stat"]},
   {[Certificate1("cert.pem", 5) EXCEPT !.access = "stat"]}, {[Certificate1("cert.pem", 60) EXCEPT !.holds = "garbage"]},
   {[Certificate1("cert.pem", 5) EXCEPT !.trustStore = TRUE], [Certificate1("key.pem", 60) EXCEPT !.holds = "key"]},
   {Certificate1(name, 40) : name \in {"a.pem", "b.pem", "c.pem"}}}

CronSets ==
  {{}} \cup {{Cron(dir, access, ignored, named, {certbot})} :
               dir \in {"cron.d", "daily"}, access \in {"read", "denied"}, ignored \in BOOLEAN, named \in {None, certbot}}

TimerSets == {{}} \cup {{Timer(loaded, enabled, loaded /\ enabled)} : loaded \in BOOLEAN, enabled \in BOOLEAN}

Certificates2 ==
  Family({PlanOf(PlainService)}, {[PlainHost EXCEPT !.certs = cs, !.timers = {Timer(TRUE, TRUE, TRUE)}] : cs \in CertificateSets})

Bound == {[tool |-> certbot, paths |-> {Live \o <<"other.pem">>}, access |-> "read"]}

Renewals ==
  Family({PlanOf(PlainService)},
         {[PlainHost EXCEPT !.certs = {Certificate1("cert.pem", 60)}, !.timers = ts, !.crons = cs] :
            ts \in TimerSets, cs \in {{}, {Cron("cron.d", "read", FALSE, certbot, {certbot})}, {Cron("cron.d", "read", FALSE, certbot, {})},
                                      {Cron("spool", "read", FALSE, None, {certbot})},
                                      {Cron("cron.d", "read", TRUE, None, {certbot})}}}
         \cup {[PlainHost EXCEPT !.certs = {[Certificate1("cert.pem", 60) EXCEPT !.tree = "elsewhere"]}, !.crons = cs,
                                 !.bindings = bs] : cs \in CronSets, bs \in {{}, Bound}}
         \cup {[PlainHost EXCEPT !.certs = {Certificate1("cert.pem", 60)}, !.root = FALSE, !.ownCrontab = {certbot}]})

-----------------------------------------------------------------------------

Dir(age, access) == [path |-> <<"backup">>, access |-> access, empty |-> FALSE, age |-> age, conventional |-> TRUE,
                     namedByJob |-> FALSE, late |-> FALSE]
Repo(age) == [Dir(age, "read") EXCEPT !.path = <<"srv", "borg">>, !.conventional = FALSE, !.namedByJob = TRUE]

Volume(ro) == [kind |-> "volume", at |-> <<>>, ro |-> ro, create |-> "yes", ext |-> FALSE]

Backups ==
  Family({PlanOf([PlainService EXCEPT !.mounts = ms]) : ms \in {{}, {Volume(FALSE)}}},
         {[PlainHost EXCEPT !.backups = [tools |-> t, dirs |-> ds]] :
            t \in BOOLEAN,
            ds \in {{}, {Dir(3, "read")}, {Dir(40, "read")}, {Dir(3, "stat")}, {[Dir(3, "read") EXCEPT !.empty = TRUE]}, {[Dir(3, "read") EXCEPT !.empty = TRUE], Repo(3)},
                    {[Dir(3, "read") EXCEPT !.conventional = FALSE]},
                    {Dir(40, "read"), Repo(3)}, {[Dir(3, "read") EXCEPT !.late = TRUE]}, {Repo(31)}}})

-----------------------------------------------------------------------------

Srv == <<"srv", "data">>
Path(at, state, type, mode) == [at |-> at, state |-> state, type |-> type, uid |-> 1000, gid |-> 1000, mode |-> mode]
Open == <<{"r", "w", "x"}, {"r", "x"}, {"r", "x"}>>
Closed == <<{"r", "w"}, {"r"}, {}>>

Bind(at, ro, create, ext) == [kind |-> "bind", at |-> at, ro |-> ro, create |-> create, ext |-> ext]

BindPlans ==
  {PlanOf([PlainService EXCEPT !.mounts = {Bind(Srv, ro, create, ext)}, !.user = u, !.env = {[at |-> <<"app.env">>, optional |-> o]}]) :
     ro \in BOOLEAN, create \in {"yes", "no", "unset"}, ext \in BOOLEAN, u \in {NoUser, User(1001, 1000)}, o \in {FALSE}}
  \cup {PlanOf([PlainService EXCEPT !.mounts = {Bind(<<"etc", "app">>, TRUE, "yes", FALSE)},
                                    !.env = {[at |-> <<"app.env">>, optional |-> TRUE]}])}

BindHosts ==
  {[PlainHost EXCEPT !.paths = ps] :
     ps \in {{}, {Path(Srv, "denied", "none", <<>>)}, {Path(Srv, "dangling", "none", <<>>), Path(<<"app.env">>, "denied", "none", <<>>)},
             {Path(Srv, "there", "directory", Open), Path(<<"app.env">>, "there", "file", Open)},
             {Path(Srv, "there", "directory", Closed), Path(<<"app.env">>, "dangling", "none", <<>>)}}}
  \cup {[PlainHost EXCEPT !.paths = {Path(<<"app.env">>, "there", "file", Open)},
                          !.mounts = {RootMount, [Mount(<<"srv">>, 20, 4, 100, 50) EXCEPT !.readOnly = TRUE]}]}
  \cup {[PlainHost EXCEPT !.paths = {Path(Srv, "there", "directory", Open), Path(<<"app.env">>, "there", "file", Open)},
                          !.mounts = {RootMount, [Mount(<<"srv">>, 20, 4, 100, 50) EXCEPT !.readOnly = TRUE, !.measured = m]}] :
          m \in BOOLEAN}
  \cup {[PlainHost EXCEPT !.paths = {Path(Srv, "there", "directory", Open), Path(<<"app.env">>, "there", "file", Open)},
                          !.mounts = {[RootMount EXCEPT !.readOnly = TRUE],
                                      [Mount(<<"srv">>, 20, 4, 100, 50) EXCEPT !.measured = FALSE]}]}
  \cup {[PlainHost EXCEPT !.paths = {Path(Srv, "there", "directory", Open), Path(<<"app.env">>, "there", "file", Open)},
                          !.engine.images = is] : is \in {{}, {Image("amd64", FALSE)}}}

BindMounts == Family(BindPlans, BindHosts)

Outside ==
  Family({[PlanOf([PlainService EXCEPT !.build = b]) EXCEPT !.egress = e, !.system = s] : b, e, s \in BOOLEAN},
         {[PlainHost EXCEPT !.registries = rs, !.reboot = r] :
            rs \in {{}, {hub}},
            r \in {[needed |-> n, file |-> f, tool |-> t] : n \in {TRUE}, f \in BOOLEAN, t \in {"answers", "absent"}}
                  \cup {[needed |-> FALSE, file |-> FALSE, tool |-> t] : t \in {"answers", "absent"}}})

Everything ==
  Machines \cup
  {Capacity, Nginx, RedHat, Debian, Directory, Fronts, StoredData, KeptRedis, Unselected, Certificates2,
   Renewals, Backups, BindMounts, Outside}

DebianOnly == {Debian}
=============================================================================

------------------------------ MODULE WebServer ------------------------------
(***************************************************************************)
(* What the audit learns of the host's web server: the configuration that  *)
(* `nginx -T` dumps or `apachectl -S` maps, and the walk of the tree when  *)
(* neither answers (app/collect/proxy).                                    *)
(*                                                                         *)
(* `web` is what there is: for each of nginx and apache, `root` (the main  *)
(* file that was found, or None), `base` (the directory it keeps its       *)
(* configuration in), `binary` (on this PATH) and `answers`; `files`; and  *)
(* `closed`, the directories this account cannot list.                     *)
(* A path is a sequence of names.  A file has                              *)
(*   path, real     where it is and what it resolves to                    *)
(*   kind           "file" or "dir"; `conf`, whether it is called *.conf   *)
(*   access         "read", "stat" (it cannot be opened) or "denied"       *)
(*   names, listens, vhosts, includes   what its directives say            *)
(*   tail           what it listens on past the limit on a file's size     *)
(***************************************************************************)
EXTENDS Naturals, Sequences, FiniteSets, SequencesExt

CONSTANTS None, MaxWalkDepth, MaxWalkFiles, MaxServerNames

ASSUME WalkBoundsAreCounts == {MaxWalkDepth, MaxWalkFiles, MaxServerNames} \subseteq Nat

\* Whether a server is there at all: its control binary, or a main file.
Present(s) == s.binary \/ s.root # None

-----------------------------------------------------------------------------
(***************************************************************************)
(* Directives.                                                             *)
(***************************************************************************)

\* The port of a `listen`: a socket binds none, and an address alone means 80 to
\* nginx and nothing to Apache, whose portless hosts take what it listens on.
NginxListenPort(l) ==
  IF l.form = "unix" THEN {} ELSE IF l.form = "address" THEN {80} ELSE {l.port}

ApachePort(l) == IF l.form = "port" THEN {l.port} ELSE {}

ListenPorts(kind, listens) ==
  UNION {IF kind = "nginx" THEN NginxListenPort(l) ELSE ApachePort(l) : l \in listens}

\* An include: a literal path, or every *.conf, or every entry, of a directory.
Pattern(at, absolute, takes) == [at |-> at, absolute |-> absolute, takes |-> takes]

ResolveInclude(base, p) == IF p.absolute THEN p.at ELSE base \o p.at

Matches(web, dir, takes) ==
  {f.path : f \in {g \in web.files : Len(g.path) > 0 /\ Front(g.path) = dir /\ (takes = "conf" => g.conf)}}

Expansion(web, base, p) ==
  IF p.takes = "literal" THEN {ResolveInclude(base, p)} ELSE Matches(web, ResolveInclude(base, p), p.takes)

\* The same, as the walk has it: filepath.Glob finds nothing in a directory that
\* cannot be listed, and returns no error.
Globbed(web, base, p) ==
  IF p.takes # "literal" /\ ResolveInclude(base, p) \in web.closed THEN {} ELSE Expansion(web, base, p)

Expand(web, base, p) == SetToSeq(Globbed(web, base, p))

NodesAt(web, path) == {f \in web.files : f.path = path}

-----------------------------------------------------------------------------
(***************************************************************************)
(* The configuration the server itself would load: from the main file,     *)
(* every include of every file, a directory taken whole.                   *)
(***************************************************************************)

Includes(web, s, f) ==
  IF f.kind = "dir" THEN Matches(web, f.path, "all")
  ELSE UNION {Expansion(web, s.base, f.includes[i]) : i \in DOMAIN f.includes}

\* The main file is one of these, and whatever they include.
IsWhole(web, s, files) ==
  NodesAt(web, s.root) \cup UNION {NodesAt(web, p) : p \in UNION {Includes(web, s, f) : f \in files}} \subseteq files

Effective(web, s) ==
  LET whole == {files \in SUBSET web.files : IsWhole(web, s, files)}
  IN  IF s.root = None THEN {} ELSE {f \in web.files : f.kind = "file" /\ \A files \in whole : f \in files}

EffectivePorts(web, kind) ==
  UNION {ListenPorts(kind, f.listens \cup f.tail) \cup f.vhosts : f \in Effective(web, web[kind])}

EffectiveNames(web, kind) == UNION {f.names : f \in Effective(web, web[kind])}

-----------------------------------------------------------------------------
(***************************************************************************)
(* What was gathered.  A name is kept with the file it is configured in.   *)
(***************************************************************************)

NoConfiguration == [names |-> {}, ports |-> {}, cut |-> FALSE]

\* Mutant: every name is kept.
AddEveryName(acc, found) == [acc EXCEPT !.names = @ \cup found]

AddNames(acc, found) ==
  LET new  == SetToSeq(found \ acc.names)
      room == MaxServerNames - Cardinality(acc.names)
  IN  [acc EXCEPT !.names = @ \cup ToSet(SubSeq(new, 1, IF Len(new) < room THEN Len(new) ELSE room)),
                  !.cut = @ \/ Len(new) > room]

NamesOf(f) == {[name |-> n, file |-> f.real] : n \in f.names}

\* nginx -T: the files it dumps are the configuration it loads.
ParseNginxDump(web) ==
  LET loaded == Effective(web, web.nginx)
  IN  [AddNames(NoConfiguration, UNION {NamesOf(f) : f \in loaded}) EXCEPT
         !.ports = UNION {ListenPorts("nginx", f.listens \cup f.tail) : f \in loaded}]

\* apachectl -S: names and ports of the addresses that have a virtual host; never a
\* port that is only listened on.
ParseApacheVhostMap(web) ==
  LET hosts == {f \in Effective(web, web.apache) : f.vhosts # {}}
  IN  [AddNames(NoConfiguration, UNION {NamesOf(f) : f \in hosts}) EXCEPT !.ports = UNION {f.vhosts : f \in hosts}]

\* One file of a walk; after a map only ports are taken from it.
ScanNginxFile(acc, f) ==
  [AddNames(acc, NamesOf(f)) EXCEPT !.ports = @ \cup ListenPorts("nginx", f.listens)]

ScanApacheConfig(acc, f, namesFromMap) ==
  [IF namesFromMap THEN acc ELSE AddNames(acc, NamesOf(f)) EXCEPT
     !.ports = @ \cup ListenPorts("apache", f.listens) \cup f.vhosts]

-----------------------------------------------------------------------------
(***************************************************************************)
(* The walk: a stack of patterns to expand and files to read, each with    *)
(* its depth.                                                              *)
(***************************************************************************)

Walk(p, depth) == [pattern |-> p, depth |-> depth]
ReadFile(path, depth) == [pattern |-> Pattern(path, TRUE, "file"), depth |-> depth]

\* Two of nginx's six, the others being of the same two forms, and Apache's.
NginxDropIns == <<Pattern(<<"conf.d">>, FALSE, "conf"), Pattern(<<"sites-enabled">>, FALSE, "all")>>
ApacheDropIns == <<Pattern(<<"conf.d">>, FALSE, "conf"), Pattern(<<"conf-enabled">>, FALSE, "conf"),
                   Pattern(<<"sites-enabled">>, FALSE, "conf"), Pattern(<<"sites-enabled">>, FALSE, "all"),
                   Pattern(<<"vhosts.d">>, FALSE, "conf")>>

NewCrawler(kind, base, mapped, todo) ==
  [kind |-> kind, base |-> base, mapped |-> mapped, todo |-> todo, visited |-> {}, files |-> 0,
   deep |-> FALSE, full |-> FALSE, oversize |-> FALSE, unreadable |-> {}]

RootFirst(s) == IF s.root = None THEN <<>> ELSE <<ReadFile(s.root, 0)>>

WalkNginxTree(s) ==
  NewCrawler("nginx", IF s.root = None THEN s.base ELSE Front(s.root), FALSE,
             RootFirst(s) \o [i \in DOMAIN NginxDropIns |-> Walk(NginxDropIns[i], 1)])

\* The directory of Apache's configuration: the ServerRoot of the map, or what is two
\* levels above the main file.
ApacheBase(s, mapped) == IF mapped \/ s.root = None THEN s.base ELSE Front(Front(s.root))

WalkApacheTree(web, s, mapped) ==
  LET hosts == IF mapped THEN SetToSeq({f.path : f \in {g \in Effective(web, s) : g.vhosts # {}}}) ELSE <<>>
  IN  NewCrawler("apache", ApacheBase(s, mapped), mapped,
                 RootFirst(s) \o [i \in DOMAIN hosts |-> ReadFile(hosts[i], 0)]
                 \o [i \in DOMAIN ApacheDropIns |-> Walk(ApacheDropIns[i], 1)])

\* walk: a pattern too deep is left; another is replaced by its files.
ExpandNext(web, c) ==
  LET item == Head(c.todo)
      paths == Expand(web, c.base, item.pattern)
  IN  IF item.depth > MaxWalkDepth THEN [c EXCEPT !.todo = Tail(@), !.deep = TRUE]
      ELSE [c EXCEPT !.todo = [i \in DOMAIN paths |-> ReadFile(paths[i], item.depth)] \o Tail(@)]

\* file: nothing for one that is not there or was read under another name; a
\* directory becomes a pattern; the rest is counted and opened.
VisitNext(web, c) ==
  LET item  == Head(c.todo)
      path  == item.pattern.at
      there == NodesAt(web, path)
      f     == CHOOSE g \in there : TRUE
      real  == IF there = {} \/ f.access = "denied" THEN path ELSE f.real
      rest  == [c EXCEPT !.todo = Tail(@), !.visited = @ \cup {real}]
      more(patterns) == [i \in DOMAIN patterns |-> Walk(patterns[i], item.depth + 1)]
  IN  IF real \in c.visited \/ there = {} THEN rest
      ELSE IF f.access = "denied" THEN [rest EXCEPT !.unreadable = @ \cup {path}]
      ELSE IF f.kind = "dir" THEN [rest EXCEPT !.todo = more(<<Pattern(path, TRUE, "conf")>>) \o @]
      ELSE IF c.files >= MaxWalkFiles THEN [rest EXCEPT !.full = TRUE]
      ELSE IF f.access = "stat" THEN [rest EXCEPT !.files = @ + 1, !.unreadable = @ \cup {path}]
      ELSE [rest EXCEPT !.files = @ + 1, !.oversize = @ \/ f.tail # {}, !.todo = more(f.includes) \o @]

\* The file this step of the walk scans, if it does.
Scanned(web, c) ==
  {f \in NodesAt(web, Head(c.todo).pattern.at) :
     /\ Head(c.todo).pattern.takes = "file" /\ f.kind = "file" /\ f.access = "read"
     /\ f.real \notin c.visited /\ c.files < MaxWalkFiles}

\* Mutant: a walk that was cut short at a depth is not noted.
NotedShallow(c) == c.full \/ c.oversize \/ c.unreadable # {}

\* notes: whether a bound bit or a file could not be read.
Noted(c) == c.deep \/ c.full \/ c.oversize \/ c.unreadable # {}

\* A walk that opened no file is no picture at all, any other a partial one.
CrawlState(c) == IF c.files = 0 THEN "failed" ELSE "partial"
=============================================================================

------------------------------ MODULE Packages ------------------------------
(* The package managers of app/pkgmgr behind their one interface: which one   *)
(* is taken, the OSV ecosystem of the host, and what each makes of the        *)
(* answers of its programs. What a program prints is abstracted to the facts  *)
(* in it: an installed package is [name, version], a line of a feed is        *)
(* [package, patch, advisory, cve, grade, affected, fixed]; a version is its  *)
(* rank among the versions of the distribution, and NoVersion the empty       *)
(* string, which is also the version of what is not installed. Where the      *)
(* tool's comparison is not the manager's own is what VersionOrder is about.  *)
EXTENDS Integers, SequencesExt

Unread == "unread"
NoVersion == -1

\* The elements of s at these of its places, in their order.
Picked(s, places) == FlattenSeq([i \in DOMAIN s |-> IF i \in places THEN <<s[i]>> ELSE <<>>])

(***************************************************************************)
(* Severities (app/model/severity.go)                                      *)
(***************************************************************************)
Rank(s) == CASE s = "critical" -> 5 [] s = "high" -> 4 [] s = "unknown" -> 3
             [] s = "medium" -> 2 [] s = "low" -> 1 [] OTHER -> 0

\* The vendors' words, each mapped onto one of the severities.
ParseSeverity(label) ==
  CASE label \in {"critical", "urgent"} -> "critical"
    [] label \in {"important", "high"} -> "high"
    [] label \in {"moderate", "medium"} -> "medium"
    [] label \in {"low", "negligible", "unimportant"} -> "low"
    [] label \in {"none", "not yet assigned"} -> "none"
    [] OTHER -> "unknown"

\* debsecan's urgencies: what the tracker calls unimportant is no finding.
UrgencyToSeverity(flags) ==
  CASE flags \in {"high", "medium", "low"} -> flags
    [] flags \in {"unimportant", "not yet assigned"} -> "none"
    [] OTHER -> "unknown"

(***************************************************************************)
(* Detection and ecosystem                                                 *)
(***************************************************************************)
\* The packaging family of the first of ID and ID_LIKE that names one.
FamilyOf(id) ==
  CASE id \in {"debian", "ubuntu"} -> "debian"
    [] id \in {"rhel", "fedora", "centos", "rocky", "almalinux"} -> "rhel"
    [] id \in {"arch", "archlinux"} -> "arch"
    [] id = "alpine" -> "alpine"
    [] id \in {"suse", "opensuse", "sles"} -> "suse"
    [] OTHER -> "other"

Family(os) ==
  LET known == SelectSeq(<<os.id>> \o os.like, LAMBDA id : FamilyOf(id) # "other")
  IN  IF known = <<>> THEN os.id ELSE FamilyOf(known[1])

Candidates == <<"apt-get", "dnf", "yum", "zypper", "pacman", "apk">>

Preferred(family) ==
  CASE family = "debian" -> <<"apt-get">>
    [] family = "rhel" -> <<"dnf", "yum">>
    [] family = "suse" -> <<"zypper">>
    [] family = "arch" -> <<"pacman">>
    [] family = "alpine" -> <<"apk">>
    [] OTHER -> <<>>

\* The first program there is, those of the declared family before the others.
Detect(os, there) ==
  LET found == SelectSeq(Preferred(Family(os)) \o Candidates, LAMBDA b : b \in there)
  IN  IF found = <<>> THEN "none" ELSE found[1]

NoEcosystem == [family |-> "", version |-> ""]
Eco(family, version) == [family |-> family, version |-> version]

OsvEcosystem(os) ==
  CASE os.id = "debian" -> Eco("Debian", os.major)
    [] os.id = "ubuntu" -> Eco("Ubuntu", os.version)
    [] os.id = "alpine" -> Eco("Alpine", os.version)
    [] os.id = "rocky" -> Eco("Rocky Linux", os.major)
    [] os.id = "almalinux" -> Eco("AlmaLinux", os.major)
    [] os.id \in {"rhel", "centos"} -> Eco("Red Hat", "")
    [] os.id = "opensuse" -> Eco("openSUSE", "")
    [] os.id \in {"sles", "sled"} -> Eco("SUSE", "")
    [] OTHER ->
       LET bases == SelectSeq(os.like, LAMBDA id : id \in {"debian", "ubuntu", "alpine"})
       IN  IF bases = <<>> THEN NoEcosystem
           ELSE CASE bases[1] = "debian" -> Eco("Debian", "")
                  [] bases[1] = "ubuntu" -> Eco("Ubuntu", "")
                  [] OTHER -> Eco("Alpine", os.version)

\* Arch's manager names no ecosystem whatever the host says it is.
Ecosystem(manager, os) == IF manager = "pacman" THEN NoEcosystem ELSE OsvEcosystem(os)

\* The manager's comparison of two versions.
Comparator(a, b) == a - b

(***************************************************************************)
(* What a manager lists                                                    *)
(***************************************************************************)
Present(host) == {n \in DOMAIN host : host[n] # NoVersion}

\* Every manager reads its own list of installed packages; zypper reads rpm's.
Installed(host) == {[name |-> n, version |-> host[n]] : n \in Present(host)}

VersionIn(packages, name) ==
  LET found == {p \in packages : p.name = name}
  IN  IF found = {} THEN NoVersion ELSE (CHOOSE p \in found : TRUE).version

\* The lines of a feed about what is installed below its fix.
Pending(host, tracker) ==
  Picked(tracker, {i \in DOMAIN tracker : /\ tracker[i].package \in Present(host)
                                         /\ Comparator(host[tracker[i].package], tracker[i].fixed) < 0})

\* What the repositories on disk hold newer than the host.
Upgradable(host, repo) ==
  {n \in Present(host) : Comparator(host[n], repo[n].version) < 0}

\* What an upgrade installs because a newer version needs it.
Brought(host, repo) ==
  (UNION {repo[m].needs : m \in Upgradable(host, repo)}) \ Present(host)

UpdateRow(host, repo, n, security) ==
  [package |-> n, installed |-> host[n], available |-> repo[n].version,
   security |-> security, severity |-> "unknown"]

\* A simulated dist-upgrade: what it brings has a row without an installed
\* version. apt knows a security update by the archive it comes from.
DistUpgrade(host, repo) == Upgradable(host, repo) \cup Brought(host, repo)
AptUpdates(host, repo) ==
  {UpdateRow(host, repo, n, repo[n].security) : n \in DistUpgrade(host, repo)}

\* dnf's list of updates does not name the installed versions.
CheckUpdate(host, repo) ==
  {[UpdateRow(host, repo, n, FALSE) EXCEPT !.installed = NoVersion] : n \in Upgradable(host, repo)}

\* Its security advisory of a package: the gravest of those that name it.
SecurityIndex(lines, name) ==
  LET own == SelectSeq(lines, LAMBDA l : l.package = name)
      worst == {i \in DOMAIN own : \A j \in DOMAIN own :
                  Rank(ParseSeverity(own[j].grade)) <= Rank(ParseSeverity(own[i].grade))}
  IN  IF own = <<>> THEN [security |-> FALSE, severity |-> "unknown"]
      ELSE [security |-> TRUE,
            severity |-> ParseSeverity(own[CHOOSE i \in worst : TRUE].grade)]

WithSecurity(rows, lines) ==
  {[u EXCEPT !.security = SecurityIndex(lines, u.package).security,
             !.severity = SecurityIndex(lines, u.package).severity] : u \in rows}

WithInstalled(rows, host) ==
  {[u EXCEPT !.installed = VersionIn(Installed(host), u.package)] : u \in rows}

\* The others name both versions, and know no security update.
PlainUpdates(host, repo) ==
  {UpdateRow(host, repo, n, FALSE) : n \in Upgradable(host, repo)}
ZypperUpdates(host, repo) == PlainUpdates(host, repo)
PacmanUpdates(host, repo) == PlainUpdates(host, repo)
ApkUpdates(host, repo) == PlainUpdates(host, repo)

\* The list a manager begins with; dnf and yum complete it by further commands.
Updates(manager, host, repo) ==
  CASE manager = "apt-get" -> AptUpdates(host, repo)
    [] manager \in {"dnf", "yum"} -> CheckUpdate(host, repo)
    [] manager = "zypper" -> ZypperUpdates(host, repo)
    [] manager = "pacman" -> PacmanUpdates(host, repo)
    [] OTHER -> ApkUpdates(host, repo)

(***************************************************************************)
(* What a manager's feed says                                              *)
(***************************************************************************)
\* A row of the vulnerabilities. Without a version the collector fills it in.
DistroRow(name, id, severity, fixed) ==
  [package |-> name, id |-> id, installed |-> NoVersion, fixed |-> fixed,
   severity |-> severity, sources |-> {"distro-metadata"}]

Answer(rows, err) == [rows |-> rows, err |-> err]

\* apt without debsecan: each pending update of a security archive, ungraded.
SecurityOriginFindings(host, repo, names) ==
  LET secure == Picked(names, {i \in DOMAIN names :
                  names[i] \in DistUpgrade(host, repo) /\ repo[names[i]].security})
  IN  [i \in DOMAIN secure |->
        [DistroRow(secure[i], "", "unknown", repo[secure[i]].version)
           EXCEPT !.installed = host[secure[i]]]]

\* An issue without a CVE of its own is passed over.
Debsecan(lines) ==
  LET numbered == Picked(lines, {i \in DOMAIN lines : lines[i].cve # ""})
  IN  [i \in DOMAIN numbered |->
        DistroRow(numbered[i].package, numbered[i].cve,
                  UrgencyToSeverity(numbered[i].grade), NoVersion)]

\* debsecan downloads its data, so it is run only when the network is allowed;
\* whatever keeps it from running leaves the archives' word.
AptAdvisories(lines, origin, debsecanThere, online, ok) ==
  LET fallback(err) == IF ok["list"] THEN Answer(origin, err) ELSE Answer(<<>>, "failed")
  IN  IF ~debsecanThere THEN fallback("none")
      ELSE IF ~online THEN fallback("network")
      ELSE IF ok["feed"] THEN Answer(Debsecan(lines), "none")
      ELSE fallback("failed")

ParseUpdateinfo(lines, withCve) ==
  [i \in DOMAIN lines |->
    DistroRow(lines[i].package,
              IF withCve /\ lines[i].cve # "" THEN lines[i].cve ELSE lines[i].advisory,
              ParseSeverity(lines[i].grade), NoVersion)]

\* Two tries at the list; an empty one is believed if a third try answers.
DnfAdvisories(lines, ok) ==
  LET rows == IF ok["feed"] THEN ParseUpdateinfo(lines, TRUE)
              ELSE IF ok["retry"] THEN ParseUpdateinfo(lines, FALSE) ELSE <<>>
  IN  IF rows = <<>> /\ ~ok["list"] THEN Answer(<<>>, "failed") ELSE Answer(rows, "none")

\* zypper names the patch where the others name the package.
ZypperAdvisories(lines, ok) ==
  IF ~ok["feed"] THEN Answer(<<>>, "failed")
  ELSE Answer([i \in DOMAIN lines |->
                DistroRow(lines[i].patch,
                          IF lines[i].cve # "" THEN lines[i].cve ELSE lines[i].patch,
                          ParseSeverity(lines[i].grade), NoVersion)], "none")

\* arch-audit is not part of the system, and has no offline mode. It names the
\* version it takes for affected, which a row without another one shows.
PacmanAdvisories(lines, archAuditThere, online, ok) ==
  IF ~archAuditThere THEN Answer(<<>>, "missing")
  ELSE IF ~online THEN Answer(<<>>, "network")
  ELSE IF ~ok["feed"] THEN Answer(<<>>, "failed")
  ELSE Answer([i \in DOMAIN lines |->
                [DistroRow(lines[i].package,
                           IF lines[i].advisory # "" THEN lines[i].advisory ELSE lines[i].cve,
                           ParseSeverity(lines[i].grade), lines[i].fixed)
                   EXCEPT !.installed = lines[i].affected]], "none")

\* Alpine's database is not on the disk at all.
ApkAdvisories == Answer(<<>>, "missing")

Advisories(manager, host, repo, tracker, names, tools, online, ok) ==
  LET lines == Pending(host, tracker)
  IN  CASE manager = "apt-get" ->
             AptAdvisories(lines, SecurityOriginFindings(host, repo, names),
                           "debsecan" \in tools, online, ok)
        [] manager \in {"dnf", "yum"} -> DnfAdvisories(lines, ok)
        [] manager = "zypper" -> ZypperAdvisories(lines, ok)
        [] manager = "pacman" -> PacmanAdvisories(lines, "arch-audit" \in tools, online, ok)
        [] OTHER -> ApkAdvisories

=============================================================================

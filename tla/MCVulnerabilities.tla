-------------------------- MODULE MCVulnerabilities --------------------------
(* Three packages, four advisories and the managers of six distributions.     *)
EXTENDS VersionOrder

Packages3 == <<"p", "q", "r">>

\* Versions, as ranks; dpkg's are "1", "1.1a", "1.10", "2" and "10".
V1 == 4
V15 == 11
V2a == 12
V2 == 13
V3 == 14

Latest == [p |-> V2, q |-> V3, r |-> V1]
SmallRepo == [n \in {"p", "q", "r"} |->
               [version |-> Latest[n], security |-> n \in {"p", "r"},
                needs |-> IF n = "p" THEN {"r"} ELSE {}]]

\* One of them lacks what the newer p needs.
SmallHosts ==
  {[p |-> v, q |-> w, r |-> V1] : v \in {V1, V2a}, w \in {V15, V3}}
    \cup {[p |-> V1, q |-> V3, r |-> NoVersion]}

\* How versions are written, in the order each manager gives them: the first is
\* version 0. dpkg sorts a tilde before the end and letters before other
\* characters; rpm sorts a tilde before and a caret after the end, and skips
\* what separates; pacman's vercmp does as an older rpm, but sorts letters that
\* follow a number before the end, and takes an epoch first and a release last;
\* apk sorts the suffixes before the release, then the release, the suffixes
\* after it, a letter and a further number.
DpkgTexts ==
  <<{<<48>>, <<48, 48>>},   \* 0, 00
    {<<49, 126, 126>>},   \* 1~~
    {<<49, 126>>},   \* 1~
    {<<49, 126, 97>>},   \* 1~a
    {<<49>>, <<48, 49>>, <<48, 58, 49>>, <<49, 45, 48>>},   \* 1, 01, 0:1, 1-0
    {<<49, 45, 49>>},   \* 1-1
    {<<49, 45, 49, 48>>},   \* 1-10
    {<<49, 97>>},   \* 1a
    {<<49, 43, 49>>},   \* 1+1
    {<<49, 46, 48>>, <<49, 46>>},   \* 1.0, 1.
    {<<49, 46, 49>>},   \* 1.1
    {<<49, 46, 49, 97>>},   \* 1.1a
    {<<49, 46, 49, 48>>},   \* 1.10
    {<<50>>},   \* 2
    {<<49, 48>>},   \* 10
    {<<49, 58, 48>>},   \* 1:0
    {<<49, 58, 49>>}>>   \* 1:1

RpmTexts ==
  <<{<<48, 45, 49>>},   \* 0-1
    {<<49, 126, 126, 45, 49>>},   \* 1~~-1
    {<<49, 126, 45, 49>>},   \* 1~-1
    {<<49, 126, 97, 45, 49>>},   \* 1~a-1
    {<<49, 45, 49>>, <<48, 49, 45, 49>>, <<48, 58, 49, 45, 49>>, <<58, 49, 45, 49>>},   \* 1-1, 01-1, 0:1-1, :1-1
    {<<49, 45, 50>>},   \* 1-2
    {<<49, 45, 49, 48>>},   \* 1-10
    {<<49, 94, 49, 45, 49>>},   \* 1^1-1
    {<<49, 97, 45, 49>>, <<49, 46, 97, 45, 49>>},   \* 1a-1, 1.a-1
    {<<49, 98, 45, 49>>},   \* 1b-1
    {<<49, 46, 48, 45, 49>>, <<49, 95, 48, 48, 45, 49>>},   \* 1.0-1, 1_00-1
    {<<49, 46, 49, 45, 49>>},   \* 1.1-1
    {<<49, 46, 49, 97, 45, 49>>},   \* 1.1a-1
    {<<49, 46, 49, 48, 45, 49>>},   \* 1.10-1
    {<<50, 45, 49>>},   \* 2-1
    {<<49, 48, 45, 49>>},   \* 10-1
    {<<49, 58, 48, 45, 49>>}>>   \* 1:0-1

PacmanTexts ==
  <<{<<48, 45, 49>>},   \* 0-1
    {<<49, 97, 45, 49>>},   \* 1a-1
    {<<49, 98, 45, 49>>},   \* 1b-1
    {<<49, 114, 99, 49, 45, 49>>},   \* 1rc1-1
    {<<49, 45, 49>>, <<48, 49, 45, 49>>},   \* 1-1, 01-1
    {<<49, 45, 50>>},   \* 1-2
    {<<49, 45, 49, 48>>},   \* 1-10
    {<<49, 46, 97, 45, 49>>},   \* 1.a-1
    {<<49, 46, 48, 45, 49>>},   \* 1.0-1
    {<<49, 46, 49, 97, 45, 49>>},   \* 1.1a-1
    {<<49, 46, 49, 45, 49>>},   \* 1.1-1
    {<<49, 46, 49, 45, 50>>},   \* 1.1-2
    {<<49, 46, 49, 46, 49, 45, 49>>},   \* 1.1.1-1
    {<<49, 46, 49, 48, 45, 49>>},   \* 1.10-1
    {<<50, 45, 49>>},   \* 2-1
    {<<49, 48, 45, 49>>},   \* 10-1
    {<<49, 58, 48, 45, 49>>}>>   \* 1:0-1

ApkTexts ==
  <<{<<48, 45, 114, 48>>},   \* 0-r0
    {<<49, 95, 97, 108, 112, 104, 97, 49, 45, 114, 48>>},   \* 1_alpha1-r0
    {<<49, 95, 98, 101, 116, 97, 49, 45, 114, 48>>},   \* 1_beta1-r0
    {<<49, 95, 114, 99, 49, 45, 114, 48>>},   \* 1_rc1-r0
    {<<49, 45, 114, 48>>},   \* 1-r0
    {<<49, 45, 114, 49>>},   \* 1-r1
    {<<49, 45, 114, 49, 48>>},   \* 1-r10
    {<<49, 95, 103, 105, 116, 49, 45, 114, 48>>},   \* 1_git1-r0
    {<<49, 95, 112, 49, 45, 114, 48>>},   \* 1_p1-r0
    {<<49, 97, 45, 114, 48>>},   \* 1a-r0
    {<<49, 46, 48, 45, 114, 48>>},   \* 1.0-r0
    {<<49, 46, 49, 45, 114, 48>>},   \* 1.1-r0
    {<<49, 46, 49, 97, 45, 114, 48>>},   \* 1.1a-r0
    {<<49, 46, 49, 48, 45, 114, 48>>},   \* 1.10-r0
    {<<50, 45, 114, 48>>},   \* 2-r0
    {<<49, 48, 45, 114, 48>>},   \* 10-r0
    {<<49, 48, 46, 49, 45, 114, 48>>}>>   \* 10.1-r0

Ranked(texts) == [v \in 0..(Len(texts) - 1) |-> texts[v + 1]]

AllTexts ==
  [m \in ToSet(Candidates) |->
    Ranked(CASE m = "apt-get" -> DpkgTexts
             [] m = "pacman" -> PacmanTexts
             [] m = "apk" -> ApkTexts
             [] OTHER -> RpmTexts)]

AllOrders == [p : 0..16, q : 0..16, r : {V1}]

Line(n, patch, advisory, cve, grade, affected, fixed) ==
  [package |-> n, patch |-> patch, advisory |-> advisory, cve |-> cve,
   grade |-> grade, affected |-> affected, fixed |-> fixed]

\* The second has no CVE; the first is not about the version any host has.
SmallTracker ==
  <<Line("p", "P1", "A1", "CVE-1", "low", V15, V2),
    Line("q", "P2", "A2", "", "important", NoVersion, V3),
    Line("r", "P3", "A3", "CVE-3", "", V1, V2)>>

On(kind, at) == [kind |-> kind, at |-> at]
Rng(type, events) == [type |-> type, events |-> events]
Cve(name) == [name |-> name, cve |-> TRUE]
Own(name) == [name |-> name, cve |-> FALSE]

Everywhere == <<Eco("Debian", ""), Eco("Rocky Linux", "9"), Eco("SUSE", ""),
                Eco("Alpine", "v3.19"), Eco("Arch", "")>>

\* The package in every ecosystem but one of another version of Debian.
In(n, versions, ranges) ==
  <<[package |-> n, eco |-> Eco("Debian", "11"), versions |-> {V1, V15, V2a, V2, V3}, ranges |-> <<>>]>>
  \o [i \in DOMAIN Everywhere |->
       [package |-> n, eco |-> Everywhere[i], versions |-> versions, ranges |-> ranges]]

Record(id, aliases, affected, vectors, labels, withdrawn) ==
  [id |-> id, aliases |-> aliases, affected |-> affected, vectors |-> vectors,
   labels |-> labels, withdrawn |-> withdrawn]

UpTo2 == Rng("ECOSYSTEM", <<On("introduced", Zero), On("fixed", V2)>>)

FirstRecord ==
  Record(Own("GHSA-1"), <<Cve("CVE-1")>>, In("p", {}, <<UpTo2>>), <<"critical">>, <<>>, FALSE)
SecondRecord ==
  Record(Cve("CVE-2"), <<>>,
         In("q", {V15}, <<Rng("GIT", <<On("introduced", Zero)>>),
                        Rng("ECOSYSTEM", <<On("introduced", V2), On("last_affected", V2)>>)>>),
         <<"unknown">>, <<"moderate">>, FALSE)
ThirdRecord ==
  Record(Cve("CVE-3"), <<Own("DSA-3")>>,
         In("r", {}, <<Rng("SEMVER", <<On("introduced", V15), On("limit", V2)>>), UpTo2>>),
         <<>>, <<>>, FALSE)
WithdrawnRecord ==
  Record(Cve("CVE-4"), <<>>, In("p", {}, <<UpTo2>>), <<"high">>, <<>>, TRUE)

\* Two branches of one package: what is installed is on the second.
TwoBranches ==
  Record(Cve("CVE-5"), <<>>,
         In("p", {}, <<Rng("ECOSYSTEM",
           <<On("introduced", Zero), On("fixed", V1), On("introduced", V15), On("fixed", V2)>>)>>),
         <<"high">>, <<>>, FALSE)

SmallDataset == <<WithdrawnRecord, FirstRecord, ThirdRecord>>
SmallPublished == <<FirstRecord, SecondRecord, ThirdRecord, WithdrawnRecord>>
Branches == <<TwoBranches>>
None == <<>>

Os(id, like, version, major) == [id |-> id, like |-> like, version |-> version, major |-> major]
Debian == Os("debian", <<>>, "12", "12")
Rocky == Os("rocky", <<"rhel">>, "9.3", "9")
Fedora == Os("fedora", <<>>, "40", "40")
Suse == Os("sles", <<"suse">>, "15", "15")
Arch == Os("arch", <<>>, "", "")
Alpine == Os("alpine", <<>>, "v3.19", "3")

Run(os, there, tools, online, db, override, min, cap) ==
  [os |-> os, there |-> there, tools |-> tools, online |-> online, db |-> db,
   override |-> override, min |-> min, cap |-> cap,
   sections |-> {"vulnerabilities"}]

Listing(os, there) ==
  [Run(os, there, {}, FALSE, FALSE, NoEcosystem, "low", 0) EXCEPT !.sections = {"updates"}]

AllSetups ==
  {Run(Debian, {"apt-get", "dnf"}, {"debsecan"}, TRUE, TRUE, NoEcosystem, "medium", 1),
   Run(Debian, {"apt-get"}, {"debsecan"}, FALSE, TRUE, NoEcosystem, "low", 0),
   Run(Debian, {"apt-get"}, {}, FALSE, FALSE, NoEcosystem, "high", 0),
   Run(Rocky, {"dnf", "yum"}, {}, TRUE, FALSE, NoEcosystem, "medium", 0),
   Run(Fedora, {"dnf"}, {}, TRUE, TRUE, NoEcosystem, "low", 0),
   Run(Suse, {"zypper"}, {}, FALSE, TRUE, NoEcosystem, "low", 0),
   Run(Arch, {"pacman"}, {"arch-audit"}, TRUE, FALSE, Eco("Arch", ""), "low", 0),
   Run(Arch, {"pacman"}, {}, FALSE, FALSE, NoEcosystem, "low", 0),
   Run(Alpine, {"apk"}, {}, TRUE, TRUE, NoEcosystem, "critical", 2),
   Run(Alpine, {}, {}, FALSE, FALSE, NoEcosystem, "low", 0),
   [Run(Debian, {"apt-get"}, {}, FALSE, FALSE, NoEcosystem, "low", 0)
      EXCEPT !.sections = {"updates", "vulnerabilities"}],
   Listing(Debian, {"apt-get"}), Listing(Rocky, {"dnf"}), Listing(Arch, {"pacman"}),
   Listing(Alpine, {"apk"})}

OnlineSetup == {Run(Debian, {"apt-get"}, {}, TRUE, FALSE, NoEcosystem, "low", 0)}

=============================================================================

---------------------------- MODULE MCDeployment ----------------------------
(***************************************************************************)
(* The situations the audit of Deployment is checked in.  Each is a plan,  *)
(* the containers and processes on the host, and how well each source can  *)
(* be read.  The families cross what interacts and hold the rest fixed.    *)
(***************************************************************************)
EXTENDS Deployment

CONSTANTS a1, a2, b1,            \* host addresses
          web, worker, gone,     \* services
          mine, theirs,          \* projects
          here, elsewhere,       \* directories
          fresh, stale             \* configuration hashes

Range80(address, last, protocol) ==
  [address |-> address, hostPort |-> 80, hostPortEnd |-> last, containerPort |-> 80,
   containerPortEnd |-> 0, protocol |-> protocol]

Publish80(address) == Range80(address, 0, "tcp")

Service(network, publishes, expose) ==
  [network |-> network, publishes |-> publishes, expose |-> expose, hash |-> fresh]

Options == {[removeOrphans |-> r, forceRecreate |-> f, noRecreate |-> n] :
              r \in BOOLEAN, f \in BOOLEAN, n \in BOOLEAN} \ \* --force-recreate and --no-recreate exclude each other
           {[removeOrphans |-> r, forceRecreate |-> TRUE, noRecreate |-> TRUE] : r \in BOOLEAN}

Plain == [removeOrphans |-> FALSE, forceRecreate |-> FALSE, noRecreate |-> FALSE]

Plan(svc, o, hashes) ==
  [project |-> mine, dir |-> here, services |-> DOMAIN svc, svc |-> svc, hashes |-> hashes,
   removeOrphans |-> o.removeOrphans, forceRecreate |-> o.forceRecreate, noRecreate |-> o.noRecreate]

AllHashes(svc) == [s \in DOMAIN svc |-> fresh]

\* Existing containers, by whose they are.
Container(project, service, dir, oneOff, hash, labelled) ==
  [labelled |-> labelled, project |-> project, service |-> service, dir |-> dir, oneOff |-> oneOff,
   hash |-> hash, state |-> "running", network |-> "bridge", publishes |-> {}, expose |-> {}, new |-> FALSE]

Previous(s)   == Container(mine, s, here, FALSE, stale, TRUE)
Unchanged(s)  == Container(mine, s, here, FALSE, fresh, TRUE)
Orphan        == Container(mine, gone, here, FALSE, stale, TRUE)
OneOff        == Container(mine, web, here, TRUE, stale, TRUE)
OtherCheckout == Container(mine, web, elsewhere, FALSE, stale, TRUE)
Renamed       == Container(theirs, web, here, FALSE, stale, TRUE)
OtherService  == Container(mine, gone, elsewhere, FALSE, stale, TRUE)
Foreign       == Container(theirs, web, elsewhere, FALSE, stale, TRUE)
Unmanaged     == Container(None, None, None, FALSE, None, TRUE)
Unlabelled    == Container(None, None, None, FALSE, None, FALSE)

Kinds == {Previous(web), Previous(worker), Unchanged(web), Orphan, OneOff, OtherCheckout,
          OtherService, Renamed, Foreign, Unmanaged, Unlabelled}

Publishing(c, publishes) == [c EXCEPT !.publishes = publishes]
Stopped(c)               == [c EXCEPT !.state = "exited"]

Listener(protocol, port, address, only) ==
  [protocol |-> protocol, port |-> port, address |-> address, only |-> only]

Processes == {Listener("tcp", 80, Wildcard4, FALSE), Listener("tcp", 80, a1, FALSE),
              Listener("tcp", 80, a2, FALSE), Listener("tcp6", 80, Wildcard6, TRUE),
              Listener("tcp6", 80, Wildcard6, FALSE), Listener("tcp6", 80, b1, FALSE),
              Listener("udp", 80, Wildcard4, FALSE), Listener("tcp", 81, Wildcard4, FALSE)}

Full == [on |-> TRUE, ipv6Read |-> TRUE, ss |-> TRUE, engine |-> "complete", socketsRead |-> "complete",
         portsUnchecked |-> FALSE, hostIP |-> a1, churn |-> FALSE]

Readings == {Full,
             [Full EXCEPT !.on = FALSE],
             [Full EXCEPT !.ipv6Read = FALSE, !.ss = FALSE],
             [Full EXCEPT !.on = FALSE, !.ipv6Read = FALSE],
             [Full EXCEPT !.engine = "partial"],
             [Full EXCEPT !.engine = "failed"],
             [Full EXCEPT !.socketsRead = "partial"],
             [Full EXCEPT !.socketsRead = "failed"],
             [Full EXCEPT !.portsUnchecked = TRUE]}

Family(plans, readings, cs, ls) ==
  [plans |-> plans, facts |-> readings, containers |-> cs, listeners |-> ls]

AtMostOne(S) == {{}} \cup {{x} : x \in S}

-----------------------------------------------------------------------------

PlanAddresses == {Unnamed, Wildcard4, a1, Wildcard6, Unreadable}

Web(address) == [s \in {web} |-> Service("bridge", {Publish80(address)}, {})]

WebAndWorker(address) ==
  [s \in {web, worker} |-> IF s = web THEN Service("bridge", {Publish80(address)}, {})
                           ELSE Service("bridge", {Publish80(a2)}, {})]

\* A container whose hash is the plan's publishes what the plan does.
Existing(svc, addresses) ==
  {Publishing(c, {Publish80(a)}) : c \in Kinds \ {Unchanged(web)}, a \in addresses}
  \cup {Publishing(Unchanged(web), {[m EXCEPT !.address = IF @ = Unreadable THEN a1 ELSE @] : m \in svc[web].publishes})}

\* One container of any kind, or this deployment's own beside another's.
OneOrTwo(svc) ==
  AtMostOne(Existing(svc, {Unnamed, a1, Wildcard6}) \cup {Stopped(c) : c \in Existing(svc, {a1})}
            \cup {Publishing(Stopped(Unchanged(web)), svc[web].publishes)})
  \cup {{Publishing(Previous(web), {Publish80(a1)}), Publishing(c, {Publish80(a)})} :
          c \in {Orphan, Foreign, Previous(worker)}, a \in {a2, b1}}

\* Every kind of owner under every option of `up`.
Owners ==
  {Family({Plan(svc, o, AllHashes(svc)) : o \in Options} \cup {Plan(svc, Plain, <<>>)},
          {Full}, OneOrTwo(svc), AtMostOne(Processes)) :
     svc \in {Web(a) : a \in PlanAddresses} \cup {WebAndWorker(a1)}}

\* Every way the sources can be read.
Views ==
  {Family({Plan(svc, Plain, AllHashes(svc))}, Readings, OneOrTwo(svc), AtMostOne(Processes)) :
     svc \in {Web(a) : a \in PlanAddresses}}

\* Things that come and go while the audit runs.
Churning ==
  {Family({Plan(svc, Plain, AllHashes(svc))}, {[Full EXCEPT !.churn = TRUE]}, OneOrTwo(svc), AtMostOne(Processes)) :
     svc \in {Web(a) : a \in {Unnamed, a1}}}

\* A host range to one container port, and a publish with no socket table.
Ranged ==
  LET occupied == {Listener("tcp", 80, Wildcard4, FALSE), Listener("tcp", 81, Wildcard4, FALSE),
                   Listener("tcp", 81, a1, FALSE), Listener("tcp6", 81, Wildcard6, FALSE)}
      At(port, m) == [m EXCEPT !.hostPort = port, !.hostPortEnd = 0]
      Same(svc) == {Publishing(Unchanged(web), {At(p, m) : m \in svc[web].publishes}) : p \in {80, 81}}
                   \cup {Publishing(Stopped(Unchanged(web)), svc[web].publishes)}
  IN  {Family({Plan(svc, Plain, AllHashes(svc))}, Readings \cup {[Full EXCEPT !.churn = TRUE]},
              AtMostOne({Publishing(c, {Range80(a, l, "tcp")}) :
                           c \in {Previous(web), Previous(worker), Foreign}, a \in {Unnamed, a1}, l \in {0, 81}}
                        \cup Same(svc)),
              SUBSET occupied) :
         svc \in {[s \in {web} |-> Service("bridge", {Range80(a, 81, p)}, {})] :
                    a \in {Unnamed, a1}, p \in {"tcp", "sctp"}}}

\* A service on the host's network stack: its previous container there too, or
\* publishing, or another's container in its way.
HostServices == {Service("host", {Publish80(Unnamed)}, {}), Service("host", {}, {}),
                 Service("host", {Publish80(Unnamed)}, {81}), Service("host", {}, {80}),
                 Service("host", {Range80(Unnamed, 0, "sctp")}, {})}

OnHostNetwork(c, svc) == [c EXCEPT !.network = "host", !.publishes = svc.publishes, !.expose = svc.expose]

HostNetwork ==
  {Family({Plan([s \in {web} |-> svc], Plain, [s \in {web} |-> fresh])}, Readings,
          AtMostOne({OnHostNetwork(c, svc) : c \in {Previous(web), Unchanged(web), Foreign}}
                    \cup {Publishing(c, {Publish80(a)}) :
                            c \in {Previous(web), Foreign, OneOff, Unmanaged}, a \in {Unnamed, a1}}),
          AtMostOne(Processes \cup {Listener("sctp", 80, Wildcard4, FALSE)})) :
     svc \in HostServices}

Everything == Owners \cup Views \cup Churning \cup Ranged \cup HostNetwork

SomeNewcomers == {Listener("tcp", 80, a2, FALSE), Listener("tcp6", 80, Wildcard6, TRUE)}
=============================================================================

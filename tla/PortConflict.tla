----------------------------- MODULE PortConflict -----------------------------
(***************************************************************************)
(* witness.port_conflict: the port rule of app/witness/conflicts.rules.go, *)
(* its verdict (assessPorts in outcomes.go) and the port state the change  *)
(* list uses (changes.go).                                                 *)
(*                                                                         *)
(* `in` is the rule's input:                                               *)
(*   plan            the planned run; plan.svc[s] is service s: `network`  *)
(*                   ("host" or "bridge"), `publishes` and `expose`        *)
(*   containers      the containers the engine listed, with their publishes*)
(*   listed          how the list was read ("absent": no engine installed) *)
(*   sockets         the listening sockets read                            *)
(*   socketsRead     how they were read                                    *)
(*   portsUnchecked  the ports section was not selected                    *)
(*   ipv6            what was read of the host's IPv6                      *)
(***************************************************************************)
EXTENDS PortMatch, Ownership, Outcomes

\* engineList: can the container list prove an absence?  It can when it was read
\* in full, and when no engine is installed.
EngineListed(in) == in.listed \in {"complete", "absent"}

Finding(s, port, outcome, severity) ==
  [service |-> s, port |-> port, outcome |-> outcome, severity |-> severity]

-----------------------------------------------------------------------------

\* The closest any publish of a container comes to the wanted binding.
ContainerOverlap(in, want, c) ==
  Worst(UNION {{Collides(in.ipv6, want, MappingClaim(m, p)) : p \in HostPorts(m)} : m \in c.publishes})

SocketHolders(in, want) ==
  {h \in {[isSocket |-> TRUE, by |-> s, overlap |-> Collides(in.ipv6, want, SocketClaim(s))] : s \in in.sockets} :
     h.overlap # "none"}

ContainerHolders(in, want) ==
  {h \in {[isSocket |-> FALSE, by |-> c, overlap |-> ContainerOverlap(in, want, c)] : c \in in.containers} :
     h.overlap # "none"}

PortHolders(in, want) == ContainerHolders(in, want) \cup SocketHolders(in, want)

\* Some holder is a container that the planned run releases before it binds.
OwnHolder(in, holders) == \E h \in holders : ~h.isSocket /\ Released(in.plan, h.by)

CertainHolders(holders) == {h \in holders : h.overlap = "yes"}

ForeignContainer(in, holders) == \E h \in holders : ~h.isSocket /\ ~Released(in.plan, h.by)

\* A bare socket may be this deployment's own docker-proxy, unless the engine's
\* containers were listed.
OwnershipKnown(in, holders) == (\E h \in holders : ~h.isSocket) \/ EngineListed(in)

\* Mutant: the deployment's own container blocks it.
BlockedByOwn(in, holders) == CertainHolders(holders) # {}

\* Mutant: the deployment's own container settles it, whoever holds the rest.
BlockedUnlessOwn(in, holders) == CertainHolders(holders) # {} /\ ~OwnHolder(in, holders)

\* Something certainly holds the binding and it is not just our own container.
Blocked(in, holders) ==
  /\ CertainHolders(holders) # {}
  /\ ~OwnHolder(in, holders) \/ ForeignContainer(in, CertainHolders(holders))

\* Mutant: the finding names the service that holds the binding.
PortConflictFindingOfHolder(in, s, port, holders) ==
  LET held == {h \in CertainHolders(holders) : ~h.isSocket}
      named == IF held = {} THEN s ELSE (CHOOSE h \in held : TRUE).by.service
  IN  IF Blocked(in, holders) THEN
        IF OwnershipKnown(in, CertainHolders(holders)) THEN Finding(named, port, "problem", "blocker")
        ELSE Finding(named, port, "unknown", "warning")
      ELSE IF OwnHolder(in, holders) THEN Finding(named, port, "no-problem", "info")
      ELSE Finding(named, port, "unknown", "warning")

\* The finding on one wanted host port that has holders.
PortConflictFinding(in, s, port, holders) ==
  IF Blocked(in, holders) THEN
    IF OwnershipKnown(in, CertainHolders(holders)) THEN Finding(s, port, "problem", "blocker")
    ELSE Finding(s, port, "unknown", "warning")
  ELSE IF OwnHolder(in, holders) THEN Finding(s, port, "no-problem", "info")
  ELSE Finding(s, port, "unknown", "warning")

\* A publish whose protocol has no socket table is never silence.
UnobservableProtocol(s, port) == Finding(s, port, "manual-check", "warning")

-----------------------------------------------------------------------------

\* Mutant: a port of the range held by this deployment's own container is not free.
PortStateByHolders(in, m, port) ==
  LET holders == PortHolders(in, MappingClaim(m, port))
  IN  IF ~ObservableProtocol(BaseProtocol(m.protocol)) THEN "free"
      ELSE IF holders = {} THEN IF in.portsUnchecked THEN "unchecked" ELSE "free"
      ELSE IF CertainHolders(holders) # {} THEN "taken" ELSE "maybe"

\* The change list's answer for one host port, by the same matching.
PortState(in, m, port) ==
  LET holders == PortHolders(in, MappingClaim(m, port))
  IN  IF ~ObservableProtocol(BaseProtocol(m.protocol)) THEN "free"
      ELSE IF holders = {} THEN IF in.portsUnchecked THEN "unchecked" ELSE "free"
      ELSE IF Blocked(in, holders) THEN
        IF OwnershipKnown(in, CertainHolders(holders)) THEN "taken" ELSE "maybe"
      ELSE IF OwnHolder(in, holders) THEN "free" ELSE "maybe"

\* A host range published to one container port needs one free port of the range.
DynamicRange(in, s, m) ==
  LET states == {PortState(in, m, p) : p \in HostPorts(m)}
  IN  IF ~ObservableProtocol(BaseProtocol(m.protocol)) THEN {UnobservableProtocol(s, m.hostPort)}
      ELSE IF "free" \in states THEN {}
      ELSE IF states = {"taken"} THEN {Finding(s, m.hostPort, "problem", "blocker")}
      ELSE {Finding(s, m.hostPort, "unknown", "warning")}

\* Every host port of a publish that is not a range to one container port.
StaticPorts(in, s, m) ==
  IF ~ObservableProtocol(BaseProtocol(m.protocol))
  THEN {UnobservableProtocol(s, p) : p \in HostPorts(m)}
  ELSE {PortConflictFinding(in, s, p, PortHolders(in, MappingClaim(m, p))) :
          p \in {q \in HostPorts(m) : PortHolders(in, MappingClaim(m, q)) # {}}}

-----------------------------------------------------------------------------

\* The ports a service on the host's network stack says it listens on.
DeclaredPorts(svc) ==
  {[port |-> p, protocol |-> "tcp"] : p \in svc.expose}
  \cup UNION {{[port |-> p, protocol |-> BaseProtocol(m.protocol)] :
                 p \in m.containerPort .. (IF m.containerPortEnd < m.containerPort
                                           THEN m.containerPort ELSE m.containerPortEnd)} :
              m \in svc.publishes}

\* A running container of this deployment's service that the plan releases.
RunningOwnContainer(in, s) ==
  \E c \in in.containers : /\ c.service = s /\ c.state = "running"
                           /\ OwnerOf(in.plan, c) = "service" /\ Released(in.plan, c)

\* A service on the host's network stack binds addresses of its own choosing: a
\* wildcard holder is in its way, unless it may be the service's own previous
\* container, whose sockets carry no label.
HostNetworkPorts(in, s) ==
  LET declared  == DeclaredPorts(in.plan.svc[s])
      Holders(d) == SocketHolders(in, [protocol |-> d.protocol, port |-> d.port,
                                       address |-> Unnamed, v6only |-> ""])
      Wildcard(d) == \E h \in Holders(d) :
                       SocketClaim(h.by).address \in {AnyAddress, Wildcard4, Wildcard6}
  IN  IF declared = {} THEN {Finding(s, 0, "manual-check", "info")}
      ELSE {IF Wildcard(d) /\ ~RunningOwnContainer(in, s)
            THEN Finding(s, d.port, "problem", "blocker")
            ELSE Finding(s, d.port, "unknown", "warning") :
              d \in {e \in declared : ObservableProtocol(e.protocol) /\ Holders(e) # {}}}

PortConflicts(in) ==
  UNION {IF in.plan.svc[s].network = "host" THEN HostNetworkPorts(in, s)
         ELSE UNION {IF Dynamic(m) THEN DynamicRange(in, s, m) ELSE StaticPorts(in, s, m) :
                       m \in in.plan.svc[s].publishes} :
         s \in in.plan.services}

-----------------------------------------------------------------------------

PublishesHostPort(in) ==
  \E s \in in.plan.services : \E m \in in.plan.svc[s].publishes : HostPorts(m) # {}

\* Mutant: sockets that could not be read are read as none.
AssessPortsRead(in) ==
  IF ~PublishesHostPort(in) THEN "not-applicable"
  ELSE IF in.portsUnchecked THEN "unknown" ELSE "no-problem"

\* The rule's own verdict.
AssessPorts(in) ==
  IF ~PublishesHostPort(in) THEN "not-applicable"
  ELSE IF in.portsUnchecked \/ in.socketsRead = "failed" THEN "unknown"
  ELSE "no-problem"

\* The rule's outcome: the most pressing of its findings and its verdict.
PortOutcome(in) == MostPressing({f.outcome : f \in PortConflicts(in)} \cup {AssessPorts(in)})
=============================================================================

-------------------------- MODULE Deployment_proofs --------------------------
(***************************************************************************)
(* What the audit of the published ports is worth, for any plans, hosts,   *)
(* readings, addresses and numbers of services, containers and listeners   *)
(* (SituationsTyped says what such a situation is): the six properties of  *)
(* Deployment, each of the situations in which the rule is right.          *)
(*                                                                         *)
(* CollidesYes and CollidesNone say what Collides tells of two claims.     *)
(* The first part carries that over to publishes, containers and sockets   *)
(* as they are listed (ProblemIsHeld, ClearIsFree).  The rest follows what *)
(* the audit established through the steps of a host that changes and of   *)
(* `up`, in one inductive invariant for each property:                     *)
(*   Typed         the types, and how far `up` is in each phase            *)
(*   AsPlanned     a container with the plan's hash is made from the plan  *)
(*   BlockersHold  what a problem was reported of is held by something     *)
(*                 that `up` does not remove                               *)
(*   UnreadTold    sockets that were not read have left their outcome      *)
(*   FatesKnown    which of the containers listed are still there          *)
(*   ClearHolds    nothing is misjudged and the reads are all there is,    *)
(*                 then: what a clear service binds is free, or is its own *)
(***************************************************************************)
EXTENDS Deployment, TLAPS

\* A family's "yes" is an address that both bindings take.
LEMMA FamilyYes ==
  ASSUME NEW c, c.address \in Address, NEW d, d.address \in Address,
         NEW v4 \in BOOLEAN, NEW seen \in IPv6Seen, NEW o \in BOOLEAN,
         NEW onlyC \in BOOLEAN, NEW onlyD \in BOOLEAN,
         Truthful(seen, o), TrueOf(c, onlyC), TrueOf(d, onlyD),
         FamilyOverlap(seen, c, d, v4) = "yes"
  PROVE  Takes(c, o, onlyC) \cap Takes(d, o, onlyD) # {}
BY AddrAssumption DEF FamilyOverlap, Coverage, Takes, Truthful, TrueOf, Address, HostAddr, IPv6Seen, Literals, AnyAddress,
   Unnamed, Wildcard4, Wildcard6, Unreadable

\* What a binding takes in a family, by what Coverage calls it.
LEMMA FamilyTaken ==
  ASSUME NEW c, c.address \in Address, Readable(c), NEW v4 \in BOOLEAN, NEW seen \in IPv6Seen, NEW o \in BOOLEAN,
         NEW only \in BOOLEAN, Truthful(seen, o), TrueOf(c, only)
  PROVE  LET taken == Takes(c, o, only) \cap (IF v4 THEN Addr4 ELSE Addr6)
         IN  /\ Coverage(c, v4, seen) = "none" => taken = {}
             /\ Coverage(c, v4, seen) = "specific" => taken \subseteq {c.address}
BY AddrAssumption DEF Coverage, Takes, Truthful, TrueOf, Address, HostAddr, IPv6Seen, Literals, AnyAddress,
   Unnamed, Wildcard4, Wildcard6, Unreadable, Readable

\* A family's "none" leaves no address of the family to both.
LEMMA FamilyNone ==
  ASSUME NEW c, c.address \in Address, Readable(c), NEW d, d.address \in Address, Readable(d),
         NEW v4 \in BOOLEAN, NEW seen \in IPv6Seen, NEW o \in BOOLEAN,
         NEW onlyC \in BOOLEAN, NEW onlyD \in BOOLEAN,
         Truthful(seen, o), TrueOf(c, onlyC), TrueOf(d, onlyD),
         FamilyOverlap(seen, c, d, v4) = "none"
  PROVE  Takes(c, o, onlyC) \cap Takes(d, o, onlyD) \cap (IF v4 THEN Addr4 ELSE Addr6) = {}
<1>1. \/ Coverage(c, v4, seen) = "none" \/ Coverage(d, v4, seen) = "none"
      \/ Coverage(c, v4, seen) = "specific" /\ Coverage(d, v4, seen) = "specific" /\ c.address # d.address
  BY DEF FamilyOverlap, Coverage
<1>2. QED
  BY <1>1, FamilyTaken

\* A "yes" of Collides: one port, one protocol, and an address that both take.
LEMMA CollidesYes ==
  ASSUME NEW c, c.address \in Address, NEW d, d.address \in Address,
         NEW seen \in IPv6Seen, NEW o \in BOOLEAN,
         NEW onlyC \in BOOLEAN, NEW onlyD \in BOOLEAN,
         Truthful(seen, o), TrueOf(c, onlyC), TrueOf(d, onlyD),
         Collides(seen, c, d) = "yes"
  PROVE  /\ c.port = d.port /\ c.protocol = d.protocol
         /\ Takes(c, o, onlyC) \cap Takes(d, o, onlyD) # {}
BY FamilyYes DEF Collides, Worst

\* A "none" of Collides for one port of one protocol: no address that both take.
LEMMA CollidesNone ==
  ASSUME NEW c, c.address \in Address, Readable(c), NEW d, d.address \in Address, Readable(d),
         c.port = d.port, c.protocol = d.protocol,
         NEW seen \in IPv6Seen, NEW o \in BOOLEAN,
         NEW onlyC \in BOOLEAN, NEW onlyD \in BOOLEAN,
         Truthful(seen, o), TrueOf(c, onlyC), TrueOf(d, onlyD),
         Collides(seen, c, d) = "none"
  PROVE  Takes(c, o, onlyC) \cap Takes(d, o, onlyD) = {}
<1>1. \A v4 \in BOOLEAN : FamilyOverlap(seen, c, d, v4) = "none"
  BY DEF Collides, Worst, FamilyOverlap
<1>2. \A v4 \in BOOLEAN : Takes(c, o, onlyC) \cap Takes(d, o, onlyD) \cap (IF v4 THEN Addr4 ELSE Addr6) = {}
  BY <1>1, FamilyNone
<1>3. QED
  BY <1>2 DEF Takes, HostAddr

\* What was read of the host's IPv6, as the rule is told it.
Seen == IF ~facts.ipv6Read THEN "" ELSE IF facts.on THEN "enabled" ELSE "disabled"

\* What the engine binds for one host port of a publish.
Binding(m, p) == Endpoints(m.protocol, p, Takes(MappingClaim(Real(m), p), facts.on, TRUE))

\* The types of the situation.
Situation ==
  /\ IsPlan(plan) /\ facts \in Facts
  /\ \A c \in containers : IsContainer(c)
  /\ listeners \subseteq Listening

\* What is read of the host's IPv6 is true of it, whichever list the rule is given.
LEMMA SeenIsTrue ==
  ASSUME facts \in Facts
  PROVE  /\ Seen \in IPv6Seen /\ Truthful(Seen, facts.on) /\ facts.on \in BOOLEAN
         /\ \A S, C : RuleInput(S, C).ipv6 = Seen
BY DEF Facts, Seen, IPv6Seen, Truthful, RuleInput

\* A host port of a publish, bound on its own.
LEMMA FixedIs ==
  ASSUME facts \in Facts, NEW m \in Mapping, NEW p \in HostPorts(m)
  PROVE  /\ p \in Nat \ {0}
         /\ Fixed(m, p) \in Mapping /\ Fixed(m, p).address # Unreadable
         /\ HostPorts(Fixed(m, p)) = {p} /\ ~Dynamic(Fixed(m, p))
         /\ PublishTakes(Fixed(m, p)) = Binding(m, p)
         /\ Fixed(Fixed(m, p), p) = Fixed(m, p)
<1>1. /\ p \in Nat \ {0} /\ m.hostPort \in Nat \ {0}
      /\ m = [address |-> m.address, hostPort |-> m.hostPort, hostPortEnd |-> m.hostPortEnd,
              containerPort |-> m.containerPort, containerPortEnd |-> m.containerPortEnd, protocol |-> m.protocol]
      /\ m.address \in Address \ {AnyAddress}
      /\ m.containerPort \in Nat /\ m.protocol \in Protocols
  BY DEF HostPorts, Mapping
<1> DEFINE a == IF m.address = Unreadable THEN facts.hostIP ELSE m.address
<1>2. /\ a \in Address \ {AnyAddress, Unreadable}
      /\ Real(m) = [address |-> a, hostPort |-> m.hostPort, hostPortEnd |-> m.hostPortEnd,
                    containerPort |-> m.containerPort, containerPortEnd |-> m.containerPortEnd, protocol |-> m.protocol]
  BY <1>1 DEF Real, Facts
<1> HIDE DEF a
<1>3. Fixed(m, p) = [address |-> a, hostPort |-> p, hostPortEnd |-> 0,
                     containerPort |-> m.containerPort, containerPortEnd |-> 0, protocol |-> m.protocol]
  BY <1>2 DEF Fixed
<1>4. Fixed(m, p) \in Mapping /\ Fixed(m, p).address # Unreadable
  BY <1>1, <1>2, <1>3 DEF Mapping
<1>5. HostPorts(Fixed(m, p)) = {p} /\ ~Dynamic(Fixed(m, p))
  BY <1>1, <1>3 DEF HostPorts, Dynamic
<1>6. Real(Fixed(m, p)) = Fixed(m, p)
  BY <1>2, <1>3 DEF Real
<1>7. Fixed(Fixed(m, p), p) = Fixed(m, p)
  BY <1>3, <1>6 DEF Fixed
<1>8. PublishTakes(Fixed(m, p)) = Endpoints(m.protocol, p, Takes(MappingClaim(Fixed(m, p), p), facts.on, TRUE))
  <2> DEFINE At(q) == Endpoints(m.protocol, q, Takes(MappingClaim(Fixed(m, p), q), facts.on, TRUE))
  <2>1. Fixed(m, p).protocol = m.protocol
    BY <1>3
  <2>2. PublishTakes(Fixed(m, p)) = UNION {At(q) : q \in {p}}
    BY <1>5, <2>1 DEF PublishTakes
  <2> HIDE DEF At
  <2>3. UNION {At(q) : q \in {p}} = At(p)
    OBVIOUS
  <2>4. QED
    BY <2>2, <2>3 DEF At
<1>9. MappingClaim(Fixed(m, p), p) = MappingClaim(Real(m), p)
  BY <1>2, <1>3 DEF MappingClaim
<1>10. QED
  BY <1>1, <1>4, <1>5, <1>7, <1>8, <1>9 DEF Binding

\* What the engine lists of a container's publishes: a running one's on a bridge, each
\* at the addresses it is bound on.
LEMMA ListedPublish ==
  ASSUME NEW c, IsContainer(c), NEW m \in Listing(c).publishes
  PROVE  /\ c.state = "running" /\ c.network = "bridge"
         /\ \E n \in c.publishes : \E a \in EngineAddresses(n) : m = [n EXCEPT !.address = a]
<1>1. Listing(c).publishes = IF c.state # "running" \/ c.network = "host" THEN {}
                             ELSE UNION {{[n EXCEPT !.address = a] : a \in EngineAddresses(n)} : n \in c.publishes}
  BY DEF Listing, IsContainer
<1>2. QED
  BY <1>1 DEF IsContainer, IsService

\* A listing has the labels of its container, and so its owner.
LEMMA ListingLabels ==
  ASSUME NEW c, IsContainer(c)
  PROVE  /\ OwnerOf(plan, Listing(c)) = OwnerOf(plan, c)
         /\ Released(plan, Listing(c)) = Released(plan, c)
         /\ Listing(c).service = c.service /\ Listing(c).state = c.state
         /\ ComposeAction(plan, Listing(c)) = ComposeAction(plan, c)
<1>1. /\ Listing(c).labelled = c.labelled /\ Listing(c).project = c.project
      /\ Listing(c).service = c.service /\ Listing(c).dir = c.dir
      /\ Listing(c).oneOff = c.oneOff /\ Listing(c).hash = c.hash /\ Listing(c).state = c.state
  BY DEF Listing, IsContainer
<1>2. OwnerOf(plan, Listing(c)) = OwnerOf(plan, c)
  BY <1>1 DEF OwnerOf, SameProject, DifferentDirectory, SameDirectory, PlannedService
<1>3. QED
  BY <1>1, <1>2 DEF Released, ComposeAction

\* The addresses of a publish are its address.
LEMMA EngineAddressTakes ==
  ASSUME facts \in Facts, NEW m \in Mapping, m.address # Unreadable, NEW a \in EngineAddresses(m)
  PROVE  /\ a \in Address \ {AnyAddress, Unnamed, Unreadable} \/ a = m.address
         /\ a \in Address
         /\ \A b, d : b.address = a /\ d.address = m.address => Takes(b, facts.on, TRUE) \subseteq Takes(d, facts.on, TRUE)
BY AddrAssumption DEF EngineAddresses, Takes, Facts, Mapping, Address, HostAddr, Literals, AnyAddress, Unnamed, Wildcard4,
   Wildcard6, Unreadable

\* A publish of the plan, as a claim.  If it can be read, it is what the engine binds.
LEMMA ClaimIs ==
  ASSUME facts \in Facts, NEW m \in Mapping, NEW p
  PROVE  /\ MappingClaim(m, p).address \in Address /\ MappingClaim(m, p).address = m.address
         /\ MappingClaim(m, p).protocol = BaseProtocol(m.protocol) /\ MappingClaim(m, p).port = p
         /\ \A only \in BOOLEAN : TrueOf(MappingClaim(m, p), only)
         /\ Readable(MappingClaim(m, p)) => Real(m) = m
<1>1. m.address \in Address
  BY DEF Mapping
<1>2. m.address # Unreadable => Real(m) = m
  BY DEF Real, Mapping
<1>3. QED
  BY <1>1, <1>2 DEF MappingClaim, TrueOf, Readable

\* The bindings of an endpoint.
LEMMA EndpointIn ==
  ASSUME NEW protocol, NEW port, NEW A, NEW a \in A
  PROVE  [protocol |-> BaseProtocol(protocol), port |-> port, address |-> a] \in Endpoints(protocol, port, A)
BY DEF Endpoints

\* What is bound for a publish of a container that runs is among what it holds.
LEMMA PublishHolds ==
  ASSUME NEW c, c.state = "running", c.network = "bridge",
         NEW n \in c.publishes, NEW q \in HostPorts(n),
         NEW a \in Takes(MappingClaim(n, q), facts.on, TRUE)
  PROVE  [protocol |-> BaseProtocol(n.protocol), port |-> q, address |-> a] \in ContainerTakes(c)
<1>1. [protocol |-> BaseProtocol(n.protocol), port |-> q, address |-> a]
        \in Endpoints(n.protocol, q, Takes(MappingClaim(n, q), facts.on, TRUE))
  BY EndpointIn
<1>2. [protocol |-> BaseProtocol(n.protocol), port |-> q, address |-> a] \in PublishTakes(n)
  BY <1>1 DEF PublishTakes
<1>3. ContainerTakes(c) = UNION {PublishTakes(m) : m \in c.publishes}
  BY DEF ContainerTakes
<1>4. QED
  BY <1>2, <1>3

\* A claim that certainly collides with a wanted binding takes an address of it.
LEMMA YesBinds ==
  ASSUME facts \in Facts, NEW m \in Mapping, NEW p,
         NEW held, held.address \in Address, NEW only \in BOOLEAN, TrueOf(held, only),
         Collides(Seen, MappingClaim(m, p), held) = "yes"
  PROVE  /\ held.port = p /\ held.protocol = BaseProtocol(m.protocol)
         /\ \E a \in Takes(held, facts.on, only) :
              [protocol |-> BaseProtocol(m.protocol), port |-> p, address |-> a] \in Binding(m, p)
<1> DEFINE want == MappingClaim(m, p)
<1>1. /\ want.address \in Address /\ TrueOf(want, TRUE)
      /\ want.port = p /\ want.protocol = BaseProtocol(m.protocol)
      /\ Readable(want) => Real(m) = m
  BY ClaimIs
<1>2. Seen \in IPv6Seen /\ Truthful(Seen, facts.on) /\ facts.on \in BOOLEAN
  BY SeenIsTrue
<1>3. Real(m) = m
  BY <1>1 DEF Collides
<1> HIDE DEF want
<1>4. /\ want.port = held.port /\ want.protocol = held.protocol
      /\ Takes(want, facts.on, TRUE) \cap Takes(held, facts.on, only) # {}
  BY <1>1, <1>2, CollidesYes DEF want
<1>5. PICK a \in Takes(held, facts.on, only) : a \in Takes(want, facts.on, TRUE)
  BY <1>4
<1>6. [protocol |-> BaseProtocol(m.protocol), port |-> p, address |-> a] \in Binding(m, p)
  BY <1>3, <1>5, EndpointIn DEF Binding, want
<1>7. QED
  BY <1>1, <1>4, <1>5, <1>6

\* A listed container that certainly overlaps a wanted binding holds part of it.
LEMMA ListedYesHolds ==
  ASSUME facts \in Facts, NEW m \in Mapping, NEW p, NEW c, IsContainer(c),
         NEW in, in.ipv6 = Seen, ContainerOverlap(in, MappingClaim(m, p), Listing(c)) = "yes"
  PROVE  Binding(m, p) \cap ContainerTakes(c) # {}
<1>1. PICK n \in Listing(c).publishes :
        \E q \in HostPorts(n) : Collides(Seen, MappingClaim(m, p), MappingClaim(n, q)) = "yes"
  BY DEF ContainerOverlap, Worst
<1>2. PICK q \in HostPorts(n) : Collides(Seen, MappingClaim(m, p), MappingClaim(n, q)) = "yes"
  BY <1>1
<1>3. /\ c.state = "running" /\ c.network = "bridge"
      /\ \E o \in c.publishes : \E a \in EngineAddresses(o) : n = [o EXCEPT !.address = a]
  BY ListedPublish
<1>4. PICK o \in c.publishes : \E a \in EngineAddresses(o) : n = [o EXCEPT !.address = a]
  BY <1>3
<1>5. PICK a \in EngineAddresses(o) : n = [o EXCEPT !.address = a]
  BY <1>4
<1>6. o \in Mapping /\ o.address # Unreadable
  BY <1>3 DEF IsContainer, IsService
<1>7. /\ n.address = a /\ n.protocol = o.protocol
      /\ n.hostPort = o.hostPort /\ n.hostPortEnd = o.hostPortEnd
  BY <1>5, <1>6 DEF Mapping
<1>8. q \in HostPorts(o)
  BY <1>7 DEF HostPorts
<1> DEFINE held == MappingClaim(n, q)
<1>9. /\ held.address = a /\ a \in Address /\ TrueOf(held, TRUE)
      /\ held.port = q /\ held.protocol = BaseProtocol(o.protocol)
  BY <1>6, <1>7, EngineAddressTakes DEF MappingClaim, TrueOf
<1>10. Takes(held, facts.on, TRUE) \subseteq Takes(MappingClaim(o, q), facts.on, TRUE)
  <2>1. MappingClaim(o, q).address = o.address
    BY DEF MappingClaim
  <2>2. QED
    BY <1>6, <1>9, <2>1, EngineAddressTakes
<1> HIDE DEF held
<1>11. /\ held.port = p /\ held.protocol = BaseProtocol(m.protocol)
       /\ \E x \in Takes(held, facts.on, TRUE) :
             [protocol |-> BaseProtocol(m.protocol), port |-> p, address |-> x] \in Binding(m, p)
  BY <1>2, <1>9, YesBinds DEF held
<1>12. PICK x \in Takes(held, facts.on, TRUE) :
         [protocol |-> BaseProtocol(m.protocol), port |-> p, address |-> x] \in Binding(m, p)
  BY <1>11
<1>13. [protocol |-> BaseProtocol(o.protocol), port |-> q, address |-> x] \in ContainerTakes(c)
  BY <1>3, <1>8, <1>10, <1>12, PublishHolds
<1>14. QED
  BY <1>9, <1>11, <1>12, <1>13

\* A socket is read truly: with its claim, TRUE or FALSE for "IPv6-only".
LEMMA SocketIsTrue ==
  ASSUME facts \in Facts, NEW protocol, NEW port, NEW a \in Address \ {Unnamed}, NEW only \in BOOLEAN
  PROVE  /\ SocketClaim(SocketAt(protocol, port, a, only)).address = a
         /\ SocketClaim(SocketAt(protocol, port, a, only)).port = port
         /\ SocketClaim(SocketAt(protocol, port, a, only)).protocol = BaseProtocol(protocol)
         /\ TrueOf(SocketClaim(SocketAt(protocol, port, a, only)), only)
BY DEF SocketAt, SocketClaim, TrueOf, V6OnlyRead, Facts

\* What a socket that is a listener's holds, the listener holds.
LEMMA ListenerHolds ==
  ASSUME NEW l, NEW c, c.address = l.address, NEW a \in Takes(c, facts.on, l.only)
  PROVE  [protocol |-> BaseProtocol(l.protocol), port |-> l.port, address |-> a] \in ListenerTakes(l)
<1>1. Takes(c, facts.on, l.only) = Takes(l, facts.on, l.only)
  BY DEF Takes
<1>2. QED
  BY <1>1, EndpointIn DEF ListenerTakes

\* The sockets of a container: one for each address of each publish, or its own.
LEMMA SocketOfContainer ==
  ASSUME facts \in Facts, NEW c, IsContainer(c), NEW s \in ContainerSockets(c)
  PROVE  /\ c.state = "running"
         /\ \/ /\ c.network = "host"
               /\ \E d \in DeclaredPorts(c) : s = OwnSocket(d)
            \/ /\ c.network = "bridge"
               /\ \E n \in c.publishes : \E a \in EngineAddresses(n) : \E q \in HostPorts(n) :
                    s = ProxySocket(n, q, a)
<1>1. c.state = "running" /\ c.network \in {"bridge", "host"}
  BY DEF ContainerSockets, IsContainer, IsService
<1>2. CASE c.network = "host"
  BY <1>1, <1>2 DEF ContainerSockets
<1>3. CASE c.network = "bridge"
  <2>1. PICK n \in c.publishes : s \in ProxySockets(n)
    BY <1>1, <1>3 DEF ContainerSockets
  <2>2. PICK a \in EngineAddresses(n) : s \in {ProxySocket(n, p, a) : p \in HostPorts(n)}
    BY <2>1 DEF ProxySockets
  <2>3. \E q \in HostPorts(n) : s = ProxySocket(n, q, a)
    BY <2>2
  <2>4. QED
    BY <1>1, <1>3, <2>3
<1>4. QED
  BY <1>1, <1>2, <1>3

\* The ports a service declares for itself are ports of base protocols.
LEMMA DeclaredBase ==
  ASSUME NEW c, c.publishes \subseteq Mapping, c.expose \subseteq Nat, NEW d \in DeclaredPorts(c)
  PROVE  BaseProtocol(d.protocol) = d.protocol /\ d.port \in Nat
<1>1. CASE d \in {[port |-> p, protocol |-> "tcp"] : p \in c.expose}
  <2>1. d.protocol = "tcp" /\ d.port \in Nat
    BY <1>1
  <2>2. QED
    BY <2>1 DEF BaseProtocol
<1>2. CASE \E m \in c.publishes :
             d \in {[port |-> p, protocol |-> BaseProtocol(m.protocol)] :
                     p \in m.containerPort .. (IF m.containerPortEnd < m.containerPort
                                               THEN m.containerPort ELSE m.containerPortEnd)}
  <2>1. PICK m \in c.publishes :
             d \in {[port |-> p, protocol |-> BaseProtocol(m.protocol)] :
                     p \in m.containerPort .. (IF m.containerPortEnd < m.containerPort
                                               THEN m.containerPort ELSE m.containerPortEnd)}
    BY <1>2
  <2>2. m.containerPort \in Nat /\ m.containerPortEnd \in Nat /\ m.protocol \in Protocols
    BY DEF Mapping
  <2>3. d.protocol = BaseProtocol(m.protocol) /\ d.port \in Nat
    BY <2>1, <2>2
  <2>4. QED
    BY <2>2, <2>3 DEF BaseProtocol, Protocols
<1>3. QED
  BY <1>1, <1>2 DEF DeclaredPorts

\* An application on the host's network stack listens on every address.
LEMMA HostListens ==
  ASSUME facts \in Facts, NEW c, c.state = "running", c.network = "host", NEW d \in DeclaredPorts(c),
         NEW a \in IF facts.on THEN HostAddr ELSE Addr4
  PROVE  [protocol |-> BaseProtocol(d.protocol), port |-> d.port, address |-> a] \in ContainerTakes(c)
<1>1. a \in Takes([address |-> Unnamed], facts.on, FALSE)
  BY DEF Takes, Unnamed, AnyAddress, Wildcard6
<1>2. [protocol |-> BaseProtocol(d.protocol), port |-> d.port, address |-> a]
         \in Endpoints(d.protocol, d.port, Takes([address |-> Unnamed], facts.on, FALSE))
  BY <1>1, EndpointIn
<1>3. ContainerTakes(c) = Listens(c)
  BY DEF ContainerTakes
<1>4. QED
  BY <1>2, <1>3 DEF Listens

\* The claim of a docker-proxy's socket and that of the publish it serves.
LEMMA ProxyCollides ==
  ASSUME NEW b, NEW d, b.address = d.address, b.address # Unnamed, d.v6only = "", b.v6only # "no",
         b.port = d.port, b.protocol = d.protocol, NEW want, NEW seen, Collides(seen, want, b) = "yes"
  PROVE  Collides(seen, want, d) = "yes"
<1>1. PICK v4 \in BOOLEAN : FamilyOverlap(seen, want, b, v4) = "yes"
  BY DEF Collides, Worst
<1>2. Coverage(b, v4, seen) \in {"all", "specific"}
  <2>1. Coverage(b, v4, seen) \in {"all", "none", "maybe", "specific"}
    BY DEF Coverage
  <2>2. QED
    BY <1>1, <2>1 DEF FamilyOverlap
<1>3. Coverage(d, v4, seen) = Coverage(b, v4, seen)
  BY <1>2 DEF Coverage
<1>4. FamilyOverlap(seen, want, d, v4) = "yes"
  BY <1>1, <1>3 DEF FamilyOverlap
<1>5. Readable(want) /\ Readable(d) /\ want.port = d.port /\ want.protocol = d.protocol
  BY DEF Collides, Readable, Worst
<1>6. QED
  BY <1>4, <1>5 DEF Collides, Worst

\* A socket that certainly collides with a wanted binding: what it belongs to, a listener
\* or a container, holds part of the binding; the engine shows a container on a bridge to.
LEMMA SocketYesHolds ==
  ASSUME Situation, NEW m \in Mapping, NEW p, NEW s \in AllSockets,
         Collides(Seen, MappingClaim(m, p), SocketClaim(s)) = "yes"
  PROVE  \/ \E l \in listeners : Binding(m, p) \cap ListenerTakes(l) # {}
         \/ \E c \in containers : /\ Binding(m, p) \cap ContainerTakes(c) # {}
                                  /\ c.network = "host" \/ OverlapOf(MappingClaim(m, p), c) # "none"
<1>0. facts \in Facts /\ (\A c \in containers : IsContainer(c)) /\ listeners \subseteq Listening
  BY DEF Situation
<1>1. CASE \E l \in listeners : s = ListenerSocket(l)
  <2>1. PICK l \in listeners : s = ListenerSocket(l)
    BY <1>1
  <2>2. l.address \in Address \ {Unnamed} /\ l.only \in BOOLEAN
    BY <1>0 DEF Listening
  <2> DEFINE held == SocketClaim(s)
  <2>3. /\ held.address = l.address /\ held.port = l.port /\ held.protocol = BaseProtocol(l.protocol)
        /\ TrueOf(held, l.only)
    BY <1>0, <2>1, <2>2, SocketIsTrue DEF ListenerSocket
  <2> HIDE DEF held
  <2>4. /\ held.port = p /\ held.protocol = BaseProtocol(m.protocol)
        /\ \E a \in Takes(held, facts.on, l.only) :
             [protocol |-> BaseProtocol(m.protocol), port |-> p, address |-> a] \in Binding(m, p)
    BY <1>0, <2>2, <2>3, YesBinds DEF held
  <2>5. PICK a \in Takes(held, facts.on, l.only) :
             [protocol |-> BaseProtocol(m.protocol), port |-> p, address |-> a] \in Binding(m, p)
    BY <2>4
  <2>6. [protocol |-> BaseProtocol(l.protocol), port |-> l.port, address |-> a] \in ListenerTakes(l)
    BY <2>3, <2>5, ListenerHolds
  <2>7. QED
    BY <2>3, <2>4, <2>5, <2>6
<1>2. CASE \E c \in containers : s \in ContainerSockets(c)
  <2>1. PICK c \in containers : s \in ContainerSockets(c)
    BY <1>2
  <2>2. IsContainer(c)
    BY <1>0
  <2>3. c.state = "running"
    BY <1>0, <2>1, <2>2, SocketOfContainer
  <2>4. CASE \E d \in DeclaredPorts(c) :
               c.network = "host" /\ s = OwnSocket(d)
    <3>1. PICK d \in DeclaredPorts(c) :
               c.network = "host" /\ s = OwnSocket(d)
      BY <2>4
    <3> DEFINE at == IF facts.on THEN Wildcard6 ELSE Wildcard4
               held == SocketClaim(s)
    <3>2. at \in Address \ {Unnamed}
      BY DEF Address, Literals, Wildcard6, Wildcard4, Unnamed
    <3>3. /\ held.address = at /\ held.port = d.port /\ held.protocol = BaseProtocol(d.protocol)
          /\ TrueOf(held, FALSE)
      BY <3>1, <3>2 DEF OwnSocket, SocketAt, SocketClaim, TrueOf, V6OnlyRead
    <3> HIDE DEF held, at
    <3>4. /\ held.port = p /\ held.protocol = BaseProtocol(m.protocol)
          /\ \E a \in Takes(held, facts.on, FALSE) :
               [protocol |-> BaseProtocol(m.protocol), port |-> p, address |-> a] \in Binding(m, p)
      BY <1>0, <3>2, <3>3, YesBinds DEF held
    <3>5. PICK a \in Takes(held, facts.on, FALSE) :
               [protocol |-> BaseProtocol(m.protocol), port |-> p, address |-> a] \in Binding(m, p)
      BY <3>4
    <3>6. a \in IF facts.on THEN HostAddr ELSE Addr4
      BY <3>3, <3>5 DEF at, Takes, Wildcard4, Wildcard6, AnyAddress, Unnamed
    <3>7. [protocol |-> BaseProtocol(d.protocol), port |-> d.port, address |-> a] \in ContainerTakes(c)
      BY <1>0, <2>3, <3>1, <3>6, HostListens
    <3>8. QED
      BY <3>1, <3>3, <3>4, <3>5, <3>7
  <2>5. CASE \E n \in c.publishes : \E b \in EngineAddresses(n) : \E q \in HostPorts(n) :
               c.network = "bridge" /\ s = ProxySocket(n, q, b)
    <3>1. PICK n \in c.publishes : \E b \in EngineAddresses(n) : \E q \in HostPorts(n) :
               c.network = "bridge" /\ s = ProxySocket(n, q, b)
      BY <2>5
    <3>2. PICK b \in EngineAddresses(n) : \E q \in HostPorts(n) :
               c.network = "bridge" /\ s = ProxySocket(n, q, b)
      BY <3>1
    <3>3. PICK q \in HostPorts(n) : c.network = "bridge" /\ s = ProxySocket(n, q, b)
      BY <3>2
    <3>4. n \in Mapping /\ n.address # Unreadable
      BY <2>2, <2>3, <3>3 DEF IsContainer, IsService
    <3>5. b \in Address \ {Unnamed}
      BY <1>0, <3>4, EngineAddressTakes DEF EngineAddresses, Wildcard4, Wildcard6, Unnamed
    <3> DEFINE held == SocketClaim(s)
    <3>6. /\ held.address = b /\ held.port = q /\ held.protocol = BaseProtocol(n.protocol)
          /\ TrueOf(held, TRUE)
      BY <3>3, <3>5 DEF ProxySocket, SocketAt, SocketClaim, TrueOf, V6OnlyRead
    <3> HIDE DEF held
    <3>7. /\ held.port = p /\ held.protocol = BaseProtocol(m.protocol)
          /\ \E a \in Takes(held, facts.on, TRUE) :
               [protocol |-> BaseProtocol(m.protocol), port |-> p, address |-> a] \in Binding(m, p)
      BY <1>0, <3>5, <3>6, YesBinds DEF held
    <3>8. PICK a \in Takes(held, facts.on, TRUE) :
               [protocol |-> BaseProtocol(m.protocol), port |-> p, address |-> a] \in Binding(m, p)
      BY <3>7
    <3>9. a \in Takes(MappingClaim(n, q), facts.on, TRUE)
      <4>1. MappingClaim(n, q).address = n.address
        BY DEF MappingClaim
      <4>2. QED
        BY <1>0, <3>4, <3>6, <3>8, <4>1, EngineAddressTakes
    <3>10. [protocol |-> BaseProtocol(n.protocol), port |-> q, address |-> a] \in ContainerTakes(c)
      BY <2>3, <3>3, <3>9, PublishHolds
    <3>11. OverlapOf(MappingClaim(m, p), c) = "yes"
      <4> DEFINE k == [n EXCEPT !.address = b]
      <4>1. k \in Listing(c).publishes
        BY <2>2, <2>3, <3>3 DEF Listing, IsContainer
      <4>2. /\ k.address = b /\ k.protocol = n.protocol
            /\ k.hostPort = n.hostPort /\ k.hostPortEnd = n.hostPortEnd
        BY <3>4 DEF Mapping
      <4> HIDE DEF k
      <4>3. q \in HostPorts(k)
        BY <4>2 DEF HostPorts
      <4>4. /\ MappingClaim(k, q).address = b /\ MappingClaim(k, q).v6only = ""
            /\ MappingClaim(k, q).port = q /\ MappingClaim(k, q).protocol = BaseProtocol(n.protocol)
        BY <4>2 DEF MappingClaim
      <4>5. held.v6only # "no"
        BY <3>6 DEF TrueOf
      <4>6. Collides(Seen, MappingClaim(m, p), MappingClaim(k, q)) = "yes"
        BY <3>5, <3>6, <4>4, <4>5, ProxyCollides DEF held
      <4>7. RuleInput({}, {}).ipv6 = Seen
        BY <1>0, SeenIsTrue
      <4>8. QED
        BY <4>1, <4>3, <4>6, <4>7 DEF OverlapOf, ContainerOverlap, Worst
    <3>12. QED
      BY <3>6, <3>7, <3>8, <3>10, <3>11
  <2>6. \/ /\ c.network = "host"
           /\ \E d \in DeclaredPorts(c) :
                s = OwnSocket(d)
        \/ /\ c.network = "bridge"
           /\ \E n \in c.publishes : \E a \in EngineAddresses(n) : \E q \in HostPorts(n) :
                s = ProxySocket(n, q, a)
    BY <1>0, <2>1, <2>2, SocketOfContainer
  <2>7. QED
    BY <2>4, <2>5, <2>6
<1>3. \/ \E c \in containers : s \in ContainerSockets(c)
      \/ \E l \in listeners : s = ListenerSocket(l)
  <2>1. s \in (UNION {ContainerSockets(c) : c \in containers}) \cup {ListenerSocket(l) : l \in listeners}
    BY DEF AllSockets
  <2>2. QED
    BY <2>1
<1>4. QED
  BY <1>1, <1>2, <1>3

-----------------------------------------------------------------------------

\* The holders of a wanted binding are containers and sockets that may overlap it.
LEMMA HoldersAre ==
  ASSUME NEW in, NEW want, NEW h \in PortHolders(in, want)
  PROVE  /\ h.overlap # "none"
         /\ \/ /\ h.isSocket = FALSE /\ h.by \in in.containers
               /\ h.overlap = ContainerOverlap(in, want, h.by)
            \/ /\ h.isSocket = TRUE /\ h.by \in in.sockets
               /\ h.overlap = Collides(in.ipv6, want, SocketClaim(h.by))
<1>1. CASE h \in ContainerHolders(in, want)
  BY <1>1 DEF ContainerHolders
<1>2. CASE h \in SocketHolders(in, want)
  BY <1>2 DEF SocketHolders
<1>3. QED
  BY <1>1, <1>2 DEF PortHolders

\* A listed container, or a socket read, that may overlap is one of the holders.
LEMMA HolderContainer ==
  ASSUME NEW in, NEW want, NEW c \in in.containers, ContainerOverlap(in, want, c) # "none"
  PROVE  [isSocket |-> FALSE, by |-> c, overlap |-> ContainerOverlap(in, want, c)] \in PortHolders(in, want)
BY DEF PortHolders, ContainerHolders

LEMMA HolderSocket ==
  ASSUME NEW in, NEW want, NEW s \in in.sockets, Collides(in.ipv6, want, SocketClaim(s)) # "none"
  PROVE  [isSocket |-> TRUE, by |-> s, overlap |-> Collides(in.ipv6, want, SocketClaim(s))] \in PortHolders(in, want)
BY DEF PortHolders, SocketHolders

\* Of a container that the plan releases only the owner decides.
LEMMA InputIs ==
  ASSUME facts \in Facts, NEW S, NEW C
  PROVE  /\ RuleInput(S, C).plan = plan /\ RuleInput(S, C).sockets = S
         /\ RuleInput(S, C).containers = {Listing(c) : c \in C}
         /\ RuleInput(S, C).listed = facts.engine /\ RuleInput(S, C).ipv6 = Seen
         /\ RuleInput(S, C).portsUnchecked = facts.portsUnchecked
         /\ RuleInput(S, C).socketsRead = facts.socketsRead
         /\ \A want, c : ContainerOverlap(RuleInput(S, C), want, Listing(c)) = OverlapOf(want, c)
<1>1. /\ RuleInput(S, C).plan = plan /\ RuleInput(S, C).sockets = S
      /\ RuleInput(S, C).containers = {Listing(c) : c \in C}
      /\ RuleInput(S, C).listed = facts.engine /\ RuleInput(S, C).ipv6 = Seen
      /\ RuleInput(S, C).portsUnchecked = facts.portsUnchecked
      /\ RuleInput(S, C).socketsRead = facts.socketsRead
  BY DEF RuleInput, Seen
<1>2. RuleInput({}, {}).ipv6 = Seen
  BY SeenIsTrue
<1>3. ASSUME NEW want, NEW c
      PROVE  ContainerOverlap(RuleInput(S, C), want, Listing(c)) = OverlapOf(want, c)
  <2> DEFINE O(seen) == Worst(UNION {{Collides(seen, want, MappingClaim(m, p)) : p \in HostPorts(m)} : m \in Listing(c).publishes})
  <2>1. /\ ContainerOverlap(RuleInput(S, C), want, Listing(c)) = O(RuleInput(S, C).ipv6)
        /\ OverlapOf(want, c) = O(RuleInput({}, {}).ipv6)
    BY DEF ContainerOverlap, OverlapOf
  <2> HIDE DEF O
  <2>2. QED
    BY <1>1, <1>2, <2>1
<1>4. QED
  BY <1>1, <1>3

\* A planned publish's binding is wanted.
LEMMA BindingWanted ==
  ASSUME Situation, NEW s \in plan.services, plan.svc[s].network = "bridge",
         NEW m \in plan.svc[s].publishes, NEW p \in HostPorts(m)
  PROVE  m \in Mapping /\ Binding(m, p) \subseteq Wants(s)
<1>1. m \in Mapping
  BY DEF Situation, IsPlan, IsService
<1>2. Real(m).protocol = m.protocol /\ Real(m).hostPort = m.hostPort /\ Real(m).hostPortEnd = m.hostPortEnd
  BY <1>1 DEF Real, Mapping
<1>3. p \in HostPorts(Real(m))
  BY <1>2 DEF HostPorts
<1>4. Binding(m, p) \subseteq PublishTakes(Real(m))
  BY <1>2, <1>3 DEF Binding, PublishTakes
<1>5. Wants(s) = UNION {PublishTakes(n) : n \in {Real(k) : k \in plan.svc[s].publishes}}
  BY DEF Wants, ContainerTakes
<1>6. QED
  BY <1>1, <1>4, <1>5

\* Held by what `up` does not release: a process, or a container of somebody else.
StaysHeld(e) == \/ \E l \in listeners : e \in ListenerTakes(l)
                \/ \E c \in containers : ~Released(plan, c) /\ e \in ContainerTakes(c)

\* A blocked port whose holders' owners are known is held by what stays: the sockets and
\* containers compared are there, and all containers are if the list can prove absence.
LEMMA BlockedStaysHeld ==
  ASSUME Situation, ~SocketUnattributed,
         NEW S \in SUBSET AllSockets, NEW C \in SUBSET containers,
         facts.engine \in {"complete", "absent"} => C = containers,
         NEW s \in plan.services, plan.svc[s].network = "bridge",
         NEW m \in plan.svc[s].publishes, NEW p \in HostPorts(m),
         NEW H, H = PortHolders(RuleInput(S, C), MappingClaim(m, p)),
         Blocked(RuleInput(S, C), H), OwnershipKnown(RuleInput(S, C), CertainHolders(H))
  PROVE  \E e \in Binding(m, p) : StaysHeld(e)
<1> DEFINE in == RuleInput(S, C)
           want == MappingClaim(m, p)
<1>1. facts \in Facts /\ (\A c \in containers : IsContainer(c)) /\ m \in Mapping
  BY BindingWanted DEF Situation
<1>2. /\ in.plan = plan /\ in.sockets = S /\ in.containers = {Listing(c) : c \in C}
      /\ in.listed = facts.engine /\ in.ipv6 = Seen
  BY <1>1, InputIs
<1>3. \A c \in C : IsContainer(c) /\ Released(plan, Listing(c)) = Released(plan, c)
  BY <1>1, ListingLabels
<1>4. CASE ForeignContainer(in, CertainHolders(H))
  <2>1. PICK h \in H : h.overlap = "yes" /\ ~h.isSocket /\ ~Released(plan, h.by)
    BY <1>2, <1>4 DEF ForeignContainer, CertainHolders
  <2>2. h.by \in in.containers /\ ContainerOverlap(in, want, h.by) = "yes"
    BY <2>1, HoldersAre
  <2>3. PICK c \in C : h.by = Listing(c)
    BY <1>2, <2>2
  <2>4. Binding(m, p) \cap ContainerTakes(c) # {}
    BY <1>1, <1>2, <2>2, <2>3, ListedYesHolds
  <2>5. QED
    BY <1>3, <2>1, <2>3, <2>4 DEF StaysHeld
<1>5. CASE ~ForeignContainer(in, CertainHolders(H))
  <2>1. ~OwnHolder(in, H)
    BY <1>5 DEF Blocked
  <2>2. \A h \in H : h.overlap = "yes" => h.isSocket
    BY <1>2, <1>5, <2>1, HoldersAre DEF ForeignContainer, CertainHolders, OwnHolder
  <2>3. facts.engine \in {"complete", "absent"}
    BY <1>2, <2>2 DEF OwnershipKnown, EngineListed, CertainHolders
  <2>4. PICK h \in H : h.overlap = "yes"
    BY DEF Blocked, CertainHolders
  <2>5. h.by \in AllSockets /\ Collides(Seen, want, SocketClaim(h.by)) = "yes"
    BY <1>2, <2>2, <2>4, HoldersAre
  <2>6. \/ \E l \in listeners : Binding(m, p) \cap ListenerTakes(l) # {}
        \/ \E c \in containers : /\ Binding(m, p) \cap ContainerTakes(c) # {}
                                 /\ c.network = "host" \/ OverlapOf(MappingClaim(m, p), c) # "none"
    BY <1>1, <2>5, SocketYesHolds
  <2>7. CASE \E l \in listeners : Binding(m, p) \cap ListenerTakes(l) # {}
    BY <2>7 DEF StaysHeld
  <2>8. ASSUME NEW c \in containers, Binding(m, p) \cap ContainerTakes(c) # {},
               c.network = "host" \/ OverlapOf(MappingClaim(m, p), c) # "none"
        PROVE  ~Released(plan, c)
    <3>1. SUFFICES ASSUME Released(plan, c)  PROVE FALSE
      OBVIOUS
    <3>2. ContainerTakes(c) \cap Wants(s) # {}
      BY <2>8, BindingWanted
    <3>3. CASE c.network = "host"
      BY <3>1, <3>2, <3>3 DEF SocketUnattributed
    <3>4. CASE OverlapOf(MappingClaim(m, p), c) # "none"
      <4>1. Listing(c) \in in.containers /\ Released(plan, Listing(c))
        BY <1>2, <1>3, <2>3, <3>1
      <4>2. ContainerOverlap(in, want, Listing(c)) # "none"
        BY <1>1, <3>4, InputIs
      <4>3. [isSocket |-> FALSE, by |-> Listing(c), overlap |-> ContainerOverlap(in, want, Listing(c))] \in H
        BY <4>1, <4>2, HolderContainer
      <4>4. QED
        BY <1>2, <2>1, <4>1, <4>3 DEF OwnHolder
    <3>5. QED
      BY <2>8, <3>3, <3>4
  <2>9. CASE \E c \in containers : /\ Binding(m, p) \cap ContainerTakes(c) # {}
                                   /\ c.network = "host" \/ OverlapOf(MappingClaim(m, p), c) # "none"
    <3>1. PICK c \in containers : /\ Binding(m, p) \cap ContainerTakes(c) # {}
                                  /\ c.network = "host" \/ OverlapOf(MappingClaim(m, p), c) # "none"
      BY <2>9
    <3>2. ~Released(plan, c)
      BY <2>8, <3>1
    <3>3. QED
      BY <3>1, <3>2 DEF StaysHeld
  <2>10. QED
    BY <2>6, <2>7, <2>9
<1>6. QED
  BY <1>4, <1>5

\* A planned service on the host's network stack binds what it declares.
LEMMA HostWants ==
  ASSUME Situation, NEW s \in plan.services, plan.svc[s].network = "host"
  PROVE  Wants(s) = Listens(plan.svc[s])
<1> DEFINE svc == plan.svc[s]
           bound == [state |-> "running", network |-> svc.network, expose |-> svc.expose,
                     publishes |-> {Real(m) : m \in svc.publishes}]
           Ports(m) == {[port |-> p, protocol |-> BaseProtocol(m.protocol)] :
                          p \in m.containerPort .. (IF m.containerPortEnd < m.containerPort
                                                    THEN m.containerPort ELSE m.containerPortEnd)}
           exposed == {[port |-> p, protocol |-> "tcp"] : p \in svc.expose}
<1>1. svc.publishes \subseteq Mapping
  BY DEF Situation, IsPlan, IsService
<1>2. ASSUME NEW m \in svc.publishes  PROVE Ports(Real(m)) = Ports(m)
  <2>1. /\ Real(m).containerPort = m.containerPort /\ Real(m).containerPortEnd = m.containerPortEnd
        /\ Real(m).protocol = m.protocol
    BY <1>1 DEF Real, Mapping
  <2>2. QED
    BY <2>1
<1>3. DeclaredPorts(svc) = exposed \cup UNION {Ports(m) : m \in svc.publishes}
  BY DEF DeclaredPorts
<1>4. DeclaredPorts(bound) = exposed \cup UNION {Ports(n) : n \in {Real(m) : m \in svc.publishes}}
  BY DEF DeclaredPorts
<1> HIDE DEF Ports, exposed, svc
<1>5. UNION {Ports(n) : n \in {Real(m) : m \in svc.publishes}} = UNION {Ports(m) : m \in svc.publishes}
  BY <1>2
<1>6. DeclaredPorts(bound) = DeclaredPorts(svc)
  BY <1>3, <1>4, <1>5
<1>7. Wants(s) = Listens(bound)
  BY DEF Wants, ContainerTakes, svc
<1> HIDE DEF bound
<1>8. QED
  BY <1>6, <1>7 DEF Listens, svc

\* An application's binding, on any address of the host.
LEMMA DeclaredBound ==
  ASSUME NEW c, NEW d \in DeclaredPorts(c), NEW a \in IF facts.on THEN HostAddr ELSE Addr4
  PROVE  [protocol |-> BaseProtocol(d.protocol), port |-> d.port, address |-> a] \in Listens(c)
<1>1. a \in Takes([address |-> Unnamed], facts.on, FALSE)
  BY DEF Takes, Unnamed, AnyAddress, Wildcard6
<1>2. [protocol |-> BaseProtocol(d.protocol), port |-> d.port, address |-> a]
         \in Endpoints(d.protocol, d.port, Takes([address |-> Unnamed], facts.on, FALSE))
  BY <1>1, EndpointIn
<1>3. QED
  BY <1>2 DEF Listens

\* A wildcard takes some address of any host that it is bound on.
LEMMA WildcardTakes ==
  ASSUME facts \in Facts, NEW b, b.address \in {AnyAddress, Wildcard4, Wildcard6}, NEW only \in BOOLEAN,
         ~facts.on => Takes(b, facts.on, only) \subseteq Addr4
  PROVE  \E a \in Takes(b, facts.on, only) : a \in IF facts.on THEN HostAddr ELSE Addr4
<1>1. \E a \in HostAddr : a \in Takes(b, facts.on, only)
  BY AddrAssumption DEF Takes, HostAddr, AnyAddress, Unnamed, Wildcard4, Wildcard6
<1>2. QED
  BY <1>1

\* Where there is no IPv6, what is held is IPv4.
LEMMA HeldIsIPv4 ==
  ASSUME HostIsPossible, ~facts.on, NEW e \in Held
  PROVE  e.address \in Addr4
BY DEF HostIsPossible

\* A socket on a wildcard address and a port that a service on the host's network stack
\* declares: the listener or container that it is of takes a binding of the service.
LEMMA WildcardSocketHolds ==
  ASSUME Situation, HostIsPossible, NEW svc, NEW d \in DeclaredPorts(svc),
         BaseProtocol(d.protocol) = d.protocol, NEW k \in AllSockets,
         SocketClaim(k).address \in {AnyAddress, Wildcard4, Wildcard6},
         SocketClaim(k).port = d.port, SocketClaim(k).protocol = d.protocol
  PROVE  \/ \E l \in listeners : Listens(svc) \cap ListenerTakes(l) # {}
         \/ \E c \in containers : c.state = "running" /\ Listens(svc) \cap ContainerTakes(c) # {}
<1>1. facts \in Facts /\ (\A c \in containers : IsContainer(c)) /\ listeners \subseteq Listening
  BY DEF Situation
<1>2. CASE \E l \in listeners : k = ListenerSocket(l)
  <2>1. PICK l \in listeners : k = ListenerSocket(l)
    BY <1>2
  <2>2. l.address \in Address \ {Unnamed} /\ l.only \in BOOLEAN
    BY <1>1 DEF Listening
  <2>3. /\ l.address \in {AnyAddress, Wildcard4, Wildcard6}
        /\ l.port = d.port /\ BaseProtocol(l.protocol) = d.protocol
    BY <1>1, <2>1, <2>2, SocketIsTrue DEF ListenerSocket
  <2>4. \A a \in Takes(l, facts.on, l.only) :
          [protocol |-> d.protocol, port |-> d.port, address |-> a] \in ListenerTakes(l)
    BY <2>3, ListenerHolds
  <2>5. ListenerTakes(l) \subseteq Held
    BY DEF Held
  <2>6. PICK a \in Takes(l, facts.on, l.only) : a \in IF facts.on THEN HostAddr ELSE Addr4
    <3>1. \A a \in Takes(l, facts.on, l.only) : [protocol |-> d.protocol, port |-> d.port, address |-> a] \in Held
      BY <2>4, <2>5
    <3>2. ~facts.on => Takes(l, facts.on, l.only) \subseteq Addr4
      BY <3>1, HeldIsIPv4
    <3>3. QED
      BY <1>1, <2>2, <2>3, <3>2, WildcardTakes
  <2>7. [protocol |-> d.protocol, port |-> d.port, address |-> a] \in Listens(svc)
    BY <2>6, DeclaredBound
  <2>8. QED
    BY <2>4, <2>6, <2>7
<1>3. CASE \E c \in containers : k \in ContainerSockets(c)
  <2>1. PICK c \in containers : k \in ContainerSockets(c)
    BY <1>3
  <2>2. IsContainer(c) /\ c.state = "running"
    BY <1>1, <2>1, SocketOfContainer
  <2>3. ContainerTakes(c) \subseteq Held
    BY DEF Held
  <2>4. CASE \E n \in DeclaredPorts(c) : c.network = "host" /\ k = OwnSocket(n)
    <3>1. PICK n \in DeclaredPorts(c) : c.network = "host" /\ k = OwnSocket(n)
      BY <2>4
    <3>2. n.port = d.port /\ BaseProtocol(n.protocol) = d.protocol
      BY <3>1 DEF OwnSocket, SocketAt, SocketClaim
    <3>3. PICK a : a \in IF facts.on THEN HostAddr ELSE Addr4
      BY AddrAssumption DEF HostAddr
    <3>4. [protocol |-> d.protocol, port |-> d.port, address |-> a] \in ContainerTakes(c)
      BY <1>1, <2>2, <3>1, <3>2, <3>3, HostListens
    <3>5. [protocol |-> d.protocol, port |-> d.port, address |-> a] \in Listens(svc)
      BY <3>3, DeclaredBound
    <3>6. QED
      BY <2>2, <3>4, <3>5
  <2>5. CASE \E n \in c.publishes : \E b \in EngineAddresses(n) : \E q \in HostPorts(n) :
               c.network = "bridge" /\ k = ProxySocket(n, q, b)
    <3>1. PICK n \in c.publishes : \E b \in EngineAddresses(n) : \E q \in HostPorts(n) :
               c.network = "bridge" /\ k = ProxySocket(n, q, b)
      BY <2>5
    <3>2. PICK b \in EngineAddresses(n) : \E q \in HostPorts(n) :
               c.network = "bridge" /\ k = ProxySocket(n, q, b)
      BY <3>1
    <3>3. PICK q \in HostPorts(n) : c.network = "bridge" /\ k = ProxySocket(n, q, b)
      BY <3>2
    <3>4. n \in Mapping /\ n.address # Unreadable
      BY <2>2, <3>3 DEF IsContainer, IsService
    <3>5. b # Unnamed
      BY <1>1, <3>4, EngineAddressTakes DEF EngineAddresses, Wildcard4, Wildcard6, Unnamed
    <3>6. /\ b \in {AnyAddress, Wildcard4, Wildcard6}
          /\ q = d.port /\ BaseProtocol(n.protocol) = d.protocol
      BY <3>3, <3>5 DEF ProxySocket, SocketAt, SocketClaim
    <3>a. PICK at : at.address = b
      <4>1. [address |-> b].address = b
        OBVIOUS
      <4>2. QED
        BY <4>1
    <3>7. Takes(at, facts.on, TRUE) \subseteq Takes(MappingClaim(n, q), facts.on, TRUE)
      <4>1. MappingClaim(n, q).address = n.address
        BY DEF MappingClaim
      <4>2. QED
        BY <1>1, <3>4, <3>a, <4>1, EngineAddressTakes
    <3>8. \A a \in Takes(at, facts.on, TRUE) :
            [protocol |-> d.protocol, port |-> d.port, address |-> a] \in ContainerTakes(c)
      BY <2>2, <3>3, <3>6, <3>7, PublishHolds
    <3>9. at.address \in {AnyAddress, Wildcard4, Wildcard6}
      BY <3>6, <3>a
    <3>10. PICK a \in Takes(at, facts.on, TRUE) : a \in IF facts.on THEN HostAddr ELSE Addr4
      <4>1. \A a \in Takes(at, facts.on, TRUE) : [protocol |-> d.protocol, port |-> d.port, address |-> a] \in Held
        BY <2>3, <3>8
      <4>2. ~facts.on => Takes(at, facts.on, TRUE) \subseteq Addr4
        BY <4>1, HeldIsIPv4
      <4>3. \E a \in HostAddr : a \in Takes(at, facts.on, TRUE)
        BY <3>9, AddrAssumption DEF Takes, HostAddr, AnyAddress, Unnamed, Wildcard4, Wildcard6
      <4>4. QED
        BY <4>2, <4>3
    <3>11. [protocol |-> d.protocol, port |-> d.port, address |-> a] \in Listens(svc)
      BY <3>10, DeclaredBound
    <3>12. QED
      BY <2>2, <3>8, <3>10, <3>11
  <2>6. \/ /\ c.network = "host"
           /\ \E n \in DeclaredPorts(c) : k = OwnSocket(n)
        \/ /\ c.network = "bridge"
           /\ \E n \in c.publishes : \E a \in EngineAddresses(n) : \E q \in HostPorts(n) :
                k = ProxySocket(n, q, a)
    BY <1>1, <2>1, <2>2, SocketOfContainer
  <2>7. QED
    BY <2>4, <2>5, <2>6
<1>4. \/ \E c \in containers : k \in ContainerSockets(c)
      \/ \E l \in listeners : k = ListenerSocket(l)
  <2>1. k \in (UNION {ContainerSockets(c) : c \in containers}) \cup {ListenerSocket(l) : l \in listeners}
    BY DEF AllSockets
  <2>2. QED
    BY <2>1
<1>5. QED
  BY <1>2, <1>3, <1>4

\* What a service needs of the host is held by what stays: a binding it makes on the
\* host's network stack, a port that it publishes, every port of a range to choose from.
Obstructed(s) ==
  IF plan.svc[s].network = "host" THEN \E e \in Listens(plan.svc[s]) : StaysHeld(e)
  ELSE \E m \in plan.svc[s].publishes :
         IF Dynamic(m) THEN \A p \in HostPorts(m) : \E e \in Binding(m, p) : StaysHeld(e)
         ELSE \E p \in HostPorts(m) : \E e \in Binding(m, p) : StaysHeld(e)

\* The sockets and containers compared are those of the host, as far as they were read.
Read(S, C) ==
  /\ S \subseteq AllSockets /\ C \subseteq containers
  /\ facts.engine \in {"complete", "absent"} => C = containers

\* The port rule's answer for a service on the host's network stack.
LEMMA HostProblemHeld ==
  ASSUME Situation, HostIsPossible, ~SocketUnattributed, NEW S, NEW C, Read(S, C),
         NEW s \in plan.services, plan.svc[s].network = "host",
         NEW f \in HostNetworkPorts(RuleInput(S, C), s), f.outcome = "problem"
  PROVE  f.service = s /\ \E e \in Listens(plan.svc[s]) : StaysHeld(e)
<1> DEFINE in == RuleInput(S, C)
           svc == plan.svc[s]
           Want(d) == [protocol |-> d.protocol, port |-> d.port, address |-> Unnamed, v6only |-> ""]
           Wild(d) == \E h \in SocketHolders(in, Want(d)) :
                        SocketClaim(h.by).address \in {AnyAddress, Wildcard4, Wildcard6}
<1>1. facts \in Facts /\ (\A c \in containers : IsContainer(c))
      /\ svc.publishes \subseteq Mapping /\ svc.expose \subseteq Nat
  BY DEF Situation, IsPlan, IsService
<1>2. in.plan = plan /\ in.sockets = S /\ in.containers = {Listing(c) : c \in C} /\ in.ipv6 = Seen
  BY <1>1, InputIs
<1>3. PICK d \in DeclaredPorts(svc) : Wild(d) /\ ~RunningOwnContainer(in, s) /\ f.service = s
  <2>1. DeclaredPorts(svc) # {}
    <3>1. CASE DeclaredPorts(svc) = {}
      <4>1. f = Finding(s, 0, "manual-check", "info")
        BY <1>2, <3>1 DEF HostNetworkPorts
      <4>2. QED
        BY <4>1 DEF Finding
    <3>2. QED
      BY <3>1
  <2>2. f \in {IF Wild(d) /\ ~RunningOwnContainer(in, s)
               THEN Finding(s, d.port, "problem", "blocker")
               ELSE Finding(s, d.port, "unknown", "warning") :
                 d \in {e \in DeclaredPorts(svc) : ObservableProtocol(e.protocol) /\ SocketHolders(in, Want(e)) # {}}}
    BY <1>2, <2>1 DEF HostNetworkPorts
  <2> HIDE DEF Wild, Want, in, svc
  <2>3. PICK d \in DeclaredPorts(svc) :
          f = IF Wild(d) /\ ~RunningOwnContainer(in, s)
              THEN Finding(s, d.port, "problem", "blocker") ELSE Finding(s, d.port, "unknown", "warning")
    BY <2>2
  <2>4. QED
    BY <2>3 DEF Finding
<1>4. PICK h \in SocketHolders(in, Want(d)) : SocketClaim(h.by).address \in {AnyAddress, Wildcard4, Wildcard6}
  BY <1>3
<1>5. h.by \in S /\ Collides(Seen, Want(d), SocketClaim(h.by)) # "none"
  <2> HIDE DEF in, Want
  <2>1. PICK k \in in.sockets : h = [isSocket |-> TRUE, by |-> k, overlap |-> Collides(in.ipv6, Want(d), SocketClaim(k))]
    BY <1>4 DEF SocketHolders
  <2>2. h.overlap # "none"
    BY <1>4 DEF SocketHolders
  <2>3. QED
    BY <1>2, <2>1, <2>2
<1>6. SocketClaim(h.by).port = d.port /\ SocketClaim(h.by).protocol = d.protocol
  BY <1>5 DEF Collides
<1>7. BaseProtocol(d.protocol) = d.protocol /\ h.by \in AllSockets
  BY <1>1, <1>5, DeclaredBase DEF Read
<1> HIDE DEF Want, Wild, in
<1>8. \/ \E l \in listeners : Listens(svc) \cap ListenerTakes(l) # {}
      \/ \E c \in containers : c.state = "running" /\ Listens(svc) \cap ContainerTakes(c) # {}
  BY <1>4, <1>6, <1>7, WildcardSocketHolds
<1>9. CASE \E l \in listeners : Listens(svc) \cap ListenerTakes(l) # {}
  BY <1>3, <1>9 DEF StaysHeld
<1>10. CASE \E c \in containers : c.state = "running" /\ Listens(svc) \cap ContainerTakes(c) # {}
  <2>1. PICK c \in containers : c.state = "running" /\ Listens(svc) \cap ContainerTakes(c) # {}
    BY <1>10
  <2>2. ~Released(plan, c)
    <3>1. SUFFICES ASSUME Released(plan, c)  PROVE FALSE
      OBVIOUS
    <3>2. ContainerTakes(c) \cap Wants(s) # {}
      BY <2>1, HostWants
    <3>3. facts.engine = "complete" /\ OwnerOf(plan, c) = "service" /\ c.service = s
      BY <3>1, <3>2 DEF SocketUnattributed
    <3>4. Listing(c) \in in.containers
      BY <1>2, <3>3 DEF Read
    <3>5. /\ Listing(c).service = s /\ Listing(c).state = "running"
          /\ OwnerOf(plan, Listing(c)) = "service" /\ Released(plan, Listing(c))
      BY <1>1, <2>1, <3>1, <3>3, ListingLabels
    <3>6. RunningOwnContainer(in, s)
      BY <1>2, <3>4, <3>5 DEF RunningOwnContainer
    <3>7. QED
      BY <1>3, <3>6
  <2>3. QED
    BY <1>3, <2>1, <2>2 DEF StaysHeld
<1>11. QED
  BY <1>8, <1>9, <1>10

\* What the rule calls a problem is held by what stays.
LEMMA ProblemIsHeld ==
  ASSUME Situation, HostIsPossible, ~SocketUnattributed, NEW S, NEW C, Read(S, C),
         NEW f \in PortConflicts(RuleInput(S, C)), f.outcome = "problem"
  PROVE  f.service \in plan.services /\ Obstructed(f.service)
<1> DEFINE in == RuleInput(S, C)
<1>1. facts \in Facts
  BY DEF Situation
<1>2. in.plan = plan
  BY <1>1, InputIs
<1>3. PICK s \in plan.services :
        f \in IF plan.svc[s].network = "host" THEN HostNetworkPorts(in, s)
              ELSE UNION {IF Dynamic(m) THEN DynamicRange(in, s, m) ELSE StaticPorts(in, s, m) :
                            m \in plan.svc[s].publishes}
  BY <1>2 DEF PortConflicts
<1>4. plan.svc[s].network \in {"bridge", "host"}
  BY DEF Situation, IsPlan, IsService
<1>5. CASE plan.svc[s].network = "host"
  <2>1. f \in HostNetworkPorts(in, s)
    BY <1>3, <1>5
  <2>2. QED
    BY <1>5, <2>1, HostProblemHeld DEF Obstructed
<1>6. CASE plan.svc[s].network = "bridge"
  <2>1. PICK m \in plan.svc[s].publishes : f \in IF Dynamic(m) THEN DynamicRange(in, s, m) ELSE StaticPorts(in, s, m)
    BY <1>3, <1>6
  <2> DEFINE H(p) == PortHolders(in, MappingClaim(m, p))
  <2>2. ASSUME NEW p \in HostPorts(m), Blocked(in, H(p)), OwnershipKnown(in, CertainHolders(H(p)))
        PROVE  \E e \in Binding(m, p) : StaysHeld(e)
    BY <1>6, <2>2, BlockedStaysHeld DEF Read
  <2>3. CASE Dynamic(m)
    <3>1. f \in DynamicRange(in, s, m)
      BY <2>1, <2>3
    <3>2. f.service = s /\ \A p \in HostPorts(m) : PortState(in, m, p) = "taken"
      BY <3>1 DEF DynamicRange, UnobservableProtocol, Finding
    <3>3. \A p \in HostPorts(m) : Blocked(in, H(p)) /\ OwnershipKnown(in, CertainHolders(H(p)))
      BY <3>2 DEF PortState
    <3>4. QED
      BY <1>6, <2>2, <2>3, <3>2, <3>3 DEF Obstructed
  <2>4. CASE ~Dynamic(m)
    <3>1. f \in StaticPorts(in, s, m)
      BY <2>1, <2>4
    <3>2. PICK p \in HostPorts(m) : f = PortConflictFinding(in, s, p, H(p))
      BY <3>1 DEF StaticPorts, UnobservableProtocol, Finding
    <3>3. f.service = s /\ Blocked(in, H(p)) /\ OwnershipKnown(in, CertainHolders(H(p)))
      BY <3>2 DEF PortConflictFinding, Finding
    <3>4. QED
      BY <1>6, <2>2, <2>4, <3>3 DEF Obstructed
  <2>5. QED
    BY <2>3, <2>4
<1>7. QED
  BY <1>4, <1>5, <1>6

-----------------------------------------------------------------------------
(***************************************************************************)
(* The host stays possible.                                                *)
(***************************************************************************)

\* What is held depends on the host's IPv6 alone, and that does not change.
LEMMA TakesStay ==
  ASSUME facts' = facts
  PROVE  /\ \A c : ContainerTakes(c)' = ContainerTakes(c)
         /\ \A l : ListenerTakes(l)' = ListenerTakes(l)
<1>1. ASSUME NEW c PROVE Listens(c)' = Listens(c)
  BY DEF Listens
<1>2. ASSUME NEW m PROVE PublishTakes(m)' = PublishTakes(m)
  BY DEF PublishTakes
<1>3. ASSUME NEW c PROVE ContainerTakes(c)' = ContainerTakes(c)
  BY <1>1, <1>2 DEF ContainerTakes
<1>4. ASSUME NEW l PROVE ListenerTakes(l)' = ListenerTakes(l)
  BY DEF ListenerTakes
<1>5. QED
  BY <1>3, <1>4

\* A binding that can be made is of nobody else.
LEMMA BindableIs ==
  ASSUME NEW T, Bindable(T)
  PROVE  /\ \A c \in containers : T \cap ContainerTakes(c) = {}
         /\ \A l \in listeners : T \cap ListenerTakes(l) = {}
         /\ ~facts.on => \A e \in T : e.address \in Addr4
<1>1. \A c \in containers : ContainerTakes(c) \subseteq Held
  BY DEF Held
<1>2. \A l \in listeners : ListenerTakes(l) \subseteq Held
  BY DEF Held
<1>3. QED
  BY <1>1, <1>2 DEF Bindable

\* On a host without IPv6 what anyone holds is IPv4.
LEMMA PossibleIs ==
  ASSUME HostIsPossible, ~facts.on
  PROVE  /\ \A c \in containers : \A e \in ContainerTakes(c) : e.address \in Addr4
         /\ \A l \in listeners : \A e \in ListenerTakes(l) : e.address \in Addr4
<1>1. \A c \in containers : ContainerTakes(c) \subseteq Held
  BY DEF Held
<1>2. \A l \in listeners : ListenerTakes(l) \subseteq Held
  BY DEF Held
<1>3. QED
  BY <1>1, <1>2 DEF HostIsPossible

\* A container goes, or another comes that binds what can be bound.
LEMMA ContainerStep ==
  ASSUME HostIsPossible, facts' = facts, listeners' = listeners,
         NEW n, Bindable(ContainerTakes(n)), containers' \subseteq containers \cup {n}
  PROVE  HostIsPossible'
<1>1. /\ \A c : ContainerTakes(c)' = ContainerTakes(c)
      /\ \A l : ListenerTakes(l)' = ListenerTakes(l)
  BY TakesStay
<1>2. /\ \A c \in containers : ContainerTakes(n) \cap ContainerTakes(c) = {}
      /\ \A l \in listeners : ContainerTakes(n) \cap ListenerTakes(l) = {}
      /\ ~facts.on => \A e \in ContainerTakes(n) : e.address \in Addr4
  BY BindableIs
<1>3. \A c, d \in containers' : c # d => ContainerTakes(c)' \cap ContainerTakes(d)' = {}
  BY <1>1, <1>2 DEF HostIsPossible
<1>4. \A c \in containers', l \in listeners' : ContainerTakes(c)' \cap ListenerTakes(l)' = {}
  BY <1>1, <1>2 DEF HostIsPossible
<1>5. \A k, l \in listeners' : k # l => ListenerTakes(k)' \cap ListenerTakes(l)' = {}
  BY <1>1 DEF HostIsPossible
<1>6. ~facts'.on => \A e \in Held' : e.address \in Addr4
  <2>1. \A e \in Held' : \/ \E c \in containers' : e \in ContainerTakes(c)'
                         \/ \E l \in listeners' : e \in ListenerTakes(l)'
    BY DEF Held
  <2>2. QED
    BY <1>1, <1>2, <2>1, PossibleIs
<1>7. QED
  BY <1>3, <1>4, <1>5, <1>6 DEF HostIsPossible

\* A process goes, or another comes that binds what can be bound.
LEMMA ListenerStep ==
  ASSUME HostIsPossible, facts' = facts, containers' = containers,
         NEW n, Bindable(ListenerTakes(n)), listeners' \subseteq listeners \cup {n}
  PROVE  HostIsPossible'
<1>1. /\ \A c : ContainerTakes(c)' = ContainerTakes(c)
      /\ \A l : ListenerTakes(l)' = ListenerTakes(l)
  BY TakesStay
<1>2. /\ \A c \in containers : ListenerTakes(n) \cap ContainerTakes(c) = {}
      /\ \A l \in listeners : ListenerTakes(n) \cap ListenerTakes(l) = {}
      /\ ~facts.on => \A e \in ListenerTakes(n) : e.address \in Addr4
  BY BindableIs
<1>3. \A c, d \in containers' : c # d => ContainerTakes(c)' \cap ContainerTakes(d)' = {}
  BY <1>1 DEF HostIsPossible
<1>4. \A c \in containers', l \in listeners' : ContainerTakes(c)' \cap ListenerTakes(l)' = {}
  BY <1>1, <1>2 DEF HostIsPossible
<1>5. \A k, l \in listeners' : k # l => ListenerTakes(k)' \cap ListenerTakes(l)' = {}
  BY <1>1, <1>2 DEF HostIsPossible
<1>6. ~facts'.on => \A e \in Held' : e.address \in Addr4
  <2>1. \A e \in Held' : \/ \E c \in containers' : e \in ContainerTakes(c)'
                         \/ \E l \in listeners' : e \in ListenerTakes(l)'
    BY DEF Held
  <2>2. QED
    BY <1>1, <1>2, <2>1, PossibleIs
<1>7. QED
  BY <1>3, <1>4, <1>5, <1>6 DEF HostIsPossible

-----------------------------------------------------------------------------
(***************************************************************************)
(* The containers that `up` makes and starts.                              *)
(***************************************************************************)

\* The publishes a container ends up with: one for each host port, of a range to one
\* container port only one of them.
LEMMA ChoicesAre ==
  ASSUME NEW ms, NEW X \in PublishChoices(ms)
  PROVE  /\ \A m \in ms : ~Dynamic(m) => \A p \in HostPorts(m) : Fixed(m, p) \in X
         /\ \A m \in ms : Dynamic(m) => \E p \in HostPorts(m) : Fixed(m, p) \in X
         /\ \A x \in X : \E m \in ms : \E p \in HostPorts(m) : x = Fixed(m, p)
<1> DEFINE Choices(m) == {Fixed(m, p) : p \in HostPorts(m)}
           dynamic    == {m \in ms : Dynamic(m)}
           static     == UNION {Choices(m) : m \in ms \ dynamic}
           picks      == {f \in [dynamic -> UNION {Choices(m) : m \in dynamic}] : \A m \in dynamic : f[m] \in Choices(m)}
<1>1. PICK pick \in picks : X = static \cup {pick[m] : m \in dynamic}
  BY DEF PublishChoices
<1>2. \A m \in dynamic : pick[m] \in Choices(m)
  OBVIOUS
<1>3. \A m \in ms \ dynamic : Choices(m) \subseteq static
  OBVIOUS
<1>4. \A x \in static : \E m \in ms : x \in Choices(m)
  OBVIOUS
<1> HIDE DEF static, picks
<1>5. \A x \in X : \E m \in ms : x \in Choices(m)
  BY <1>1, <1>2, <1>4
<1>6. QED
  BY <1>1, <1>2, <1>3, <1>5

\* What is chosen is readable.
LEMMA ChoicesTyped ==
  ASSUME facts \in Facts, NEW ms, ms \subseteq Mapping, NEW X \in PublishChoices(ms)
  PROVE  X \subseteq Mapping /\ \A x \in X : x.address # Unreadable
<1>1. ASSUME NEW x \in X PROVE x \in Mapping /\ x.address # Unreadable
  <2>1. PICK m \in ms : \E p \in HostPorts(m) : x = Fixed(m, p)
    BY ChoicesAre
  <2>2. PICK p \in HostPorts(m) : x = Fixed(m, p)
    BY <2>1
  <2>3. QED
    BY <2>2, FixedIs
<1>2. QED
  BY <1>1

States == {"created", "running", "exited"}

\* A container in another state, with other ports published.
LEMMA InRecord ==
  ASSUME NEW c, IsContainer(c), NEW st, NEW ms
  PROVE  In(c, st, ms) = [labelled |-> c.labelled, project |-> c.project, service |-> c.service, dir |-> c.dir,
                          oneOff |-> c.oneOff, hash |-> c.hash, state |-> st, network |-> c.network,
                          publishes |-> ms, expose |-> c.expose, new |-> c.new]
<1> DEFINE d == [c EXCEPT !.state = st]
<1>1. d = [labelled |-> c.labelled, project |-> c.project, service |-> c.service, dir |-> c.dir,
           oneOff |-> c.oneOff, hash |-> c.hash, state |-> st, network |-> c.network,
           publishes |-> c.publishes, expose |-> c.expose, new |-> c.new]
  BY DEF IsContainer
<1>2. In(c, st, ms) = [d EXCEPT !.publishes = ms]
  BY DEF In
<1> HIDE DEF d
<1>3. QED
  BY <1>1, <1>2

\* In changes the state and the publishes, and leaves a container one.
LEMMA InIs ==
  ASSUME NEW c, IsContainer(c), NEW st \in States, NEW ms, ms \subseteq Mapping,
         st = "running" /\ c.network = "bridge" => \A m \in ms : m.address # Unreadable
  PROVE  /\ IsContainer(In(c, st, ms))
         /\ In(c, st, ms) = [labelled |-> c.labelled, project |-> c.project, service |-> c.service, dir |-> c.dir,
                             oneOff |-> c.oneOff, hash |-> c.hash, state |-> st, network |-> c.network,
                             publishes |-> ms, expose |-> c.expose, new |-> c.new]
BY InRecord DEF IsContainer, IsService, States

\* A container that exits is the same in another state.
LEMMA ExitedIs ==
  ASSUME IsPlan(plan), NEW c, IsContainer(c)
  PROVE  /\ IsContainer(Exited(c)) /\ Exited(c).state = "exited"
         /\ Exited(c).project = c.project /\ Exited(c).oneOff = c.oneOff /\ Exited(c).service = c.service
         /\ Exited(c).labelled = c.labelled /\ Exited(c).dir = c.dir /\ Exited(c).new = c.new
         /\ Exited(c).hash = c.hash /\ Exited(c).network = c.network /\ Exited(c).expose = c.expose
         /\ Exited(c).publishes = IF Composed(c) /\ c.service \in plan.services /\ c.hash = plan.svc[c.service].hash
                                  THEN plan.svc[c.service].publishes ELSE c.publishes
<1> DEFINE ms == IF Composed(c) /\ c.service \in plan.services /\ c.hash = plan.svc[c.service].hash
                 THEN plan.svc[c.service].publishes ELSE c.publishes
<1>1. ms \subseteq Mapping
  BY DEF IsPlan, IsService, IsContainer
<1>2. Exited(c) = In(c, "exited", ms)
  BY DEF Exited
<1> HIDE DEF ms
<1>3. QED
  BY <1>1, <1>2, InIs DEF States, ms

\* The container that `up` creates for a service.
LEMMA NewIs ==
  ASSUME IsPlan(plan), NEW s \in plan.services
  PROVE  /\ IsContainer(NewContainer(s)) /\ Composed(NewContainer(s))
         /\ NewContainer(s).service = s /\ NewContainer(s).state = "created" /\ NewContainer(s).new = TRUE
         /\ NewContainer(s).hash = plan.svc[s].hash
         /\ MadeFrom(NewContainer(s), plan.svc[s])
BY DEF NewContainer, IsContainer, IsPlan, IsService, Composed, MadeFrom

\* Compose takes for its own only what the tool holds it to release.
LEMMA ComposedReleased ==
  ASSUME IsPlan(plan), NEW c, IsContainer(c), Composed(c),
         c.service \in plan.services \/ plan.removeOrphans
  PROVE  Released(plan, c)
BY DEF IsPlan, IsContainer, Composed, Released, OwnerOf, SameProject, PlannedService

-----------------------------------------------------------------------------
(***************************************************************************)
(* The rule's answer is one: its findings are about services and ports of  *)
(* the plan, and what it concludes is an outcome.                          *)
(***************************************************************************)

Findings == [service : plan.services, port : Nat, outcome : Outcome, severity : Severity]

\* A finding of a planned service is of the type of findings.
LEMMA FindingTyped ==
  ASSUME NEW s \in plan.services, NEW port \in Nat, NEW o \in Outcome, NEW v \in Severity
  PROVE  Finding(s, port, o, v) \in Findings
BY DEF Finding, Findings

\* The outcomes and severities the port rule gives.
LEMMA OutcomeIs ==
  /\ {"problem", "unknown", "manual-check", "no-problem", "not-applicable"} \subseteq Outcome
  /\ {"blocker", "warning", "info"} \subseteq Severity
BY DEF Outcome, Severity

\* The rule reports of planned services, whatever it was given.
LEMMA FindingsTyped ==
  ASSUME Situation, NEW S, NEW C
  PROVE  PortConflicts(RuleInput(S, C)) \subseteq Findings
<1> DEFINE in == RuleInput(S, C)
<1>1. in.plan = plan
  BY InputIs DEF Situation
<1> SUFFICES ASSUME NEW f \in PortConflicts(in)  PROVE f \in Findings
  OBVIOUS
<1>2. PICK s \in plan.services :
        f \in IF plan.svc[s].network = "host" THEN HostNetworkPorts(in, s)
              ELSE UNION {IF Dynamic(m) THEN DynamicRange(in, s, m) ELSE StaticPorts(in, s, m) :
                            m \in plan.svc[s].publishes}
  BY <1>1 DEF PortConflicts
<1>3. plan.svc[s].publishes \subseteq Mapping /\ plan.svc[s].expose \subseteq Nat
  BY DEF Situation, IsPlan, IsService
<1> HIDE DEF in
<1>4. CASE plan.svc[s].network = "host"
  <2>1. \E port \in Nat, o \in Outcome, v \in Severity : f = Finding(s, port, o, v)
    <3>1. f \in HostNetworkPorts(in, s)
      BY <1>2, <1>4
    <3>2. CASE DeclaredPorts(plan.svc[s]) = {}
      BY <1>1, <3>1, <3>2, OutcomeIs DEF HostNetworkPorts
    <3>3. CASE DeclaredPorts(plan.svc[s]) # {}
      <4>1. PICK d \in DeclaredPorts(plan.svc[s]) :
              f \in {Finding(s, d.port, "problem", "blocker"), Finding(s, d.port, "unknown", "warning")}
        BY <1>1, <3>1, <3>3 DEF HostNetworkPorts
      <4>2. d.port \in Nat
        BY <1>3, DeclaredBase
      <4>3. QED
        BY <4>1, <4>2, OutcomeIs
    <3>4. QED
      BY <3>2, <3>3
  <2>2. QED
    BY <2>1, FindingTyped
<1>5. CASE plan.svc[s].network # "host"
  <2>1. PICK m \in plan.svc[s].publishes : f \in IF Dynamic(m) THEN DynamicRange(in, s, m) ELSE StaticPorts(in, s, m)
    BY <1>2, <1>5
  <2>2. m.hostPort \in Nat /\ HostPorts(m) \subseteq Nat
    BY <1>3 DEF Mapping, HostPorts
  <2>3. \E port \in Nat, o \in Outcome, v \in Severity : f = Finding(s, port, o, v)
    <3>1. CASE f \in DynamicRange(in, s, m)
      BY <2>2, <3>1, OutcomeIs DEF DynamicRange, UnobservableProtocol
    <3>2. CASE f \in StaticPorts(in, s, m)
      <4>1. PICK p \in HostPorts(m) :
              \/ f = UnobservableProtocol(s, p)
              \/ f = PortConflictFinding(in, s, p, PortHolders(in, MappingClaim(m, p)))
        BY <3>2 DEF StaticPorts
      <4>2. CASE f = UnobservableProtocol(s, p)
        BY <2>2, <4>2, OutcomeIs DEF UnobservableProtocol
      <4>3. CASE f = PortConflictFinding(in, s, p, PortHolders(in, MappingClaim(m, p)))
        BY <2>2, <4>3, OutcomeIs DEF PortConflictFinding
      <4>4. QED
        BY <4>1, <4>2, <4>3
    <3>3. QED
      BY <2>1, <3>1, <3>2
  <2>4. QED
    BY <2>3, FindingTyped
<1>6. QED
  BY <1>4, <1>5

\* The verdict is an outcome.
LEMMA OutcomeTyped == \A in : PortOutcome(in) \in Outcome
BY DEF PortOutcome, MostPressing, Outcome

-----------------------------------------------------------------------------
(***************************************************************************)
(* The types of the run.                                                   *)
(***************************************************************************)

\* A process or a container goes.
LEMMA FewerStep ==
  ASSUME HostIsPossible, facts' = facts, listeners' \subseteq listeners, containers' \subseteq containers
  PROVE  HostIsPossible'
<1>1. /\ \A c : ContainerTakes(c)' = ContainerTakes(c)
      /\ \A l : ListenerTakes(l)' = ListenerTakes(l)
  BY TakesStay
<1>2. \A c, d \in containers' : c # d => ContainerTakes(c)' \cap ContainerTakes(d)' = {}
  BY <1>1 DEF HostIsPossible
<1>3. \A c \in containers', l \in listeners' : ContainerTakes(c)' \cap ListenerTakes(l)' = {}
  BY <1>1 DEF HostIsPossible
<1>4. \A k, l \in listeners' : k # l => ListenerTakes(k)' \cap ListenerTakes(l)' = {}
  BY <1>1 DEF HostIsPossible
<1>5. ~facts'.on => \A e \in Held' : e.address \in Addr4
  <2>1. \A e \in Held' : \/ \E c \in containers' : e \in ContainerTakes(c)'
                         \/ \E l \in listeners' : e \in ListenerTakes(l)'
    BY DEF Held
  <2>2. QED
    BY <1>1, <2>1, PossibleIs
<1>6. QED
  BY <1>2, <1>3, <1>4, <1>5 DEF HostIsPossible

\* A container that does not run binds nothing.
LEMMA StoppedBinds ==
  ASSUME NEW c, c.state # "running"
  PROVE  ContainerTakes(c) = {} /\ Bindable(ContainerTakes(c))
BY DEF ContainerTakes, Bindable

\* What is done about a service follows the phase.
Pace == /\ phase \in {"ports", "list", "compare", "up"} => \A s \in plan.services : up[s] = "pending"
        /\ phase = "converge" => \A s \in plan.services : up[s] \in {"pending", "converged"}
        /\ phase = "start" => \A s \in plan.services : up[s] # "pending"

Typed == TypeOK /\ Situation /\ Pace

Choices(c) == IF c.network = "host" THEN {c.publishes} ELSE PublishChoices(c.publishes)

\* A service's container that runs stays, one that binds what it needs is started, and one
\* that finds it taken is not.
LEMMA StartIs ==
  ASSUME NEW s, Start(s)
  PROVE  \E c \in containers :
           /\ Composed(c) /\ c.service = s
           /\ \/ c.state = "running" /\ up' = [up EXCEPT ![s] = "running"] /\ containers' = containers
              \/ /\ c.state # "running" /\ up' = [up EXCEPT ![s] = "failed"] /\ containers' = containers
                 /\ \A ms \in Choices(c) : ~Bindable(ContainerTakes(In(c, "running", ms)))
              \/ /\ c.state # "running" /\ up' = [up EXCEPT ![s] = "running"]
                 /\ \E ms \in Choices(c) :
                      /\ Bindable(ContainerTakes(In(c, "running", ms)))
                      /\ containers' = (containers \ {c}) \cup {In(c, "running", ms)}
<1>1. PICK c \in {d \in containers : Composed(d) /\ d.service = s} :
       IF c.state = "running"
       THEN up' = [up EXCEPT ![s] = "running"] /\ UNCHANGED containers
       ELSE LET Started(ms) == In(c, "running", ms)
                choices == IF c.network = "host" THEN {c.publishes} ELSE PublishChoices(c.publishes)
                free    == {ms \in choices : Bindable(ContainerTakes(Started(ms)))}
            IN  \/ /\ free = {}
                   /\ up' = [up EXCEPT ![s] = "failed"] /\ UNCHANGED containers
                \/ \E ms \in free :
                     /\ up' = [up EXCEPT ![s] = "running"]
                     /\ containers' = (containers \ {c}) \cup {Started(ms)}
  BY DEF Start
<1> DEFINE free == {ms \in Choices(c) : Bindable(ContainerTakes(In(c, "running", ms)))}
<1>2. CASE c.state = "running"
  BY <1>1, <1>2
<1>3. CASE c.state # "running"
  <2>1. \/ /\ free = {}
           /\ up' = [up EXCEPT ![s] = "failed"] /\ UNCHANGED containers
        \/ \E ms \in free :
             /\ up' = [up EXCEPT ![s] = "running"]
             /\ containers' = (containers \ {c}) \cup {In(c, "running", ms)}
    BY <1>1, <1>3 DEF Choices
  <2>2. CASE free = {} /\ up' = [up EXCEPT ![s] = "failed"] /\ UNCHANGED containers
    BY <1>1, <1>3, <2>2
  <2>3. CASE \E ms \in free :
               /\ up' = [up EXCEPT ![s] = "running"]
               /\ containers' = (containers \ {c}) \cup {In(c, "running", ms)}
    BY <1>1, <1>3, <2>3
  <2>4. QED
    BY <2>1, <2>2, <2>3
<1>4. QED
  BY <1>2, <1>3

\* What a started container publishes.
LEMMA ChoicesTypedOf ==
  ASSUME Situation, NEW c \in containers, NEW ms \in Choices(c)
  PROVE  /\ ms \subseteq Mapping
         /\ c.network = "bridge" => \A m \in ms : m.address # Unreadable
         /\ IsContainer(c) /\ IsContainer(In(c, "running", ms))
<1>1. IsContainer(c) /\ c.publishes \subseteq Mapping /\ c.network \in {"bridge", "host"} /\ facts \in Facts
  BY DEF Situation, IsContainer, IsService
<1>2. ms \subseteq Mapping /\ (c.network = "bridge" => \A m \in ms : m.address # Unreadable)
  BY <1>1, ChoicesTyped DEF Choices
<1>3. QED
  BY <1>1, <1>2, InIs DEF States

\* The types hold at first, by SituationsTyped,
LEMMA InitTyped == Init => Typed
<1> SUFFICES ASSUME Init PROVE Typed
  OBVIOUS
<1>1. PICK f \in Families : /\ plan \in f.plans /\ facts \in f.facts
                            /\ containers \in f.containers /\ listeners \in f.listeners
  BY DEF Init
<1>2. Situation
  BY <1>1, SituationsTyped DEF Situation
<1>3. TypeOK
  BY <1>2 DEF Init, TypeOK, Situation, Outcome
<1>4. Pace
  BY DEF Init, Pace
<1>5. QED
  BY <1>2, <1>3, <1>4 DEF Typed

\* Compose keeps or replaces a service's container, or creates one.
LEMMA ConvergeIs ==
  ASSUME NEW s, Converge(s)
  PROVE  /\ \A c \in containers : c \in containers' \/ (Composed(c) /\ c.service = s /\ ~Kept(c))
         /\ \A c \in containers' : \/ c \in containers /\ ~(Composed(c) /\ c.service = s /\ ~Kept(c))
                                   \/ c = NewContainer(s)
         /\ containers' \subseteq containers \cup {NewContainer(s)}
<1> DEFINE old  == {c \in containers : Composed(c) /\ c.service = s}
           kept == {c \in old : Kept(c)}
<1>1. containers' = (containers \ (old \ kept)) \cup (IF kept = {} THEN {NewContainer(s)} ELSE {})
  BY DEF Converge
<1>2. QED
  BY <1>1

\* The steps of an audit, by what they do to the host.
LEMMA HostStep ==
  ASSUME Typed, Next
  PROVE  /\ plan' = plan /\ facts' = facts
         /\ \A c \in containers' : IsContainer(c)
         /\ listeners' \subseteq Listening
         /\ HostIsPossible'
<1>1. Situation /\ HostIsPossible /\ IsPlan(plan)
  BY DEF Typed, TypeOK, Situation
<1>2. CASE ReadSockets \/ ListContainers \/ Compare
  BY <1>1, <1>2, FewerStep DEF ReadSockets, ListContainers, Compare, host, Situation
<1>3. CASE ListenerStarts
  <2>1. PICK l \in Newcomers : Bindable(ListenerTakes(l)) /\ listeners' = listeners \cup {l}
    BY <1>3 DEF ListenerStarts
  <2>2. plan' = plan /\ facts' = facts /\ containers' = containers
    BY <1>3 DEF ListenerStarts
  <2>3. HostIsPossible'
    BY <1>1, <2>1, <2>2, ListenerStep
  <2>4. QED
    BY <1>1, <2>1, <2>2, <2>3, SituationsTyped DEF Situation
<1>4. CASE ListenerStops
  BY <1>1, <1>4, FewerStep DEF ListenerStops, Situation
<1>5. CASE ContainerExits
  <2>1. PICK c \in containers : containers' = (containers \ {c}) \cup {Exited(c)}
    BY <1>5 DEF ContainerExits
  <2>2. plan' = plan /\ facts' = facts /\ listeners' = listeners
    BY <1>5 DEF ContainerExits
  <2>3. IsContainer(Exited(c)) /\ Exited(c).state = "exited"
    BY <1>1, ExitedIs DEF Situation
  <2>4. containers' \subseteq containers \cup {Exited(c)}
    BY <2>1
  <2>5. HostIsPossible'
    BY <1>1, <2>2, <2>3, <2>4, StoppedBinds, ContainerStep
  <2>6. QED
    BY <1>1, <2>2, <2>3, <2>4, <2>5 DEF Situation
<1>6. CASE RemoveOrphans
  BY <1>1, <1>6, FewerStep DEF RemoveOrphans, Situation
<1>7. ASSUME NEW s \in plan.services, Converge(s)
      PROVE  /\ plan' = plan /\ facts' = facts
             /\ \A c \in containers' : IsContainer(c)
             /\ listeners' \subseteq Listening
             /\ HostIsPossible'
  <2>1. plan' = plan /\ facts' = facts /\ listeners' = listeners
    BY <1>7 DEF Converge
  <2>2. containers' \subseteq containers \cup {NewContainer(s)}
    BY <1>7, ConvergeIs
  <2>3. IsContainer(NewContainer(s)) /\ NewContainer(s).state = "created"
    BY <1>1, NewIs
  <2>4. HostIsPossible'
    BY <1>1, <2>1, <2>2, <2>3, StoppedBinds, ContainerStep
  <2>5. QED
    BY <1>1, <2>1, <2>2, <2>3, <2>4 DEF Situation
<1>8. ASSUME NEW s \in plan.services, Start(s)
      PROVE  /\ plan' = plan /\ facts' = facts
             /\ \A c \in containers' : IsContainer(c)
             /\ listeners' \subseteq Listening
             /\ HostIsPossible'
  <2>1. plan' = plan /\ facts' = facts /\ listeners' = listeners
    BY <1>8 DEF Start
  <2>2. \/ containers' = containers
        \/ \E c \in containers : \E ms \in Choices(c) :
             /\ Bindable(ContainerTakes(In(c, "running", ms)))
             /\ containers' = (containers \ {c}) \cup {In(c, "running", ms)}
    BY <1>8, StartIs
  <2>3. CASE containers' = containers
    BY <1>1, <2>1, <2>3, FewerStep DEF Situation
  <2>4. CASE \E c \in containers : \E ms \in Choices(c) :
             /\ Bindable(ContainerTakes(In(c, "running", ms)))
             /\ containers' = (containers \ {c}) \cup {In(c, "running", ms)}
    <3>1. PICK c \in containers : \E ms \in Choices(c) :
             /\ Bindable(ContainerTakes(In(c, "running", ms)))
             /\ containers' = (containers \ {c}) \cup {In(c, "running", ms)}
      BY <2>4
    <3>2. PICK ms \in Choices(c) :
             /\ Bindable(ContainerTakes(In(c, "running", ms)))
             /\ containers' = (containers \ {c}) \cup {In(c, "running", ms)}
      BY <3>1
    <3>3. IsContainer(In(c, "running", ms))
      BY <1>1, ChoicesTypedOf
    <3>4. HostIsPossible'
      BY <1>1, <2>1, <3>2, ContainerStep
    <3>5. QED
      BY <1>1, <2>1, <3>2, <3>3, <3>4 DEF Situation
  <2>5. QED
    BY <2>2, <2>3, <2>4
<1>9. QED
  BY <1>2, <1>3, <1>4, <1>5, <1>6, <1>7, <1>8 DEF Next

\* and every step keeps them.
LEMMA TypedStep == Typed /\ [Next]_vars => Typed'
<1> SUFFICES ASSUME Typed, [Next]_vars PROVE Typed'
  OBVIOUS
<1>1. CASE UNCHANGED vars
  <2>1. /\ plan' = plan /\ facts' = facts /\ containers' = containers /\ listeners' = listeners
        /\ findings' = findings /\ outcome' = outcome /\ phase' = phase /\ up' = up
    BY <1>1 DEF vars, host, told
  <2>2. HostIsPossible'
    BY <2>1, FewerStep DEF Typed, TypeOK
  <2>3. QED
    BY <2>1, <2>2 DEF Typed, TypeOK, Situation, Pace
<1>2. CASE Next
  <2>1. /\ plan' = plan /\ facts' = facts
        /\ \A c \in containers' : IsContainer(c)
        /\ listeners' \subseteq Listening
        /\ HostIsPossible'
    BY <1>2, HostStep
  <2>2. Situation'
    BY <2>1 DEF Typed, Situation
  <2> DEFINE Told == findings \subseteq Findings /\ outcome \in Outcome
             Phases == phase \in {"ports", "list", "compare", "up", "converge", "start"}
             Ups == up \in [plan.services -> {"pending", "converged", "running", "failed"}]
  <2>3. Told /\ Phases /\ Ups /\ Pace /\ Situation
    BY DEF Typed, TypeOK, Findings
  <2>4. Told' /\ Phases' /\ Ups' /\ Pace'
    <3>1. CASE ReadSockets \/ ListContainers
      BY <2>3, <3>1 DEF ReadSockets, ListContainers, told, Pace, Findings
    <3>2. CASE Compare
      BY <2>3, <3>2, FindingsTyped, OutcomeTyped DEF Compare, Pace, Findings
    <3>3. CASE ListenerStarts \/ ListenerStops \/ ContainerExits
      BY <2>3, <3>3 DEF ListenerStarts, ListenerStops, ContainerExits, told, Pace, Findings
    <3>4. CASE RemoveOrphans
      BY <2>3, <3>4 DEF RemoveOrphans, told, Pace, Findings
    <3>5. ASSUME NEW s \in plan.services, Converge(s)
          PROVE  Told' /\ Phases' /\ Ups' /\ Pace'
      BY <2>3, <3>5 DEF Converge, told, Pace, Findings
    <3>6. ASSUME NEW s \in plan.services, Start(s)
          PROVE  Told' /\ Phases' /\ Ups' /\ Pace'
      <4>1. up' \in {[up EXCEPT ![s] = "running"], [up EXCEPT ![s] = "failed"]}
        BY <3>6, StartIs
      <4>2. UNCHANGED <<plan, facts, told, phase>> /\ phase = "start"
        BY <3>6 DEF Start
      <4>3. QED
        BY <2>3, <4>1, <4>2 DEF told, Pace, Findings
    <3>7. QED
      BY <1>2, <3>1, <3>2, <3>3, <3>4, <3>5, <3>6 DEF Next
  <2>5. TypeOK'
    BY <2>1, <2>4 DEF TypeOK, Findings
  <2>6. QED
    BY <2>2, <2>4, <2>5 DEF Typed
<1>3. QED
  BY <1>1, <1>2

\* Whatever happens on the host, the run keeps its types: the rule's findings are about
\* the plan's services, and no binding is ever held twice.
THEOREM TypeCorrect == Spec => []TypeOK
<1>1. Typed => TypeOK
  BY DEF Typed
<1>2. QED
  BY <1>1, InitTyped, TypedStep, PTL DEF Spec

-----------------------------------------------------------------------------
(***************************************************************************)
(* What runs was made from the plan, and holds what the plan asks for.     *)
(***************************************************************************)

\* A container that Compose keeps, and one that it has made, is made from the plan, and
\* a service that is up has a container that runs.
AsPlanned ==
  /\ \A c \in containers : Composed(c) /\ c.service \in plan.services /\ (Kept(c) \/ up[c.service] # "pending")
                           => c.hash = plan.svc[c.service].hash /\ MadeFrom(c, plan.svc[c.service])
  /\ \A s \in plan.services : up[s] = "running" =>
       \E c \in containers : Composed(c) /\ c.service = s /\ c.state = "running"

\* A host port of a publish, and the publishes chosen, given what a variable resolves to.
FixedAt(ip, m, p) ==
  [address |-> [m EXCEPT !.address = IF @ = Unreadable THEN ip ELSE @].address, hostPort |-> p, hostPortEnd |-> 0,
   containerPort |-> m.containerPort, containerPortEnd |-> 0, protocol |-> m.protocol]

ChoicesAt(ip, ms) ==
  LET Picks(m) == {FixedAt(ip, m, p) : p \in HostPorts(m)}
      dynamic  == {m \in ms : Dynamic(m)}
      static   == UNION {Picks(m) : m \in ms \ dynamic}
  IN  {static \cup {pick[m] : m \in dynamic} :
         pick \in {f \in [dynamic -> UNION {Picks(m) : m \in dynamic}] : \A m \in dynamic : f[m] \in Picks(m)}}

\* What a container is made from, and whose it is, is the same as long as the plan and
\* the host's address are.
LEMMA MadeStays ==
  ASSUME facts' = facts
  PROVE  \A c, svc : MadeFrom(c, svc)' = MadeFrom(c, svc)
<1>1. ASSUME NEW ms
      PROVE  PublishChoices(ms) = ChoicesAt(facts.hostIP, ms) /\ PublishChoices(ms)' = ChoicesAt(facts'.hostIP, ms)
  BY DEF PublishChoices, ChoicesAt, Fixed, FixedAt, Real
<1>2. ASSUME NEW ms PROVE PublishChoices(ms)' = PublishChoices(ms)
  BY <1>1
<1>3. QED
  BY <1>2 DEF MadeFrom

LEMMA ComposedStays ==
  ASSUME plan' = plan
  PROVE  \A c : Composed(c)' = Composed(c) /\ Kept(c)' = Kept(c)
BY DEF Composed, Kept

\* A container that is started, or that exits, is as much Compose's, and as much made
\* from the plan.
LEMMA StartedMade ==
  ASSUME Situation, NEW c \in containers, c.state # "running", NEW ms \in Choices(c)
  PROVE  /\ In(c, "running", ms).service = c.service /\ In(c, "running", ms).state = "running"
         /\ Composed(In(c, "running", ms)) = Composed(c) /\ Kept(In(c, "running", ms)) = Kept(c)
         /\ \A svc : MadeFrom(c, svc) => MadeFrom(In(c, "running", ms), svc)
<1> DEFINE d == In(c, "running", ms)
<1>1. /\ d.project = c.project /\ d.oneOff = c.oneOff /\ d.service = c.service /\ d.hash = c.hash
      /\ d.state = "running" /\ d.network = c.network /\ d.expose = c.expose /\ d.publishes = ms
  BY ChoicesTypedOf, InIs DEF States
<1> HIDE DEF d
<1>2. ASSUME NEW svc, MadeFrom(c, svc) PROVE MadeFrom(d, svc)
  <2>1. c.publishes = svc.publishes
    BY <1>2 DEF MadeFrom
  <2>2. QED
    BY <1>1, <1>2, <2>1 DEF MadeFrom, Choices
<1>3. QED
  BY <1>1, <1>2 DEF Composed, Kept, d

\* The same of one that exits.
LEMMA ExitedMade ==
  ASSUME Situation, NEW c \in containers
  PROVE  /\ Exited(c).service = c.service
         /\ Composed(Exited(c)) = Composed(c) /\ Kept(Exited(c)) = Kept(c)
         /\ Composed(c) /\ c.service \in plan.services /\ c.hash = plan.svc[c.service].hash
            => (MadeFrom(c, plan.svc[c.service]) => MadeFrom(Exited(c), plan.svc[c.service]))
<1> DEFINE d == Exited(c)
<1>1. /\ d.project = c.project /\ d.oneOff = c.oneOff /\ d.service = c.service /\ d.hash = c.hash
      /\ d.state = "exited" /\ d.network = c.network /\ d.expose = c.expose
      /\ d.publishes = IF Composed(c) /\ c.service \in plan.services /\ c.hash = plan.svc[c.service].hash
                       THEN plan.svc[c.service].publishes ELSE c.publishes
  BY ExitedIs DEF Situation
<1> HIDE DEF d
<1>2. QED
  BY <1>1 DEF Composed, Kept, MadeFrom, d

\* Without a container kept though outdated, what Compose would keep is as planned.
LEMMA InitAsPlanned ==
  ASSUME "outdated kept" \notin Divergences, Init
  PROVE  AsPlanned
<1>1. Typed /\ IsPlan(plan) /\ \A c \in containers : IsContainer(c)
  BY InitTyped DEF Typed, Situation
<1>2. \A s \in plan.services : up[s] = "pending"
  BY <1>1 DEF Init
<1>3. ASSUME NEW c \in containers, Composed(c), c.service \in plan.services, Kept(c)
      PROVE  c.hash = plan.svc[c.service].hash /\ MadeFrom(c, plan.svc[c.service])
  <2>1. Released(plan, c)
    BY <1>1, <1>3, ComposedReleased
  <2>2. c.hash = plan.svc[c.service].hash
    BY <1>3, <2>1 DEF Kept, Init, Admitted, OutdatedKept
  <2>3. QED
    BY <1>3, <2>2 DEF Init, HostIsComposed
<1>4. QED
  BY <1>2, <1>3 DEF AsPlanned

\* Every step leaves the containers as planned.
LEMMA AsPlannedStep ==
  ASSUME Typed, AsPlanned, [Next]_vars
  PROVE  AsPlanned'
<1>1. plan' = plan /\ facts' = facts /\ Situation /\ Pace
  BY HostStep DEF vars, Typed
<1>2. /\ IsPlan(plan) /\ (\A c \in containers : IsContainer(c))
      /\ \A s \in plan.services : IsService(plan.svc[s])
      /\ up \in [plan.services -> {"pending", "converged", "running", "failed"}]
  BY <1>1 DEF Situation, IsPlan, Typed, TypeOK
<1>3. /\ \A c : Composed(c)' = Composed(c) /\ Kept(c)' = Kept(c)
      /\ \A c, svc : MadeFrom(c, svc)' = MadeFrom(c, svc)
  BY <1>1, ComposedStays, MadeStays
<1>4. SUFFICES
        /\ \A c \in containers' : Composed(c) /\ c.service \in plan.services /\ (Kept(c) \/ up'[c.service] # "pending")
                                  => c.hash = plan.svc[c.service].hash /\ MadeFrom(c, plan.svc[c.service])
        /\ \A s \in plan.services : up'[s] = "running" =>
             \E c \in containers' : Composed(c) /\ c.service = s /\ c.state = "running"
  BY <1>1, <1>3 DEF AsPlanned
<1>5. CASE containers' = containers /\ up' = up
  BY <1>5 DEF AsPlanned
<1>6. CASE ContainerExits
  <2>1. PICK c \in containers : containers' = (containers \ {c}) \cup {Exited(c)}
    BY <1>6 DEF ContainerExits
  <2>2. up' = up /\ \A s \in plan.services : up[s] = "pending"
    BY <1>1, <1>6 DEF ContainerExits, Pace
  <2> DEFINE d == Exited(c)
  <2>3. /\ d.service = c.service /\ Composed(d) = Composed(c) /\ Kept(d) = Kept(c) /\ d.hash = c.hash
        /\ Composed(c) /\ c.service \in plan.services /\ c.hash = plan.svc[c.service].hash
           => (MadeFrom(c, plan.svc[c.service]) => MadeFrom(d, plan.svc[c.service]))
    BY <1>1, <1>2, ExitedMade, ExitedIs
  <2>4. \A e \in containers' : e \in containers \/ e = d
    BY <2>1
  <2> HIDE DEF d
  <2>5. QED
    BY <2>2, <2>3, <2>4 DEF AsPlanned
<1>7. CASE RemoveOrphans
  BY <1>1, <1>7 DEF RemoveOrphans, Pace, AsPlanned
<1>8. ASSUME NEW s \in plan.services, Converge(s)
      PROVE  /\ \A c \in containers' : Composed(c) /\ c.service \in plan.services /\ (Kept(c) \/ up'[c.service] # "pending")
                                       => c.hash = plan.svc[c.service].hash /\ MadeFrom(c, plan.svc[c.service])
             /\ \A t \in plan.services : up'[t] # "running"
  <2>1. up' = [up EXCEPT ![s] = "converged"] /\ \A t \in plan.services : up[t] # "running"
    BY <1>1, <1>8 DEF Converge, Pace
  <2>2. ASSUME NEW c \in containers', Composed(c), c.service \in plan.services,
               Kept(c) \/ up'[c.service] # "pending"
        PROVE  c.hash = plan.svc[c.service].hash /\ MadeFrom(c, plan.svc[c.service])
    <3>1. \/ c \in containers /\ ~(Composed(c) /\ c.service = s /\ ~Kept(c))
          \/ c = NewContainer(s)
      BY <1>8, ConvergeIs
    <3>2. CASE c = NewContainer(s)
      BY <1>2, <3>2, NewIs
    <3>3. CASE c \in containers /\ ~(Composed(c) /\ c.service = s /\ ~Kept(c))
      BY <1>2, <2>1, <2>2, <3>3 DEF AsPlanned
    <3>4. QED
      BY <3>1, <3>2, <3>3
  <2>3. QED
    BY <1>2, <2>1, <2>2
<1>9. ASSUME NEW s \in plan.services, Start(s)
      PROVE  /\ \A c \in containers' : Composed(c) /\ c.service \in plan.services /\ (Kept(c) \/ up'[c.service] # "pending")
                                       => c.hash = plan.svc[c.service].hash /\ MadeFrom(c, plan.svc[c.service])
             /\ \A t \in plan.services : up'[t] = "running" =>
                  \E c \in containers' : Composed(c) /\ c.service = t /\ c.state = "running"
  <2>1. PICK c \in containers :
           /\ Composed(c) /\ c.service = s
           /\ \/ c.state = "running" /\ up' = [up EXCEPT ![s] = "running"] /\ containers' = containers
              \/ /\ c.state # "running" /\ up' = [up EXCEPT ![s] = "failed"] /\ containers' = containers
                 /\ \A ms \in Choices(c) : ~Bindable(ContainerTakes(In(c, "running", ms)))
              \/ /\ c.state # "running" /\ up' = [up EXCEPT ![s] = "running"]
                 /\ \E ms \in Choices(c) :
                      /\ Bindable(ContainerTakes(In(c, "running", ms)))
                      /\ containers' = (containers \ {c}) \cup {In(c, "running", ms)}
    BY <1>9, StartIs
  <2>2. up[s] = "converged"
    BY <1>9 DEF Start
  <2>3. \A d \in containers : Composed(d) /\ d.service \in plan.services
                              /\ (Kept(d) \/ up'[d.service] # "pending") => d.hash = plan.svc[d.service].hash /\ MadeFrom(d, plan.svc[d.service])
    BY <1>2, <2>1, <2>2 DEF AsPlanned
  <2>4. CASE containers' = containers /\ (c.state = "running" \/ up' = [up EXCEPT ![s] = "failed"])
    BY <1>2, <2>1, <2>3, <2>4 DEF AsPlanned
  <2>5. CASE /\ c.state # "running" /\ up' = [up EXCEPT ![s] = "running"]
             /\ \E ms \in Choices(c) : containers' = (containers \ {c}) \cup {In(c, "running", ms)}
    <3>1. PICK ms \in Choices(c) : containers' = (containers \ {c}) \cup {In(c, "running", ms)}
      BY <2>5
    <3> DEFINE d == In(c, "running", ms)
    <3>2. /\ d.service = c.service /\ d.state = "running" /\ d.hash = c.hash
          /\ Composed(d) = Composed(c) /\ Kept(d) = Kept(c)
          /\ MadeFrom(c, plan.svc[s]) => MadeFrom(d, plan.svc[s])
      BY <1>1, <1>2, <2>5, StartedMade, InRecord
    <3>3. d \in containers' /\ \A e \in containers' : e \in containers \/ e = d
      BY <3>1
    <3>4. \A e \in containers : e = c \/ e \in containers'
      BY <3>1
    <3> HIDE DEF d
    <3>5. c.hash = plan.svc[s].hash /\ MadeFrom(c, plan.svc[s])
      BY <1>2, <2>1, <2>2 DEF AsPlanned
    <3>6. \A t \in plan.services : up'[t] = "running" => t = s \/ up[t] = "running"
      BY <1>2, <2>5
    <3>7. \A t \in plan.services : up'[t] = "running" =>
             \E e \in containers' : Composed(e) /\ e.service = t /\ e.state = "running"
      BY <2>1, <2>5, <3>2, <3>3, <3>4, <3>6 DEF AsPlanned
    <3>8. QED
      BY <2>1, <2>3, <3>2, <3>3, <3>5, <3>7
  <2>6. QED
    BY <2>1, <2>4, <2>5
<1>10. CASE ReadSockets \/ ListContainers \/ Compare \/ ListenerStarts \/ ListenerStops \/ UNCHANGED vars
  BY <1>5, <1>10 DEF ReadSockets, ListContainers, Compare, ListenerStarts, ListenerStops, vars, host
<1>11. QED
  BY <1>4, <1>6, <1>7, <1>8, <1>9, <1>10 DEF Next

\* What is enough for a service to run, among what is held.
Suffices(s, held) ==
  IF plan.svc[s].network = "host" THEN Listens(plan.svc[s]) \subseteq held
  ELSE \A m \in plan.svc[s].publishes :
         IF Dynamic(m) THEN \E p \in HostPorts(m) : Binding(m, p) \subseteq held
         ELSE \A p \in HostPorts(m) : Binding(m, p) \subseteq held

\* A container that runs as the plan says holds enough.
LEMMA MadeHolds ==
  ASSUME Situation, NEW s \in plan.services, NEW c \in containers,
         c.state = "running", MadeFrom(c, plan.svc[s])
  PROVE  Suffices(s, ContainerTakes(c))
<1> DEFINE svc == plan.svc[s]
<1>1. IsContainer(c) /\ facts \in Facts /\ c.network \in {"bridge", "host"} /\ svc.publishes \subseteq Mapping
  BY DEF Situation, IsContainer, IsPlan, IsService
<1>2. CASE c.network = "host"
  <2>1. svc.network = "host" /\ c.publishes = svc.publishes /\ c.expose = svc.expose
    BY <1>2 DEF MadeFrom
  <2>2. DeclaredPorts(c) = DeclaredPorts(svc)
    BY <2>1 DEF DeclaredPorts
  <2>3. ContainerTakes(c) = Listens(c)
    BY <1>2 DEF ContainerTakes
  <2>4. Listens(c) = Listens(svc)
    BY <2>2 DEF Listens
  <2>5. QED
    BY <2>1, <2>3, <2>4 DEF Suffices
<1>3. CASE c.network = "bridge"
  <2>1. svc.network = "bridge" /\ c.publishes \in PublishChoices(svc.publishes)
    BY <1>3 DEF MadeFrom
  <2>2. ASSUME NEW m \in svc.publishes, NEW p \in HostPorts(m), Fixed(m, p) \in c.publishes
        PROVE  Binding(m, p) \subseteq ContainerTakes(c)
    <3>1. PublishTakes(Fixed(m, p)) = Binding(m, p)
      BY <1>1, FixedIs
    <3>2. ContainerTakes(c) = UNION {PublishTakes(n) : n \in c.publishes}
      BY <1>3 DEF ContainerTakes
    <3>3. QED
      BY <2>2, <3>1, <3>2
  <2>3. /\ \A m \in svc.publishes : ~Dynamic(m) => \A p \in HostPorts(m) : Fixed(m, p) \in c.publishes
        /\ \A m \in svc.publishes : Dynamic(m) => \E p \in HostPorts(m) : Fixed(m, p) \in c.publishes
    BY <2>1, ChoicesAre
  <2>4. QED
    BY <2>1, <2>2, <2>3 DEF Suffices
<1>4. QED
  BY <1>1, <1>2, <1>3

\* What runs is not obstructed: what it holds, nobody else does.
LEMMA RunsFreely ==
  ASSUME Typed, AsPlanned, NEW s \in plan.services, up[s] = "running"
  PROVE  ~Obstructed(s)
<1>1. Situation /\ HostIsPossible /\ IsPlan(plan)
  BY DEF Typed, TypeOK, Situation
<1>2. PICK c \in containers : Composed(c) /\ c.service = s /\ c.state = "running"
  BY DEF AsPlanned
<1>3. IsContainer(c) /\ Released(plan, c)
  BY <1>1, <1>2, ComposedReleased DEF Situation
<1>4. Suffices(s, ContainerTakes(c))
  BY <1>1, <1>2, MadeHolds DEF AsPlanned
<1>5. \A e \in ContainerTakes(c) : ~StaysHeld(e)
  <2>1. SUFFICES ASSUME NEW e \in ContainerTakes(c), StaysHeld(e) PROVE FALSE
    OBVIOUS
  <2>2. \A l \in listeners : e \notin ListenerTakes(l)
    BY <1>1 DEF HostIsPossible
  <2>3. \A d \in containers : e \in ContainerTakes(d) => d = c
    BY <1>1 DEF HostIsPossible
  <2>4. QED
    BY <1>3, <2>1, <2>2, <2>3 DEF StaysHeld
<1>6. QED
  BY <1>4, <1>5 DEF Obstructed, Suffices

\* A redeployment of what runs is not a conflict with itself: what the rule would call a
\* problem is held by what stays, and what runs holds all that the plan asks for.
LEMMA RedeployHolds == Typed /\ AsPlanned => RedeployIsClean
<1> SUFFICES ASSUME Typed, AsPlanned, \A s \in plan.services : up[s] = "running", ~SocketUnattributed,
                    NEW S, S = IF SocketsUnread THEN {} ELSE AllSockets,
                    NEW C, C = IF facts.engine = "failed" THEN {} ELSE containers,
                    NEW f \in PortConflicts(RuleInput(S, C)), f.outcome = "problem"
             PROVE  FALSE
  BY DEF RedeployIsClean
<1>1. Situation /\ HostIsPossible
  BY DEF Typed, TypeOK
<1>2. Read(S, C)
  BY DEF Read
<1>3. f.service \in plan.services /\ Obstructed(f.service)
  BY <1>1, <1>2, ProblemIsHeld
<1>4. QED
  BY <1>3, RunsFreely

\* Once `up` has started every service, another audit of the same plan on the same host
\* reports no problem: PortConflicts takes no socket of the deployment for a stranger's.
THEOREM RedeployClean ==
  ASSUME "outdated kept" \notin Divergences
  PROVE  Spec => []RedeployIsClean
<1>1. Init => Typed /\ AsPlanned
  BY InitTyped, InitAsPlanned
<1>2. Typed /\ AsPlanned /\ [Next]_vars => (Typed /\ AsPlanned)'
  BY TypedStep, AsPlannedStep
<1>3. QED
  BY <1>1, <1>2, RedeployHolds, PTL DEF Spec

-----------------------------------------------------------------------------
(***************************************************************************)
(* A blocker is real.                                                      *)
(***************************************************************************)

\* What a planned service binds, given the plan and the facts of the host.
WantsAt(p, f, s) ==
  LET svc   == p.svc[s]
      ms    == {[m EXCEPT !.address = IF @ = Unreadable THEN f.hostIP ELSE @] : m \in svc.publishes}
      bound == [state |-> "running", network |-> svc.network, expose |-> svc.expose, publishes |-> ms]
  IN  IF bound.state # "running" THEN {}
      ELSE IF bound.network = "host"
      THEN UNION {Endpoints(d.protocol, d.port, Takes([address |-> Unnamed], f.on, FALSE)) : d \in DeclaredPorts(bound)}
      ELSE UNION {UNION {Endpoints(m.protocol, p2, Takes(MappingClaim(m, p2), f.on, TRUE)) : p2 \in HostPorts(m)} :
                    m \in bound.publishes}

\* What the plan wants, and what cannot be attributed, depend on what does not change.
LEMMA WantsStay ==
  ASSUME plan' = plan, facts' = facts
  PROVE  \A s : Wants(s)' = Wants(s)
<1>1. ASSUME NEW s
      PROVE  Wants(s) = WantsAt(plan, facts, s) /\ Wants(s)' = WantsAt(plan', facts', s)
  BY DEF Wants, WantsAt, ContainerTakes, Listens, PublishTakes, Real
<1>2. QED
  BY <1>1

LEMMA UnattributedStays ==
  ASSUME plan' = plan, facts' = facts, containers' = containers
  PROVE  SocketUnattributed' = SocketUnattributed
<1>1. /\ \A c : ContainerTakes(c)' = ContainerTakes(c)
      /\ \A s : Wants(s)' = Wants(s)
  BY TakesStay, WantsStay
<1>2. QED
  BY <1>1 DEF SocketUnattributed

\* What a container or a process shows does not change.
LEMMA ShownStays ==
  ASSUME facts' = facts
  PROVE  /\ \A c : ContainerSockets(c)' = ContainerSockets(c)
         /\ \A l : ListenerSocket(l)' = ListenerSocket(l)
<1>1. ASSUME NEW d PROVE OwnSocket(d)' = OwnSocket(d)
  BY DEF OwnSocket, SocketAt, V6OnlyRead
<1>2. ASSUME NEW m PROVE ProxySockets(m)' = ProxySockets(m)
  <2>1. ASSUME NEW q, NEW a PROVE ProxySocket(m, q, a)' = ProxySocket(m, q, a)
    BY DEF ProxySocket, SocketAt, V6OnlyRead
  <2>2. EngineAddresses(m)' = EngineAddresses(m)
    BY DEF EngineAddresses
  <2>3. QED
    BY <2>1, <2>2 DEF ProxySockets
<1>3. ASSUME NEW c PROVE ContainerSockets(c)' = ContainerSockets(c)
  BY <1>1, <1>2 DEF ContainerSockets
<1>4. ASSUME NEW l PROVE ListenerSocket(l)' = ListenerSocket(l)
  BY DEF ListenerSocket, SocketAt, V6OnlyRead
<1>5. QED
  BY <1>3, <1>4

\* The sockets there are stay there while processes come and no container changes.
LEMMA SocketsStay ==
  ASSUME facts' = facts, containers' = containers, listeners \subseteq listeners'
  PROVE  AllSockets \subseteq AllSockets'
<1>1. /\ \A c : ContainerSockets(c)' = ContainerSockets(c)
      /\ \A l : ListenerSocket(l)' = ListenerSocket(l)
  BY ShownStays
<1>2. ASSUME NEW k \in AllSockets PROVE k \in AllSockets'
  <2>1. ObservableProtocol(BaseProtocol(k.protocol))
    BY DEF AllSockets
  <2>2. \/ \E c \in containers : k \in ContainerSockets(c)
        \/ \E l \in listeners : k = ListenerSocket(l)
    <3>1. k \in (UNION {ContainerSockets(c) : c \in containers}) \cup {ListenerSocket(l) : l \in listeners}
      BY DEF AllSockets
    <3>2. QED
      BY <3>1
  <2>3. \/ \E c \in containers' : k \in ContainerSockets(c)'
        \/ \E l \in listeners' : k = ListenerSocket(l)'
    BY <1>1, <2>2
  <2>4. k \in (UNION {ContainerSockets(c) : c \in containers})' \cup {ListenerSocket(l) : l \in listeners}'
    BY <2>3
  <2>5. QED
    BY <2>1, <2>4 DEF AllSockets
<1>3. QED
  BY <1>2

\* What obstructs a service stays while nothing that the plan does not release goes.
LEMMA ObstructionStays ==
  ASSUME plan' = plan, facts' = facts, listeners \subseteq listeners',
         \A c \in containers : ~Released(plan, c) => c \in containers',
         NEW s, Obstructed(s)
  PROVE  Obstructed(s)'
<1>1. /\ \A c : ContainerTakes(c)' = ContainerTakes(c)
      /\ \A l : ListenerTakes(l)' = ListenerTakes(l)
  BY TakesStay
<1>2. ASSUME NEW e, StaysHeld(e) PROVE StaysHeld(e)'
  BY <1>1, <1>2 DEF StaysHeld
<1>3. ASSUME NEW svc PROVE Listens(svc)' = Listens(svc)
  BY DEF Listens
<1>4. ASSUME NEW m, NEW p PROVE Binding(m, p)' = Binding(m, p)
  BY DEF Binding, Real
<1>5. CASE plan.svc[s].network = "host"
  <2>1. PICK e \in Listens(plan.svc[s]) : StaysHeld(e)
    BY <1>5 DEF Obstructed
  <2>2. StaysHeld(e)'
    BY <1>2, <2>1
  <2>3. Listens(plan.svc[s])' = Listens(plan.svc[s])
    BY DEF Listens
  <2>4. QED
    BY <1>5, <2>1, <2>2, <2>3 DEF Obstructed
<1>6. CASE plan.svc[s].network # "host"
  BY <1>2, <1>4, <1>6 DEF Obstructed
<1>7. QED
  BY <1>5, <1>6

\* While nothing has let go of a binding: what was read is there, the socket of a container
\* that the plan releases is told from a stranger's, and a service with a problem is
\* obstructed.
BlockersHold ==
  ~lost =>
    /\ phase \in {"ports", "list", "compare"} =>
         /\ findings = {} /\ ~SocketUnattributed
         /\ facts.engine = "absent" => containers = {}
    /\ phase = "list" => sockets \subseteq AllSockets
    /\ phase = "compare" => Read(sockets, listed)
    /\ \A f \in findings : f.outcome = "problem" => Obstructed(f.service)

\* At first nothing is reported,
LEMMA InitBlockers ==
  ASSUME "socket unattributed" \notin Divergences, Init
  PROVE  BlockersHold
BY DEF Init, BlockersHold, Admitted, HostIsComposed

\* and every step keeps a reported problem's holder in place.
LEMMA BlockersStep ==
  ASSUME Typed, BlockersHold, [Next]_vars
  PROVE  BlockersHold'
<1>1. plan' = plan /\ facts' = facts /\ Situation /\ HostIsPossible /\ IsPlan(plan)
      /\ \A c \in containers : IsContainer(c)
  BY HostStep DEF vars, Typed, TypeOK, Situation
<1>2. CASE lost'
  BY <1>2 DEF BlockersHold
<1> SUFFICES ASSUME ~lost' PROVE BlockersHold'
  BY <1>2
<1>3. ASSUME listeners \subseteq listeners', findings' = findings, ~lost,
             \A c \in containers : ~Released(plan, c) => c \in containers'
      PROVE  \A f \in findings' : f.outcome = "problem" => Obstructed(f.service)'
  BY <1>1, <1>3, ObstructionStays DEF BlockersHold
<1>4. CASE UNCHANGED vars
  <2>1. /\ findings' = findings /\ containers' = containers /\ listeners' = listeners /\ sockets' = sockets
        /\ listed' = listed /\ phase' = phase /\ lost' = lost
    BY <1>4 DEF vars, host, read, told
  <2>2. SocketUnattributed' = SocketUnattributed /\ AllSockets \subseteq AllSockets'
    BY <1>1, <2>1, UnattributedStays, SocketsStay
  <2>3. \A f \in findings' : f.outcome = "problem" => Obstructed(f.service)'
    BY <1>3, <2>1
  <2>4. QED
    BY <1>1, <2>1, <2>2, <2>3 DEF BlockersHold, Read
<1>5. CASE ReadSockets
  <2>1. /\ findings' = findings /\ containers' = containers /\ listeners' = listeners
        /\ phase = "ports" /\ phase' = "list" /\ lost' = lost
    BY <1>5 DEF ReadSockets, host, told
  <2>2. SocketUnattributed' = SocketUnattributed /\ AllSockets \subseteq AllSockets'
    BY <1>1, <2>1, UnattributedStays, SocketsStay
  <2>3. sockets' \subseteq AllSockets
    <3>1. sockets' \in {{}} \/ sockets' \in ReadOf(AllSockets, facts.socketsRead)
      BY <1>5 DEF ReadSockets
    <3>2. facts.socketsRead \in {"complete", "partial", "failed"}
      BY <1>1 DEF Situation, Facts
    <3>3. QED
      BY <3>1, <3>2 DEF ReadOf
  <2>4. QED
    BY <1>1, <2>1, <2>2, <2>3 DEF BlockersHold
<1>6. CASE ListContainers
  <2>1. /\ findings' = findings /\ containers' = containers /\ listeners' = listeners /\ sockets' = sockets
        /\ phase = "list" /\ phase' = "compare" /\ lost' = lost
    BY <1>6 DEF ListContainers, host, told
  <2>2. SocketUnattributed' = SocketUnattributed /\ AllSockets \subseteq AllSockets'
    BY <1>1, <2>1, UnattributedStays, SocketsStay
  <2>3. listed' \in ReadOf(containers, facts.engine) /\ facts.engine \in {"complete", "partial", "failed", "absent"}
    BY <1>1, <1>6 DEF ListContainers, Situation, Facts
  <2>4. /\ listed' \subseteq containers
        /\ facts.engine = "complete" => listed' = containers
    BY <2>3 DEF ReadOf
  <2>5. facts.engine = "absent" => containers = {}
    BY <2>1 DEF BlockersHold
  <2>6. QED
    BY <1>1, <2>1, <2>2, <2>4, <2>5 DEF BlockersHold, Read
<1>7. CASE Compare
  <2>1. /\ findings' = PortConflicts(RuleInput(sockets, listed))
        /\ containers' = containers /\ listeners' = listeners
        /\ phase = "compare" /\ phase' = "up" /\ lost' = lost
    BY <1>7 DEF Compare, host
  <2>2. Read(sockets, listed) /\ ~SocketUnattributed
    BY <2>1 DEF BlockersHold
  <2>3. ASSUME NEW f \in findings', f.outcome = "problem" PROVE Obstructed(f.service)'
    <3>1. Obstructed(f.service)
      BY <1>1, <2>1, <2>2, <2>3, ProblemIsHeld
    <3>2. QED
      BY <1>1, <2>1, <3>1, ObstructionStays
  <2>4. QED
    BY <2>1, <2>3 DEF BlockersHold
<1>8. CASE ListenerStarts
  <2>1. /\ findings' = findings /\ containers' = containers /\ listeners \subseteq listeners'
        /\ sockets' = sockets /\ listed' = listed /\ phase' = phase /\ lost' = lost
    BY <1>8 DEF ListenerStarts, read, told
  <2>2. SocketUnattributed' = SocketUnattributed /\ AllSockets \subseteq AllSockets'
    BY <1>1, <2>1, UnattributedStays, SocketsStay
  <2>3. \A f \in findings' : f.outcome = "problem" => Obstructed(f.service)'
    BY <1>3, <2>1
  <2>4. QED
    BY <1>1, <2>1, <2>2, <2>3 DEF BlockersHold, Read
<1>9. CASE ListenerStops \/ ContainerExits
  BY <1>9 DEF ListenerStops, ContainerExits
<1>10. CASE RemoveOrphans
  <2>1. /\ findings' = findings /\ listeners' = listeners
        /\ containers' = {c \in containers : plan.removeOrphans => ~(Composed(c) /\ c.service \notin plan.services)}
        /\ phase' = "converge" /\ lost' = lost
    BY <1>10 DEF RemoveOrphans, told
  <2>2. \A c \in containers : ~Released(plan, c) => c \in containers'
    BY <1>1, <2>1, ComposedReleased
  <2>3. QED
    BY <1>3, <2>1, <2>2 DEF BlockersHold
<1>11. ASSUME NEW s \in plan.services, Converge(s) PROVE BlockersHold'
  <2>1. /\ findings' = findings /\ listeners' = listeners /\ phase' \in {"converge", "start"} /\ lost' = lost
    BY <1>11 DEF Converge, told
  <2>2. \A c \in containers : ~Released(plan, c) => c \in containers'
    BY <1>1, <1>11, ConvergeIs, ComposedReleased
  <2>3. QED
    BY <1>3, <2>1, <2>2 DEF BlockersHold
<1>12. ASSUME NEW s \in plan.services, Start(s) PROVE BlockersHold'
  <2>1. /\ findings' = findings /\ listeners' = listeners /\ phase' = "start" /\ lost' = lost
    BY <1>12 DEF Start, told
  <2>2. PICK c \in containers :
          /\ Composed(c) /\ c.service = s
          /\ \A d \in containers : d = c \/ d \in containers'
    BY <1>12, StartIs
  <2>3. \A d \in containers : ~Released(plan, d) => d \in containers'
    BY <1>1, <2>2, ComposedReleased
  <2>4. QED
    BY <1>3, <2>1, <2>3 DEF BlockersHold
<1>13. QED
  BY <1>4, <1>5, <1>6, <1>7, <1>8, <1>9, <1>10, <1>11, <1>12 DEF Next

\* A blocker is real: a service the rule reports a problem for does not come up, unless
\* something let go of a binding after the sockets were read.
THEOREM BlockersReal ==
  ASSUME "socket unattributed" \notin Divergences, "outdated kept" \notin Divergences
  PROVE  Spec => []BlockerIsReal
<1> DEFINE IInv == Typed /\ AsPlanned /\ BlockersHold
<1>1. Init => IInv
  BY InitTyped, InitAsPlanned, InitBlockers
<1>2. IInv /\ [Next]_vars => IInv'
  BY TypedStep, AsPlannedStep, BlockersStep
<1>3. IInv => BlockerIsReal
  BY RunsFreely DEF BlockersHold, BlockerIsReal, Typed, TypeOK, Findings
<1> HIDE DEF IInv
<1>4. QED
  BY <1>1, <1>2, <1>3, PTL DEF Spec

-----------------------------------------------------------------------------
(***************************************************************************)
(* What was not read is not fine.                                          *)
(***************************************************************************)

LEMMA UnreadIsUnknown ==
  ASSUME Situation, BindsHostPort, SocketsUnread, ~DeclaredUnread, NEW S, NEW C
  PROVE  PortOutcome(RuleInput(S, C)) \in {"problem", "unknown"}
<1> DEFINE in == RuleInput(S, C)
<1>1. /\ in.plan = plan /\ in.portsUnchecked = facts.portsUnchecked /\ in.socketsRead = facts.socketsRead
      /\ RuleInput({}, {}).plan = plan
  BY InputIs DEF Situation
<1>2. PublishesHostPort(RuleInput({}, {}))
  BY DEF DeclaredUnread
<1> HIDE DEF in
<1>3. PublishesHostPort(in)
  BY <1>1, <1>2 DEF PublishesHostPort
<1>4. AssessPorts(in) = "unknown"
  BY <1>1, <1>3 DEF AssessPorts, SocketsUnread
<1>5. QED
  BY <1>4 DEF PortOutcome, MostPressing, in

\* What the rule concluded of sockets that were not read.
UnreadTold ==
  /\ ~DeclaredUnread
  /\ Compared /\ BindsHostPort /\ SocketsUnread => outcome \in {"problem", "unknown"}

\* Only the comparison sets the outcome.
LEMMA UnreadStep ==
  ASSUME Typed, UnreadTold, [Next]_vars
  PROVE  UnreadTold'
<1>1. plan' = plan /\ facts' = facts /\ Situation
  BY HostStep DEF vars, Typed
<1>2. BindsHostPort' = BindsHostPort /\ SocketsUnread' = SocketsUnread
  BY <1>1 DEF BindsHostPort, SocketsUnread
<1>3. DeclaredUnread' = DeclaredUnread
  <2>1. RuleInput({}, {}).plan = plan /\ RuleInput({}, {}).plan' = plan'
    BY DEF RuleInput
  <2>2. PublishesHostPort(RuleInput({}, {}))' = PublishesHostPort(RuleInput({}, {}))
    BY <1>1, <2>1 DEF PublishesHostPort
  <2>3. QED
    BY <1>2, <2>2 DEF DeclaredUnread
<1>4. CASE Compare
  <2>1. outcome' = PortOutcome(RuleInput(sockets, listed))
    BY <1>4 DEF Compare
  <2>2. QED
    BY <1>1, <1>2, <1>3, <2>1, UnreadIsUnknown DEF UnreadTold
<1>5. CASE outcome' = outcome /\ (Compared' => Compared)
  BY <1>2, <1>3, <1>5 DEF UnreadTold
<1>6. CASE UNCHANGED vars \/ ReadSockets \/ ListContainers \/ ListenerStarts \/ ListenerStops \/ ContainerExits \/ RemoveOrphans
  BY <1>5, <1>6 DEF vars, told, ReadSockets, ListContainers, ListenerStarts, ListenerStops, ContainerExits, RemoveOrphans, Compared
<1>7. ASSUME NEW s \in plan.services, Converge(s) \/ Start(s) PROVE UnreadTold'
  BY <1>5, <1>7 DEF told, Converge, Start, Compared
<1>8. QED
  BY <1>4, <1>6, <1>7 DEF Next

\* Sockets that were not read end neither in no-problem nor in not-applicable, whatever
\* the containers listed: the verdict of AssessPorts presses through MostPressing.
THEOREM UnreadNeverFine ==
  ASSUME "declared unread" \notin Divergences
  PROVE  Spec => []UnreadIsNeverFine
<1> DEFINE IInv == Typed /\ UnreadTold
<1>1. Init => IInv
  BY InitTyped DEF Init, Admitted, UnreadTold, Compared
<1>2. IInv /\ [Next]_vars => IInv'
  BY TypedStep, UnreadStep
<1>3. IInv => UnreadIsNeverFine
  BY DEF UnreadTold, UnreadIsNeverFine
<1> HIDE DEF IInv
<1>4. QED
  BY <1>1, <1>2, <1>3, PTL DEF Spec

-----------------------------------------------------------------------------
(***************************************************************************)
(* The change list's action is what `up` does.                             *)
(***************************************************************************)

\* The same container, but for its state and the ports it publishes.
Match(c, d) ==
  /\ d.labelled = c.labelled /\ d.project = c.project /\ d.service = c.service /\ d.dir = c.dir
  /\ d.oneOff = c.oneOff /\ d.hash = c.hash /\ d.network = c.network /\ d.expose = c.expose /\ d.new = c.new

\* Two containers match when they differ in state and publishes alone.
LEMMA MatchIs ==
  ASSUME NEW c, IsContainer(c), NEW d, IsContainer(d)
  PROVE  d = In(c, d.state, d.publishes) <=> Match(c, d)
<1>1. In(c, d.state, d.publishes) =
        [labelled |-> c.labelled, project |-> c.project, service |-> c.service, dir |-> c.dir,
         oneOff |-> c.oneOff, hash |-> c.hash, state |-> d.state, network |-> c.network,
         publishes |-> d.publishes, expose |-> c.expose, new |-> c.new]
  BY InRecord
<1>2. d = [labelled |-> d.labelled, project |-> d.project, service |-> d.service, dir |-> d.dir,
           oneOff |-> d.oneOff, hash |-> d.hash, state |-> d.state, network |-> d.network,
           publishes |-> d.publishes, expose |-> d.expose, new |-> d.new]
  BY DEF IsContainer
<1>3. ASSUME d = In(c, d.state, d.publishes) PROVE Match(c, d)
  BY <1>1, <1>3 DEF Match
<1>4. ASSUME Match(c, d) PROVE d = In(c, d.state, d.publishes)
  BY <1>1, <1>2, <1>4 DEF Match
<1>5. QED
  BY <1>3, <1>4

\* It is there, in whatever state.
Stays(c) == \E d \in containers : ~d.new /\ Match(c, d)

\* `up`, as far as it has come, leaves the container: it is not Compose's, or its service's
\* turn has not come or Compose keeps it, or it is an orphan that `up` does not remove.
Survives(c) ==
  \/ ~Composed(c)
  \/ IF c.service \in plan.services THEN up[c.service] = "pending" \/ Kept(c) ELSE ~plan.removeOrphans

\* While nothing has exited: the listed containers are there until `up` runs, and then
\* those that survive are.
FatesKnown ==
  ~lost =>
    /\ \A c \in listed : IsContainer(c) /\ ~c.new
    /\ phase \in {"ports", "list", "compare", "up"} => listed \subseteq containers /\ \A c \in containers : ~c.new
    /\ phase \in {"converge", "start"} => \A c \in listed : Stays(c) <=> Survives(c)

\* At first nothing is listed and nothing is new.
LEMMA InitFates == Init => FatesKnown
BY SituationsTyped DEF Init, FatesKnown

\* Of two that match, Compose does the same with both.
LEMMA MatchComposed ==
  ASSUME NEW c, NEW d, Match(c, d)
  PROVE  Composed(d) = Composed(c) /\ Kept(d) = Kept(c) /\ d.service = c.service
BY DEF Match, Composed, Kept

\* Each step of `up` does to a listed container what Survives says.
LEMMA FatesStep ==
  ASSUME Typed, FatesKnown, [Next]_vars
  PROVE  FatesKnown'
<1>1. plan' = plan /\ facts' = facts /\ Situation /\ Pace /\ IsPlan(plan)
      /\ (\A c \in containers : IsContainer(c))
      /\ up \in [plan.services -> {"pending", "converged", "running", "failed"}]
  BY HostStep DEF vars, Typed, TypeOK, Situation
<1>2. CASE lost'
  BY <1>2 DEF FatesKnown
<1> SUFFICES ASSUME ~lost' PROVE FatesKnown'
  BY <1>2
<1>3. \A c : Composed(c)' = Composed(c) /\ Kept(c)' = Kept(c)
  BY <1>1, ComposedStays
<1>4. CASE UNCHANGED vars
  BY <1>1, <1>3, <1>4 DEF vars, host, read, told, FatesKnown, Stays, Survives
<1>5. CASE ReadSockets \/ Compare \/ ListenerStarts
  BY <1>5 DEF ReadSockets, Compare, ListenerStarts, host, read, told, FatesKnown
<1>6. CASE ListContainers
  <2>1. listed' \in ReadOf(containers, facts.engine) /\ facts.engine \in {"complete", "partial", "failed", "absent"}
    BY <1>1, <1>6 DEF ListContainers, Situation, Facts
  <2>2. listed' \subseteq containers
    BY <2>1 DEF ReadOf
  <2>3. phase = "list" /\ phase' = "compare" /\ containers' = containers /\ ~lost
    BY <1>6 DEF ListContainers, host
  <2>4. QED
    BY <1>1, <2>2, <2>3 DEF FatesKnown
<1>7. CASE ListenerStops \/ ContainerExits
  BY <1>7 DEF ListenerStops, ContainerExits
<1>8. CASE RemoveOrphans
  <2>1. /\ containers' = {c \in containers : plan.removeOrphans => ~(Composed(c) /\ c.service \notin plan.services)}
        /\ phase = "up" /\ phase' = "converge" /\ listed' = listed /\ up' = up /\ ~lost
    BY <1>8 DEF RemoveOrphans, read
  <2>2. /\ listed \subseteq containers /\ (\A c \in containers : ~c.new)
        /\ \A s \in plan.services : up[s] = "pending"
    BY <1>1, <2>1 DEF FatesKnown, Pace
  <2>3. ASSUME NEW c \in listed PROVE Stays(c)' <=> Survives(c)'
    <3>1. Survives(c)' <=> ~Composed(c) \/ c.service \in plan.services \/ ~plan.removeOrphans
      BY <1>1, <1>3, <2>1, <2>2 DEF Survives
    <3>2. ASSUME Survives(c)' PROVE Stays(c)'
      <4>1. c \in containers' /\ ~c.new /\ Match(c, c)
        BY <2>1, <2>2, <2>3, <3>1, <3>2 DEF Match
      <4>2. QED
        BY <4>1 DEF Stays
    <3>3. ASSUME NEW d \in containers', Match(c, d) PROVE Survives(c)'
      BY <2>1, <3>1, <3>3, MatchComposed
    <3>4. QED
      BY <3>2, <3>3 DEF Stays
  <2>4. QED
    BY <2>1, <2>3 DEF FatesKnown
<1>9. ASSUME NEW s \in plan.services, Converge(s) PROVE FatesKnown'
  <2>1. /\ phase = "converge" /\ phase' \in {"converge", "start"} /\ listed' = listed /\ ~lost
        /\ up[s] = "pending" /\ up' = [up EXCEPT ![s] = "converged"]
    BY <1>9 DEF Converge, read
  <2>2. /\ \A c \in containers : c \in containers' \/ (Composed(c) /\ c.service = s /\ ~Kept(c))
        /\ \A c \in containers' : \/ c \in containers /\ ~(Composed(c) /\ c.service = s /\ ~Kept(c))
                                  \/ c = NewContainer(s)
    BY <1>9, ConvergeIs
  <2>3. NewContainer(s).new = TRUE
    BY <1>1, NewIs
  <2>4. ASSUME NEW c \in listed PROVE Stays(c)' <=> Survives(c)'
    <3>1. Stays(c) <=> Survives(c)
      BY <2>1, <2>4 DEF FatesKnown
    <3>2. Survives(c)' <=> Survives(c) /\ ~(Composed(c) /\ c.service = s /\ ~Kept(c))
      BY <1>1, <1>3, <2>1 DEF Survives
    <3>3. Stays(c)' <=> Stays(c) /\ ~(Composed(c) /\ c.service = s /\ ~Kept(c))
      <4>1. ASSUME NEW d \in containers', ~d.new, Match(c, d)
            PROVE  d \in containers /\ ~(Composed(c) /\ c.service = s /\ ~Kept(c))
        BY <2>2, <2>3, <4>1, MatchComposed
      <4>2. ASSUME NEW d \in containers, Match(c, d), ~(Composed(c) /\ c.service = s /\ ~Kept(c))
            PROVE  d \in containers'
        BY <2>2, <4>2, MatchComposed
      <4>3. QED
        BY <4>1, <4>2 DEF Stays
    <3>4. QED
      BY <3>1, <3>2, <3>3
  <2>5. QED
    BY <2>1, <2>4 DEF FatesKnown
<1>10. ASSUME NEW s \in plan.services, Start(s) PROVE FatesKnown'
  <2>1. phase = "start" /\ phase' = phase /\ listed' = listed /\ ~lost /\ up[s] = "converged"
    BY <1>10 DEF Start, read
  <2>2. PICK c \in containers :
           /\ Composed(c) /\ c.service = s
           /\ up' \in {[up EXCEPT ![s] = "running"], [up EXCEPT ![s] = "failed"]}
           /\ \/ containers' = containers
              \/ \E ms \in Choices(c) : containers' = (containers \ {c}) \cup {In(c, "running", ms)}
    BY <1>10, StartIs
  <2>3. ASSUME NEW b \in listed PROVE Survives(b)' <=> Survives(b)
    BY <1>1, <1>3, <2>1, <2>2 DEF Survives
  <2>4. ASSUME NEW b \in listed PROVE Stays(b)' <=> Stays(b)
    <3>1. CASE containers' = containers
      BY <3>1 DEF Stays
    <3>2. CASE \E ms \in Choices(c) : containers' = (containers \ {c}) \cup {In(c, "running", ms)}
      <4>1. PICK ms \in Choices(c) : containers' = (containers \ {c}) \cup {In(c, "running", ms)}
        BY <3>2
      <4> DEFINE e == In(c, "running", ms)
      <4>2. Match(c, e)
        BY <1>1, InRecord DEF Match
      <4>3. e \in containers' /\ (\A d \in containers' : d \in containers \/ d = e)
            /\ \A d \in containers : d \in containers' \/ d = c
        BY <4>1
      <4> HIDE DEF e
      <4>4. (Match(b, c) <=> Match(b, e)) /\ c.new = e.new
        BY <4>2 DEF Match
      <4>5. QED
        BY <4>3, <4>4 DEF Stays
    <3>3. QED
      BY <2>2, <3>1, <3>2
  <2>5. QED
    BY <2>1, <2>3, <2>4 DEF FatesKnown
<1>11. QED
  BY <1>4, <1>5, <1>6, <1>7, <1>8, <1>9, <1>10 DEF Next

\* What the change list calls kept or left survives; what it calls recreated or removed
\* does not: Compose compares the hashes that the tool compares.
LEMMA ActionTold ==
  ASSUME IsPlan(plan), NEW c, IsContainer(c), phase = "start", Pace
  PROVE  /\ Action(plan, c) \in {"kept", "left"} => Survives(c)
         /\ Action(plan, c) \in {"recreated", "removed"} => ~Survives(c)
<1>1. Composed(c) => c.project # None /\ c.labelled /\ c.service # None
  BY DEF Composed, IsPlan, IsContainer
<1>2. OwnerOf(plan, c) = "service" => Composed(c) /\ c.service \in plan.services /\ up[c.service] # "pending"
  BY <1>1 DEF OwnerOf, SameProject, PlannedService, Composed, Pace, IsContainer
<1>3. OwnerOf(plan, c) = "orphan" => Composed(c) /\ c.service \notin plan.services
  BY <1>1 DEF OwnerOf, SameProject, PlannedService, Composed, IsContainer
<1>4. OwnerOf(plan, c) \notin {"service", "orphan", "other-checkout"} => ~Composed(c)
  BY <1>1 DEF OwnerOf, SameProject, PlannedService, Composed, IsContainer
<1>5. OwnerOf(plan, c) = "service" => /\ ComposeAction(plan, c) = "kept" => Kept(c)
                                      /\ ComposeAction(plan, c) = "recreated" => ~Kept(c)
  BY <1>2 DEF ComposeAction, Kept, IsPlan
<1>6. ComposeAction(plan, c) \in {"kept", "recreated", "either"}
  BY DEF ComposeAction
<1>7. CASE OwnerOf(plan, c) = "service"
  BY <1>2, <1>5, <1>6, <1>7 DEF Action, Survives
<1>8. CASE OwnerOf(plan, c) = "orphan"
  BY <1>3, <1>8 DEF Action, Survives
<1>9. CASE OwnerOf(plan, c) \notin {"service", "orphan"}
  BY <1>4, <1>9 DEF Action, Survives
<1>10. QED
  BY <1>7, <1>8, <1>9

\* The action of the change list (Action, in the rows of changes.go) is what `up` does
\* with the container, unless something exited before.
THEOREM ActionsAreWhatUpDoes == Spec => []ActionIsWhatUpDoes
<1> DEFINE IInv == Typed /\ FatesKnown
<1>1. Init => IInv
  BY InitTyped, InitFates
<1>2. IInv /\ [Next]_vars => IInv'
  BY TypedStep, FatesStep
<1>3. IInv => ActionIsWhatUpDoes
  <2> SUFFICES ASSUME Typed, FatesKnown, phase = "start", ~lost, NEW c \in listed
               PROVE  LET action == Action(plan, Listing(c))
                          stays  == \E d \in containers : ~d.new /\ d = In(c, d.state, d.publishes)
                      IN  /\ action \in {"kept", "left"} => stays
                          /\ action \in {"recreated", "removed"} => ~stays
    BY DEF ActionIsWhatUpDoes
  <2>1. IsPlan(plan) /\ Pace /\ \A d \in containers : IsContainer(d)
    BY DEF Typed, Situation
  <2>2. IsContainer(c) /\ (Stays(c) <=> Survives(c))
    BY DEF FatesKnown
  <2>3. Action(plan, Listing(c)) = Action(plan, c)
    BY <2>2, ListingLabels DEF Action
  <2>4. (\E d \in containers : ~d.new /\ d = In(c, d.state, d.publishes)) <=> Stays(c)
    BY <2>1, <2>2, MatchIs DEF Stays
  <2>5. QED
    BY <2>1, <2>2, <2>3, <2>4, ActionTold
<1> HIDE DEF IInv
<1>4. QED
  BY <1>1, <1>2, <1>3, PTL DEF Spec

-----------------------------------------------------------------------------
(***************************************************************************)
(* A clear answer is real: what the rule sees of what holds a binding.     *)
(***************************************************************************)

\* A socket shows that the binding is taken.
Shows(k, e) ==
  LET b == SocketClaim(k)
  IN  /\ b.address \in Address /\ Readable(b) /\ b.port = e.port /\ b.protocol = e.protocol
      /\ \E only \in BOOLEAN : TrueOf(b, only) /\ e.address \in Takes(b, facts.on, only)

\* What a process holds, its socket shows.
LEMMA ListenerShown ==
  ASSUME Situation, NEW l \in listeners, NEW e \in ListenerTakes(l), ObservableProtocol(e.protocol)
  PROVE  \E k \in AllSockets : Shows(k, e)
<1> DEFINE k == ListenerSocket(l)
<1>1. facts \in Facts /\ l.address \in Address \ {Unnamed, Unreadable} /\ l.only \in BOOLEAN
  BY DEF Situation, Listening
<1>2. PICK a \in Takes(l, facts.on, l.only) :
        e = [protocol |-> BaseProtocol(l.protocol), port |-> l.port, address |-> a]
  BY DEF ListenerTakes, Endpoints
<1>3. /\ SocketClaim(k).address = l.address /\ SocketClaim(k).port = l.port
      /\ SocketClaim(k).protocol = BaseProtocol(l.protocol) /\ TrueOf(SocketClaim(k), l.only)
  BY <1>1, SocketIsTrue DEF ListenerSocket
<1>4. Takes(SocketClaim(k), facts.on, l.only) = Takes(l, facts.on, l.only)
  BY <1>3 DEF Takes
<1>5. Shows(k, e)
  BY <1>1, <1>2, <1>3, <1>4 DEF Shows, Readable
<1>6. k \in AllSockets
  <2>1. k.protocol = l.protocol
    BY DEF ListenerSocket, SocketAt
  <2>2. ObservableProtocol(BaseProtocol(k.protocol))
    BY <1>2, <2>1
  <2> HIDE DEF k
  <2>3. k \in {ListenerSocket(j) : j \in listeners}
    BY DEF k
  <2>4. QED
    BY <2>2, <2>3 DEF AllSockets
<1>7. QED
  BY <1>5, <1>6

\* One of the addresses that a publish is bound on takes each address that it takes.
LEMMA SomeEngineAddress ==
  ASSUME facts \in Facts, NEW n \in Mapping, n.address # Unreadable,
         NEW b, b.address = n.address, NEW x \in Takes(b, facts.on, TRUE)
  PROVE  \E a \in EngineAddresses(n) :
           /\ a \in Address \ {Unnamed, Unreadable}
           /\ \A d : d.address = a => x \in Takes(d, facts.on, TRUE)
<1>1. n.address \in Address /\ facts.on \in BOOLEAN
  BY DEF Mapping, Facts
<1>2. CASE n.address # Unnamed
  BY <1>1, <1>2 DEF EngineAddresses, Takes
<1>3. CASE n.address = Unnamed /\ x \in Addr4
  BY <1>1, <1>3 DEF EngineAddresses, Takes, Address, Literals, Unnamed, AnyAddress, Wildcard4, Wildcard6, Unreadable
<1>4. CASE n.address = Unnamed /\ x \notin Addr4
  <2>1. facts.on /\ x \in Addr6
    BY <1>1, <1>4 DEF Takes, HostAddr, Unnamed, AnyAddress, Wildcard4, Wildcard6
  <2>2. QED
    BY <1>1, <1>4, <2>1 DEF EngineAddresses, Takes, Address, Literals, Unnamed, AnyAddress, Wildcard4, Wildcard6, Unreadable
<1>5. QED
  BY <1>2, <1>3, <1>4

\* What a container on a bridge holds is of one of its publishes.
LEMMA TakesOfPublish ==
  ASSUME NEW c, c.state = "running", c.network # "host", NEW e \in ContainerTakes(c)
  PROVE  \E n \in c.publishes : \E q \in HostPorts(n) : \E x \in Takes(MappingClaim(n, q), facts.on, TRUE) :
           e = [protocol |-> BaseProtocol(n.protocol), port |-> q, address |-> x]
<1>1. PICK n \in c.publishes : e \in PublishTakes(n)
  BY DEF ContainerTakes
<1>2. PICK q \in HostPorts(n) : e \in Endpoints(n.protocol, q, Takes(MappingClaim(n, q), facts.on, TRUE))
  BY <1>1 DEF PublishTakes
<1>3. \E x \in Takes(MappingClaim(n, q), facts.on, TRUE) :
        e = [protocol |-> BaseProtocol(n.protocol), port |-> q, address |-> x]
  BY <1>2 DEF Endpoints
<1>4. QED
  BY <1>3

\* What an application on the host's network stack holds is of a port that it declares.
LEMMA TakesOfDeclared ==
  ASSUME NEW c, NEW e \in Listens(c)
  PROVE  \E d \in DeclaredPorts(c) : \E x \in IF facts.on THEN HostAddr ELSE Addr4 :
           e = [protocol |-> BaseProtocol(d.protocol), port |-> d.port, address |-> x]
<1>1. PICK d \in DeclaredPorts(c) : e \in Endpoints(d.protocol, d.port, Takes([address |-> Unnamed], facts.on, FALSE))
  BY DEF Listens
<1>2. PICK x \in Takes([address |-> Unnamed], facts.on, FALSE) :
        e = [protocol |-> BaseProtocol(d.protocol), port |-> d.port, address |-> x]
  BY <1>1 DEF Endpoints
<1>3. x \in IF facts.on THEN HostAddr ELSE Addr4
  BY <1>2 DEF Takes, Unnamed, AnyAddress, Wildcard4, Wildcard6
<1>4. QED
  BY <1>2, <1>3

\* What a container holds, a socket of its own or of docker-proxy shows.
LEMMA ContainerShown ==
  ASSUME Situation, NEW c \in containers, NEW e \in ContainerTakes(c), ObservableProtocol(e.protocol)
  PROVE  \E k \in AllSockets : Shows(k, e)
<1>1. facts \in Facts /\ IsContainer(c) /\ c.state = "running" /\ c.network \in {"bridge", "host"}
  BY DEF Situation, IsContainer, IsService, ContainerTakes
<1>2. SUFFICES \E k \in ContainerSockets(c) : BaseProtocol(k.protocol) = e.protocol /\ Shows(k, e)
  <2>1. PICK k \in ContainerSockets(c) : BaseProtocol(k.protocol) = e.protocol /\ Shows(k, e)
    BY <1>2
  <2>2. k \in UNION {ContainerSockets(d) : d \in containers}
    BY <2>1
  <2>3. k \in AllSockets
    BY <2>1, <2>2 DEF AllSockets
  <2>4. QED
    BY <2>1, <2>3
<1>3. CASE c.network = "host"
  <2>1. ContainerTakes(c) = Listens(c)
    BY <1>1, <1>3 DEF ContainerTakes
  <2>2. PICK d \in DeclaredPorts(c) : \E x \in IF facts.on THEN HostAddr ELSE Addr4 :
           e = [protocol |-> BaseProtocol(d.protocol), port |-> d.port, address |-> x]
    BY <2>1, TakesOfDeclared
  <2>3. PICK x \in IF facts.on THEN HostAddr ELSE Addr4 :
           e = [protocol |-> BaseProtocol(d.protocol), port |-> d.port, address |-> x]
    BY <2>2
  <2> DEFINE at == IF facts.on THEN Wildcard6 ELSE Wildcard4
             k  == OwnSocket(d)
  <2>4. at \in Address \ {Unnamed, Unreadable}
    BY DEF Address, Literals, Wildcard6, Wildcard4, Unnamed, Unreadable
  <2>5. /\ SocketClaim(k).address = at /\ SocketClaim(k).port = d.port
        /\ SocketClaim(k).protocol = BaseProtocol(d.protocol) /\ TrueOf(SocketClaim(k), FALSE)
        /\ k.protocol = d.protocol
    BY <2>4 DEF OwnSocket, SocketAt, SocketClaim, TrueOf, V6OnlyRead
  <2>6. x \in Takes(SocketClaim(k), facts.on, FALSE)
    BY <2>3, <2>5 DEF Takes, Unnamed, AnyAddress, Wildcard4, Wildcard6
  <2>7. Shows(k, e)
    BY <2>3, <2>4, <2>5, <2>6 DEF Shows, Readable
  <2>8. k \in ContainerSockets(c)
    BY <1>1, <1>3 DEF ContainerSockets
  <2>9. QED
    BY <2>3, <2>5, <2>7, <2>8
<1>4. CASE c.network = "bridge"
  <2>1. PICK n \in c.publishes : \E q \in HostPorts(n) : \E x \in Takes(MappingClaim(n, q), facts.on, TRUE) :
           e = [protocol |-> BaseProtocol(n.protocol), port |-> q, address |-> x]
    BY <1>1, <1>4, TakesOfPublish
  <2>2. PICK q \in HostPorts(n) : \E x \in Takes(MappingClaim(n, q), facts.on, TRUE) :
           e = [protocol |-> BaseProtocol(n.protocol), port |-> q, address |-> x]
    BY <2>1
  <2>3. PICK x \in Takes(MappingClaim(n, q), facts.on, TRUE) :
           e = [protocol |-> BaseProtocol(n.protocol), port |-> q, address |-> x]
    BY <2>2
  <2>4. n \in Mapping /\ n.address # Unreadable /\ MappingClaim(n, q).address = n.address
    BY <1>1, <1>4 DEF IsContainer, IsService, MappingClaim
  <2>5. PICK a \in EngineAddresses(n) :
           /\ a \in Address \ {Unnamed, Unreadable}
           /\ \A d : d.address = a => x \in Takes(d, facts.on, TRUE)
    BY <1>1, <2>4, SomeEngineAddress
  <2> DEFINE k == ProxySocket(n, q, a)
  <2>6. /\ SocketClaim(k).address = a /\ SocketClaim(k).port = q
        /\ SocketClaim(k).protocol = BaseProtocol(n.protocol) /\ TrueOf(SocketClaim(k), TRUE)
        /\ k.protocol = n.protocol
    BY <2>5 DEF ProxySocket, SocketAt, SocketClaim, TrueOf, V6OnlyRead
  <2>7. Shows(k, e)
    BY <2>3, <2>5, <2>6 DEF Shows, Readable
  <2>8. k \in ContainerSockets(c)
    <3>1. k \in {ProxySocket(n, p, a) : p \in HostPorts(n)}
      OBVIOUS
    <3> HIDE DEF k
    <3>2. k \in ProxySockets(n)
      BY <3>1 DEF ProxySockets
    <3>3. QED
      BY <1>1, <1>4, <3>2 DEF ContainerSockets
  <2>9. QED
    BY <2>3, <2>6, <2>7, <2>8
<1>5. QED
  BY <1>1, <1>3, <1>4

\* A claim on a binding that a socket shows to be taken: the two may collide.
LEMMA ShownCollides ==
  ASSUME facts \in Facts, NEW want, want.address \in Address, NEW k, NEW e, Shows(k, e),
         want.port = e.port, want.protocol = e.protocol, NEW o \in BOOLEAN, TrueOf(want, o),
         Readable(want) => e.address \in Takes(want, facts.on, o)
  PROVE  Collides(Seen, want, SocketClaim(k)) # "none"
<1> DEFINE b == SocketClaim(k)
<1>1. b.address \in Address /\ Readable(b) /\ b.port = e.port /\ b.protocol = e.protocol
  BY DEF Shows
<1>2. PICK only \in BOOLEAN : TrueOf(b, only) /\ e.address \in Takes(b, facts.on, only)
  BY DEF Shows
<1>3. Seen \in IPv6Seen /\ Truthful(Seen, facts.on) /\ facts.on \in BOOLEAN
  BY SeenIsTrue
<1> HIDE DEF b
<1>4. CASE ~Readable(want)
  BY <1>1, <1>4 DEF Collides, b
<1>5. CASE Readable(want)
  <2>1. e.address \in Takes(want, facts.on, o) \cap Takes(b, facts.on, only)
    BY <1>2, <1>5
  <2>2. Collides(Seen, want, b) # "none"
    BY <1>1, <1>2, <1>3, <1>5, <2>1, CollidesNone
  <2>3. QED
    BY <2>2 DEF b
<1>6. QED
  BY <1>4, <1>5

\* What is wanted of one host port of a publish.
LEMMA BindingIs ==
  ASSUME facts \in Facts, NEW m \in Mapping, NEW p, NEW e \in Binding(m, p)
  PROVE  /\ e.protocol = BaseProtocol(m.protocol) /\ e.port = p
         /\ Readable(MappingClaim(m, p)) => e.address \in Takes(MappingClaim(m, p), facts.on, TRUE)
<1>1. PICK x \in Takes(MappingClaim(Real(m), p), facts.on, TRUE) :
        e = [protocol |-> BaseProtocol(m.protocol), port |-> p, address |-> x]
  BY DEF Binding, Endpoints
<1>2. Readable(MappingClaim(m, p)) => Real(m) = m
  BY ClaimIs
<1>3. QED
  BY <1>1, <1>2

\* A listed container that holds part of a wanted binding: the two may overlap.
LEMMA HoldsOverlaps ==
  ASSUME Situation, NEW c \in containers, c.network = "bridge", NEW m \in Mapping, NEW p,
         NEW e \in Binding(m, p), e \in ContainerTakes(c)
  PROVE  OverlapOf(MappingClaim(m, p), c) # "none"
<1>1. facts \in Facts /\ IsContainer(c) /\ c.state = "running"
  BY DEF Situation, ContainerTakes
<1> DEFINE want == MappingClaim(m, p)
<1>2. /\ want.address \in Address /\ TrueOf(want, TRUE)
      /\ want.port = e.port /\ want.protocol = e.protocol
      /\ Readable(want) => e.address \in Takes(want, facts.on, TRUE)
  <2>1. /\ want.address \in Address /\ TrueOf(want, TRUE)
        /\ want.port = p /\ want.protocol = BaseProtocol(m.protocol)
    BY <1>1, ClaimIs
  <2>2. /\ e.protocol = BaseProtocol(m.protocol) /\ e.port = p
        /\ Readable(want) => e.address \in Takes(want, facts.on, TRUE)
    BY <1>1, BindingIs
  <2> HIDE DEF want
  <2>3. QED
    BY <2>1, <2>2
<1>3. PICK n \in c.publishes : \E q \in HostPorts(n) : \E x \in Takes(MappingClaim(n, q), facts.on, TRUE) :
         e = [protocol |-> BaseProtocol(n.protocol), port |-> q, address |-> x]
  BY <1>1, TakesOfPublish
<1>4. PICK q \in HostPorts(n) : \E x \in Takes(MappingClaim(n, q), facts.on, TRUE) :
         e = [protocol |-> BaseProtocol(n.protocol), port |-> q, address |-> x]
  BY <1>3
<1>5. PICK x \in Takes(MappingClaim(n, q), facts.on, TRUE) :
         e = [protocol |-> BaseProtocol(n.protocol), port |-> q, address |-> x]
  BY <1>4
<1>6. n \in Mapping /\ n.address # Unreadable /\ MappingClaim(n, q).address = n.address
  BY <1>1 DEF IsContainer, IsService, MappingClaim
<1>7. PICK a \in EngineAddresses(n) :
         /\ a \in Address \ {Unnamed, Unreadable}
         /\ \A d : d.address = a => x \in Takes(d, facts.on, TRUE)
  BY <1>1, <1>6, SomeEngineAddress
<1> DEFINE k == [n EXCEPT !.address = a]
<1>8. k \in Listing(c).publishes
  BY <1>1 DEF Listing, IsContainer
<1>9. /\ k.address = a /\ k.protocol = n.protocol
      /\ k.hostPort = n.hostPort /\ k.hostPortEnd = n.hostPortEnd
  BY <1>6 DEF Mapping
<1> HIDE DEF k
<1>10. q \in HostPorts(k)
  BY <1>9 DEF HostPorts
<1> DEFINE held == MappingClaim(k, q)
<1>11. /\ held.address = a /\ held.port = q /\ held.protocol = BaseProtocol(n.protocol) /\ TrueOf(held, TRUE)
  BY <1>9 DEF MappingClaim, TrueOf
<1>12. x \in Takes(held, facts.on, TRUE)
  BY <1>7, <1>11
<1>13. Seen \in IPv6Seen /\ Truthful(Seen, facts.on) /\ facts.on \in BOOLEAN
  BY <1>1, SeenIsTrue
<1> HIDE DEF want, held
<1>14. Collides(Seen, want, held) # "none"
  <2>1. CASE ~Readable(want)
    BY <1>2, <1>5, <1>11, <2>1 DEF Collides
  <2>2. CASE Readable(want)
    <3>1. x \in Takes(want, facts.on, TRUE) \cap Takes(held, facts.on, TRUE)
      BY <1>2, <1>5, <1>12, <2>2
    <3>2. Readable(held) /\ held.address \in Address
      BY <1>7, <1>11 DEF Readable
    <3>3. want.port = held.port /\ want.protocol = held.protocol
      BY <1>2, <1>5, <1>11
    <3>4. PICK o \in BOOLEAN : o
      OBVIOUS
    <3>5. /\ TrueOf(want, o) /\ TrueOf(held, o)
          /\ Takes(want, facts.on, o) \cap Takes(held, facts.on, o) # {}
      BY <1>2, <1>11, <3>1, <3>4
    <3>6. QED
      BY <1>2, <1>13, <2>2, <3>2, <3>3, <3>5, CollidesNone
  <2>3. QED
    BY <2>1, <2>2
<1>15. RuleInput({}, {}).ipv6 = Seen
  BY <1>1, SeenIsTrue
<1>16. Collides(Seen, want, held) \in {"yes", "none", "unknown"}
  BY DEF Collides, Worst
<1>17. QED
  BY <1>8, <1>10, <1>14, <1>15, <1>16 DEF OverlapOf, ContainerOverlap, Worst, want, held

-----------------------------------------------------------------------------

\* Whether `up` removes the container, or it is of a planned service.
Goes(c) == Composed(c) /\ (c.service \in plan.services \/ plan.removeOrphans)

\* Held by a process, or by a container that `up` leaves alone.
Blocks(e) == \/ \E l \in listeners : e \in ListenerTakes(l)
             \/ \E c \in containers : ~Goes(c) /\ e \in ContainerTakes(c)

\* Of the containers in X that the plan releases, one that may hold a wanted binding is
\* alone: no process holds a wanted binding, nor does a container that the engine may
\* not show to, and whether another holds it too is decided.
Lone(X) ==
  \A s \in plan.services : \A m \in plan.svc[s].publishes : \A p \in HostPorts(m) : \A x \in X :
    Released(plan, x) /\ OverlapOf(MappingClaim(m, p), x) # "none" =>
      /\ \A l \in listeners : ListenerTakes(l) \cap Wanted = {}
      /\ \A d \in containers : ~Released(plan, d) =>
           /\ facts.engine = "partial" \/ d.network = "host" => ContainerTakes(d) \cap Wanted = {}
           /\ OverlapOf(MappingClaim(m, p), d) # "unknown"

\* The sockets and containers compared are all that there are, as far as the engine
\* tells, and of what it listed nothing is misjudged.
ReadAll(S, C) ==
  /\ AllSockets \subseteq S
  /\ facts.engine = "complete" => \A c \in containers : c.state = "running" => c \in C
  /\ facts.engine \in {"failed", "absent"} => C = {}
  /\ facts.engine = "absent" => containers = {}
  /\ \A x \in C : IsContainer(x)
  /\ Lone(containers \cup C) /\ ~LeftRunning

\* What the plan releases, and `up` does not remove or replace, is of a service that the
\* plan does not start.
LEMMA ReleasedGoes ==
  ASSUME IsPlan(plan), ~LeftRunning, NEW c \in containers, IsContainer(c), Released(plan, c)
  PROVE  Goes(c)
BY DEF IsPlan, IsContainer, LeftRunning, Goes, Composed, Released, OwnerOf, SameProject

\* A wanted binding without a holder, or held by the deployment's own container alone, is
\* free of what stays.
LEMMA ClearPortIsFree ==
  ASSUME Situation, NEW S, NEW C, ReadAll(S, C),
         NEW s \in plan.services, plan.svc[s].network = "bridge",
         NEW m \in plan.svc[s].publishes, NEW p \in HostPorts(m), ObservableProtocol(BaseProtocol(m.protocol)),
         NEW H, H = PortHolders(RuleInput(S, C), MappingClaim(m, p)),
         H # {} => OwnHolder(RuleInput(S, C), H) /\ ~Blocked(RuleInput(S, C), H)
  PROVE  \A e \in Binding(m, p) : ~Blocks(e)
<1> DEFINE in == RuleInput(S, C)
           want == MappingClaim(m, p)
<1>1. /\ facts \in Facts /\ IsPlan(plan) /\ (\A c \in containers : IsContainer(c)) /\ (\A x \in C : IsContainer(x))
      /\ m \in Mapping /\ Binding(m, p) \subseteq Wants(s)
  BY BindingWanted DEF Situation, ReadAll
<1>2. /\ in.plan = plan /\ in.sockets = S /\ in.containers = {Listing(c) : c \in C} /\ in.ipv6 = Seen
      /\ \A w, c : ContainerOverlap(in, w, Listing(c)) = OverlapOf(w, c)
  BY <1>1, InputIs
<1>3. SUFFICES ASSUME NEW e \in Binding(m, p), Blocks(e) PROVE FALSE
  OBVIOUS
<1>4. e \in Wanted /\ ObservableProtocol(e.protocol)
  BY <1>1, BindingIs DEF Wanted
<1>5. ASSUME NEW k \in AllSockets, Shows(k, e)
      PROVE  \E x \in C : Released(plan, x) /\ OverlapOf(want, x) # "none"
  <2>1. /\ want.address \in Address /\ want.port = e.port /\ want.protocol = e.protocol /\ TrueOf(want, TRUE)
        /\ Readable(want) => e.address \in Takes(want, facts.on, TRUE)
    <3>1. /\ want.address \in Address /\ TrueOf(want, TRUE)
          /\ want.port = p /\ want.protocol = BaseProtocol(m.protocol)
      BY <1>1, ClaimIs
    <3>2. /\ e.protocol = BaseProtocol(m.protocol) /\ e.port = p
          /\ Readable(want) => e.address \in Takes(want, facts.on, TRUE)
      BY <1>1, BindingIs
    <3> HIDE DEF want
    <3>3. QED
      BY <3>1, <3>2
  <2> HIDE DEF want
  <2>2. Collides(Seen, want, SocketClaim(k)) # "none"
    BY <1>1, <1>5, <2>1, ShownCollides
  <2>3. k \in S
    BY <1>5 DEF ReadAll
  <2>4. H # {}
    BY <1>2, <2>2, <2>3, HolderSocket DEF want
  <2>5. PICK h \in H : ~h.isSocket /\ Released(plan, h.by)
    BY <1>2, <2>4 DEF OwnHolder
  <2>6. h.by \in in.containers /\ ContainerOverlap(in, want, h.by) # "none"
    BY <2>5, HoldersAre DEF want
  <2>7. PICK x \in C : h.by = Listing(x)
    BY <1>2, <2>6
  <2>8. QED
    BY <1>1, <1>2, <2>5, <2>6, <2>7, ListingLabels
<1>6. CASE \E l \in listeners : e \in ListenerTakes(l)
  <2>1. PICK l \in listeners : e \in ListenerTakes(l)
    BY <1>6
  <2>2. PICK k \in AllSockets : Shows(k, e)
    BY <1>4, <2>1, ListenerShown
  <2>3. PICK x \in C : Released(plan, x) /\ OverlapOf(want, x) # "none"
    BY <1>5, <2>2
  <2>4. ListenerTakes(l) \cap Wanted = {}
    BY <2>3 DEF ReadAll, Lone
  <2>5. QED
    BY <1>4, <2>1, <2>4
<1>7. CASE \E c \in containers : ~Goes(c) /\ e \in ContainerTakes(c)
  <2>1. PICK c \in containers : ~Goes(c) /\ e \in ContainerTakes(c)
    BY <1>7
  <2>2. c.state = "running" /\ ~Released(plan, c) /\ c.network \in {"bridge", "host"} /\ IsContainer(c)
    BY <1>1, <2>1, ReleasedGoes DEF ContainerTakes, ReadAll, IsContainer, IsService
  <2>3. PICK k \in AllSockets : Shows(k, e)
    BY <1>4, <2>1, ContainerShown
  <2>4. PICK x \in C : Released(plan, x) /\ OverlapOf(want, x) # "none"
    BY <1>5, <2>3
  <2>5. /\ facts.engine = "partial" \/ c.network = "host" => ContainerTakes(c) \cap Wanted = {}
        /\ OverlapOf(want, c) # "unknown"
    BY <2>2, <2>4 DEF ReadAll, Lone
  <2>6. facts.engine = "complete" /\ c.network = "bridge"
    <3>1. facts.engine \in {"complete", "partial", "failed", "absent"}
      BY <1>1 DEF Facts
    <3>2. C # {}
      BY <2>4
    <3>3. QED
      BY <1>4, <2>1, <2>2, <2>5, <3>1, <3>2 DEF ReadAll
  <2>7. c \in C
    BY <2>2, <2>6 DEF ReadAll
  <2>8. OverlapOf(want, c) = "yes"
    <3>1. OverlapOf(want, c) # "none"
      BY <1>1, <2>1, <2>6, HoldsOverlaps
    <3>2. OverlapOf(want, c) \in {"yes", "none", "unknown"}
      BY DEF OverlapOf, ContainerOverlap, Worst
    <3>3. QED
      BY <2>5, <3>1, <3>2
  <2> DEFINE h == [isSocket |-> FALSE, by |-> Listing(c), overlap |-> ContainerOverlap(in, want, Listing(c))]
  <2> HIDE DEF want
  <2>9. h \in H /\ h.overlap = "yes"
    BY <1>2, <2>7, <2>8, HolderContainer DEF want
  <2>10. ~h.isSocket /\ ~Released(plan, h.by)
    BY <2>2, ListingLabels
  <2> HIDE DEF h
  <2>11. Blocked(in, H)
    BY <1>2, <2>9, <2>10 DEF Blocked, CertainHolders, ForeignContainer
  <2>12. QED
    BY <2>9, <2>11
<1>8. QED
  BY <1>3, <1>6, <1>7 DEF Blocks

\* What a service needs of the host is free of what stays: every binding it makes on the
\* host's network stack, every port that it publishes, one of a range to choose from.
Free(s) ==
  IF plan.svc[s].network = "host" THEN \A e \in Listens(plan.svc[s]) : ~Blocks(e)
  ELSE \A m \in plan.svc[s].publishes :
         IF Dynamic(m) THEN \E p \in HostPorts(m) : \A e \in Binding(m, p) : ~Blocks(e)
         ELSE \A p \in HostPorts(m) : \A e \in Binding(m, p) : ~Blocks(e)

\* Nothing is said about the service but that there is no problem.
Clear(fs, s) == \A f \in fs : f.service = s => f.outcome = "no-problem"

\* A finding about a service with a conflict, or a check left to a person, is not clear.
LEMMA FindingIs ==
  \A s, port, o, v : /\ Finding(s, port, o, v).service = s /\ Finding(s, port, o, v).outcome = o
BY DEF Finding

\* The rule's findings about a service are its findings about its publishes.
LEMMA ServiceFindings ==
  ASSUME NEW in, NEW s \in in.plan.services
  PROVE  /\ in.plan.svc[s].network = "host" => HostNetworkPorts(in, s) \subseteq PortConflicts(in)
         /\ in.plan.svc[s].network # "host" =>
              \A m \in in.plan.svc[s].publishes :
                 (IF Dynamic(m) THEN DynamicRange(in, s, m) ELSE StaticPorts(in, s, m)) \subseteq PortConflicts(in)
<1> DEFINE Of(t) == IF in.plan.svc[t].network = "host" THEN HostNetworkPorts(in, t)
                    ELSE UNION {IF Dynamic(m) THEN DynamicRange(in, t, m) ELSE StaticPorts(in, t, m) :
                                  m \in in.plan.svc[t].publishes}
<1>1. PortConflicts(in) = UNION {Of(t) : t \in in.plan.services}
  BY DEF PortConflicts
<1>2. Of(s) \subseteq PortConflicts(in)
  <2> HIDE DEF Of
  <2>1. QED
    BY <1>1
<1>3. CASE in.plan.svc[s].network = "host"
  BY <1>2, <1>3
<1>4. CASE in.plan.svc[s].network # "host"
  <2>1. ASSUME NEW m \in in.plan.svc[s].publishes
        PROVE  (IF Dynamic(m) THEN DynamicRange(in, s, m) ELSE StaticPorts(in, s, m)) \subseteq Of(s)
    BY <1>4
  <2> HIDE DEF Of
  <2>2. QED
    BY <1>2, <1>4, <2>1
<1>5. QED
  BY <1>3, <1>4

\* A clear service on the host's network stack finds what it declares free.
LEMMA ClearHostIsFree ==
  ASSUME Situation, ~UnobservableHeld, NEW S, NEW C, AllSockets \subseteq S,
         NEW s \in plan.services, plan.svc[s].network = "host",
         \A f \in HostNetworkPorts(RuleInput(S, C), s) : f.service = s => f.outcome = "no-problem"
  PROVE  \A e \in Listens(plan.svc[s]) : ~Blocks(e)
<1> DEFINE in == RuleInput(S, C)
           svc == plan.svc[s]
           Want(d) == [protocol |-> d.protocol, port |-> d.port, address |-> Unnamed, v6only |-> ""]
<1>1. facts \in Facts /\ svc.publishes \subseteq Mapping /\ svc.expose \subseteq Nat
  BY DEF Situation, IsPlan, IsService
<1>2. in.plan = plan /\ in.sockets = S /\ in.ipv6 = Seen
  BY <1>1, InputIs
<1>3. SUFFICES ASSUME NEW e \in Listens(svc), Blocks(e) PROVE FALSE
  OBVIOUS
<1>4. PICK d \in DeclaredPorts(svc) : \E x \in IF facts.on THEN HostAddr ELSE Addr4 :
        e = [protocol |-> BaseProtocol(d.protocol), port |-> d.port, address |-> x]
  BY TakesOfDeclared
<1>5. PICK x \in IF facts.on THEN HostAddr ELSE Addr4 :
        e = [protocol |-> BaseProtocol(d.protocol), port |-> d.port, address |-> x]
  BY <1>4
<1>6. d.protocol = e.protocol /\ d.port = e.port /\ BaseProtocol(d.protocol) = d.protocol
  BY <1>1, <1>5, DeclaredBase
<1>7. ObservableProtocol(e.protocol)
  <2>1. e \in Held
    BY <1>3 DEF Blocks, Held
  <2>2. e \in Wants(s)
    BY HostWants
  <2>3. QED
    BY <2>1, <2>2 DEF UnobservableHeld
<1>8. PICK k \in AllSockets : Shows(k, e)
  BY <1>3, <1>7, ListenerShown, ContainerShown DEF Blocks
<1>9. Collides(Seen, Want(d), SocketClaim(k)) # "none"
  <2> DEFINE want == Want(d)
  <2>1. /\ want.address = Unnamed /\ want.port = e.port /\ want.protocol = e.protocol /\ want.v6only = ""
    BY <1>6
  <2> HIDE DEF want
  <2>2. want.address \in Address /\ (\A o \in BOOLEAN : TrueOf(want, o))
    BY <2>1 DEF Address, Literals, TrueOf
  <2>3. \A o \in BOOLEAN : e.address \in Takes(want, facts.on, o)
    BY <1>5, <2>1 DEF Takes, Unnamed, AnyAddress, Wildcard4, Wildcard6
  <2>4. PICK o \in BOOLEAN : o
    OBVIOUS
  <2>5. Collides(Seen, want, SocketClaim(k)) # "none"
    BY <1>1, <1>8, <2>1, <2>2, <2>3, <2>4, ShownCollides
  <2>6. QED
    BY <2>5 DEF want
<1>10. k \in S /\ DeclaredPorts(svc) # {} /\ ObservableProtocol(d.protocol)
  BY <1>6, <1>7, <1>8
<1>11. SocketHolders(in, Want(d)) # {}
  <2> DEFINE want == Want(d)
  <2>1. k \in in.sockets /\ Collides(in.ipv6, want, SocketClaim(k)) # "none"
    BY <1>2, <1>9, <1>10
  <2> HIDE DEF in, want
  <2>2. [isSocket |-> TRUE, by |-> k, overlap |-> Collides(in.ipv6, want, SocketClaim(k))] \in SocketHolders(in, want)
    BY <2>1 DEF SocketHolders
  <2>3. QED
    BY <2>2 DEF want
<1> HIDE DEF Want, in
<1>12. \E f \in HostNetworkPorts(in, s) : f.service = s /\ f.outcome # "no-problem"
  <2>1. \E f \in HostNetworkPorts(in, s) :
          f \in {Finding(s, d.port, "problem", "blocker"), Finding(s, d.port, "unknown", "warning")}
    BY <1>2, <1>10, <1>11 DEF HostNetworkPorts, Want
  <2>2. QED
    BY <2>1, FindingIs
<1>13. QED
  BY <1>12 DEF in

\* A clear service finds what it needs free of what stays.
LEMMA ClearIsFree ==
  ASSUME Situation, ~UnobservableHeld, ~facts.portsUnchecked, NEW S, NEW C, ReadAll(S, C),
         NEW s \in plan.services, Clear(PortConflicts(RuleInput(S, C)), s)
  PROVE  Free(s)
<1> DEFINE in == RuleInput(S, C)
<1>1. facts \in Facts /\ plan.svc[s].network \in {"bridge", "host"} /\ plan.svc[s].publishes \subseteq Mapping
  BY DEF Situation, IsPlan, IsService
<1>2. in.plan = plan /\ in.portsUnchecked = facts.portsUnchecked
  BY <1>1, InputIs
<1>3. /\ plan.svc[s].network = "host" => HostNetworkPorts(in, s) \subseteq PortConflicts(in)
      /\ plan.svc[s].network # "host" =>
           \A m \in plan.svc[s].publishes :
              (IF Dynamic(m) THEN DynamicRange(in, s, m) ELSE StaticPorts(in, s, m)) \subseteq PortConflicts(in)
  BY <1>2, ServiceFindings
<1>4. CASE plan.svc[s].network = "host"
  <2>1. \A f \in HostNetworkPorts(in, s) : f.service = s => f.outcome = "no-problem"
    BY <1>3, <1>4 DEF Clear
  <2>2. QED
    BY <1>4, <2>1, ClearHostIsFree DEF Free, ReadAll
<1>5. CASE plan.svc[s].network = "bridge"
  <2> SUFFICES ASSUME NEW m \in plan.svc[s].publishes
               PROVE  IF Dynamic(m) THEN \E p \in HostPorts(m) : \A e \in Binding(m, p) : ~Blocks(e)
                      ELSE \A p \in HostPorts(m) : \A e \in Binding(m, p) : ~Blocks(e)
    BY <1>5 DEF Free
  <2> DEFINE H(p) == PortHolders(in, MappingClaim(m, p))
  <2>1. ASSUME NEW p \in HostPorts(m), ObservableProtocol(BaseProtocol(m.protocol)),
               H(p) # {} => OwnHolder(in, H(p)) /\ ~Blocked(in, H(p))
        PROVE  \A e \in Binding(m, p) : ~Blocks(e)
    BY <1>5, <2>1, ClearPortIsFree
  <2> HIDE DEF in
  <2>2. CASE Dynamic(m)
    <3>1. \A f \in DynamicRange(in, s, m) : f.service = s => f.outcome = "no-problem"
      BY <1>3, <1>5, <2>2 DEF Clear, in
    <3>2. ObservableProtocol(BaseProtocol(m.protocol))
      <4>1. SUFFICES ASSUME ~ObservableProtocol(BaseProtocol(m.protocol)) PROVE FALSE
        OBVIOUS
      <4>2. UnobservableProtocol(s, m.hostPort) \in DynamicRange(in, s, m)
        BY <4>1 DEF DynamicRange
      <4>3. QED
        BY <3>1, <4>2, FindingIs DEF UnobservableProtocol
    <3>3. "free" \in {PortState(in, m, p) : p \in HostPorts(m)}
      <4>1. SUFFICES ASSUME "free" \notin {PortState(in, m, p) : p \in HostPorts(m)} PROVE FALSE
        OBVIOUS
      <4>2. \E f \in DynamicRange(in, s, m) :
              f \in {Finding(s, m.hostPort, "problem", "blocker"), Finding(s, m.hostPort, "unknown", "warning")}
        BY <3>2, <4>1 DEF DynamicRange
      <4>3. QED
        BY <3>1, <4>2, FindingIs
    <3>4. PICK p \in HostPorts(m) : PortState(in, m, p) = "free"
      BY <3>3
    <3>5. H(p) # {} => OwnHolder(in, H(p)) /\ ~Blocked(in, H(p))
      BY <3>2, <3>4 DEF PortState
    <3>6. QED
      BY <2>1, <2>2, <3>2, <3>5
  <2>3. CASE ~Dynamic(m)
    <3>1. \A f \in StaticPorts(in, s, m) : f.service = s => f.outcome = "no-problem"
      BY <1>3, <1>5, <2>3 DEF Clear, in
    <3>2. ASSUME NEW p \in HostPorts(m) PROVE \A e \in Binding(m, p) : ~Blocks(e)
      <4>1. ObservableProtocol(BaseProtocol(m.protocol))
        <5>1. SUFFICES ASSUME ~ObservableProtocol(BaseProtocol(m.protocol)) PROVE FALSE
          OBVIOUS
        <5>2. UnobservableProtocol(s, p) \in StaticPorts(in, s, m)
          BY <5>1 DEF StaticPorts
        <5>3. QED
          BY <3>1, <5>2, FindingIs DEF UnobservableProtocol
      <4>2. ASSUME H(p) # {} PROVE OwnHolder(in, H(p)) /\ ~Blocked(in, H(p))
        <5>1. PortConflictFinding(in, s, p, H(p)) \in StaticPorts(in, s, m)
          BY <4>1, <4>2 DEF StaticPorts
        <5>2. PortConflictFinding(in, s, p, H(p)).service = s
          BY FindingIs DEF PortConflictFinding
        <5>3. PortConflictFinding(in, s, p, H(p)).outcome = "no-problem"
          BY <3>1, <5>1, <5>2
        <5>4. QED
          BY <5>3, FindingIs DEF PortConflictFinding
      <4>3. QED
        BY <2>1, <4>1, <4>2
    <3>3. QED
      BY <2>3, <3>2
  <2>4. QED
    BY <2>2, <2>3
<1>6. QED
  BY <1>1, <1>4, <1>5

-----------------------------------------------------------------------------
(***************************************************************************)
(* What is clear stays free.                                               *)
(***************************************************************************)

\* What may overlap a container's publishes, given what holds of the host.
OverlapAt(f, want, c) ==
  LET seen      == IF ~f.ipv6Read THEN "" ELSE IF f.on THEN "enabled" ELSE "disabled"
      At(m)     == IF m.address # Unnamed THEN {m.address} ELSE IF f.on THEN {Wildcard4, Wildcard6} ELSE {Wildcard4}
      publishes == IF c.state # "running" \/ c.network = "host" THEN {}
                   ELSE UNION {{[m EXCEPT !.address = a] : a \in At(m)} : m \in c.publishes}
  IN  Worst(UNION {{Collides(seen, want, MappingClaim(m, p)) : p \in HostPorts(m)} :
                     m \in [c EXCEPT !.publishes = publishes].publishes})

\* The overlap of a claim and a container depends on the facts alone.
LEMMA OverlapStays ==
  ASSUME facts' = facts
  PROVE  \A want, c : OverlapOf(want, c)' = OverlapOf(want, c)
<1>1. ASSUME NEW want, NEW c
      PROVE  OverlapOf(want, c) = OverlapAt(facts, want, c) /\ OverlapOf(want, c)' = OverlapAt(facts', want, c)
  BY DEF OverlapOf, OverlapAt, ContainerOverlap, RuleInput, Listing, EngineAddresses
<1>2. QED
  BY <1>1

\* A container that has stopped: to the plan it is what a container of the service was.
Stops(c) == /\ IsContainer(c) /\ c.state # "running"
            /\ Released(plan, c) => \E d \in containers : Released(plan, d) /\ d.service = c.service

\* A container that does not run has no socket, and no publish to overlap.
LEMMA StoppedShows ==
  ASSUME NEW c, Stops(c)
  PROVE  ContainerSockets(c) = {} /\ ContainerTakes(c) = {} /\ \A want : OverlapOf(want, c) = "none"
<1>1. Listing(c).publishes = {}
  BY DEF Stops, Listing, IsContainer
<1>2. ASSUME NEW want PROVE OverlapOf(want, c) = "none"
  BY <1>1 DEF OverlapOf, ContainerOverlap, Worst
<1>3. QED
  BY <1>2 DEF Stops, ContainerSockets, ContainerTakes

\* There are no more sockets when processes go and nothing comes but a container that
\* does not run.
LEMMA SocketsFewer ==
  ASSUME facts' = facts, listeners' \subseteq listeners,
         \A c \in containers' : c \in containers \/ Stops(c)
  PROVE  AllSockets' \subseteq AllSockets
<1>1. /\ \A c : ContainerSockets(c)' = ContainerSockets(c)
      /\ \A l : ListenerSocket(l)' = ListenerSocket(l)
  BY ShownStays
<1>2. ASSUME NEW k \in AllSockets' PROVE k \in AllSockets
  <2>1. ObservableProtocol(BaseProtocol(k.protocol))
    BY DEF AllSockets
  <2>2. \/ \E c \in containers' : k \in ContainerSockets(c)'
        \/ \E l \in listeners' : k = ListenerSocket(l)'
    <3>1. k \in (UNION {ContainerSockets(c)' : c \in containers'}) \cup {ListenerSocket(l)' : l \in listeners'}
      BY DEF AllSockets
    <3>2. QED
      BY <3>1
  <2>3. \/ \E c \in containers : k \in ContainerSockets(c)
        \/ \E l \in listeners : k = ListenerSocket(l)
    BY <1>1, <2>2, StoppedShows
  <2>4. k \in (UNION {ContainerSockets(c) : c \in containers}) \cup {ListenerSocket(l) : l \in listeners}
    BY <2>3
  <2>5. QED
    BY <2>1, <2>4 DEF AllSockets
<1>3. QED
  BY <1>2

\* What the plan wants does not change.
LEMMA WantedStays ==
  ASSUME plan' = plan, facts' = facts
  PROVE  Wanted' = Wanted /\ PlanDisjoint' = PlanDisjoint
<1>1. \A s : Wants(s)' = Wants(s)
  BY WantsStay
<1>2. QED
  BY <1>1 DEF Wanted, PlanDisjoint

\* A situation that the rule judges rightly stays one when processes go and nothing comes
\* but a container that does not run.
LEMMA LoneStays ==
  ASSUME plan' = plan, facts' = facts, listeners' \subseteq listeners,
         \A c \in containers' : c \in containers \/ Stops(c),
         listed' \subseteq containers \cup listed, Lone(containers \cup listed)
  PROVE  Lone(containers \cup listed)'
<1>1. /\ \A want, c : OverlapOf(want, c)' = OverlapOf(want, c)
      /\ \A c : ContainerTakes(c)' = ContainerTakes(c)
      /\ \A l : ListenerTakes(l)' = ListenerTakes(l)
      /\ Wanted' = Wanted
  BY OverlapStays, TakesStay, WantedStays
<1>2. \A c : Stops(c) => ContainerTakes(c) = {} /\ \A want : OverlapOf(want, c) = "none"
  BY StoppedShows
<1>3. SUFFICES ASSUME NEW s \in plan.services, NEW m \in plan.svc[s].publishes, NEW p \in HostPorts(m),
                      NEW x \in containers' \cup listed', Released(plan, x),
                      OverlapOf(MappingClaim(m, p), x) # "none"
               PROVE  /\ \A l \in listeners' : ListenerTakes(l) \cap Wanted = {}
                      /\ \A d \in containers' : ~Released(plan, d) =>
                           /\ facts.engine = "partial" \/ d.network = "host" => ContainerTakes(d) \cap Wanted = {}
                           /\ OverlapOf(MappingClaim(m, p), d) # "unknown"
  BY <1>1 DEF Lone
<1>4. x \in containers \cup listed
  BY <1>2, <1>3
<1>5. /\ \A l \in listeners : ListenerTakes(l) \cap Wanted = {}
      /\ \A d \in containers : ~Released(plan, d) =>
           /\ facts.engine = "partial" \/ d.network = "host" => ContainerTakes(d) \cap Wanted = {}
           /\ OverlapOf(MappingClaim(m, p), d) # "unknown"
  BY <1>3, <1>4 DEF Lone
<1>6. QED
  BY <1>2, <1>5

\* Containers and processes that go, or stop, leave no port held that was not.
LEMMA HeldStays ==
  ASSUME plan' = plan, facts' = facts, listeners' \subseteq listeners,
         \A c \in containers' : c \in containers \/ Stops(c),
         ~UnobservableHeld
  PROVE  ~UnobservableHeld'
<1>1. /\ \A c : ContainerTakes(c)' = ContainerTakes(c)
      /\ \A l : ListenerTakes(l)' = ListenerTakes(l)
      /\ \A s : Wants(s)' = Wants(s)
      /\ \A c : Stops(c) => ContainerTakes(c) = {}
  BY TakesStay, WantsStay, StoppedShows
<1>2. Held' \subseteq Held
  <2>1. ASSUME NEW e \in Held' PROVE e \in Held
    <3>1. \/ \E c \in containers' : e \in ContainerTakes(c)'
          \/ \E l \in listeners' : e \in ListenerTakes(l)'
      BY DEF Held
    <3>2. \/ \E c \in containers : e \in ContainerTakes(c)
          \/ \E l \in listeners : e \in ListenerTakes(l)
      BY <1>1, <3>1
    <3>3. QED
      BY <3>2 DEF Held
  <2>2. QED
    BY <2>1
<1>3. QED
  BY <1>1, <1>2 DEF UnobservableHeld

\* What a service needs stays free when processes go, and nothing comes but a container of
\* Compose's or one that holds nothing.
LEMMA FreeStays ==
  ASSUME plan' = plan, facts' = facts, listeners' \subseteq listeners,
         \A c \in containers' : c \in containers \/ Goes(c) \/ ContainerTakes(c) = {},
         NEW s, Free(s)
  PROVE  Free(s)'
<1>1. /\ \A c : ContainerTakes(c)' = ContainerTakes(c)
      /\ \A l : ListenerTakes(l)' = ListenerTakes(l)
  BY TakesStay
<1>2. \A c : Goes(c)' = Goes(c)
  BY DEF Goes, Composed
<1>3. ASSUME NEW e, ~Blocks(e) PROVE ~Blocks(e)'
  BY <1>1, <1>2, <1>3 DEF Blocks
<1>4. Listens(plan.svc[s])' = Listens(plan.svc[s])
  BY DEF Listens
<1>5. ASSUME NEW m, NEW p PROVE Binding(m, p)' = Binding(m, p)
  BY DEF Binding, Real
<1>6. QED
  BY <1>3, <1>4, <1>5 DEF Free

\* What runs as the plan says holds no more than the plan wants.
LEMMA MadeWithin ==
  ASSUME Situation, NEW s \in plan.services, NEW c \in containers,
         c.state = "running", MadeFrom(c, plan.svc[s])
  PROVE  ContainerTakes(c) \subseteq Wants(s)
<1> DEFINE svc == plan.svc[s]
<1>1. IsContainer(c) /\ facts \in Facts /\ c.network \in {"bridge", "host"} /\ svc.publishes \subseteq Mapping
  BY DEF Situation, IsContainer, IsPlan, IsService
<1>2. CASE c.network = "host"
  <2>1. svc.network = "host" /\ c.publishes = svc.publishes /\ c.expose = svc.expose
    BY <1>2 DEF MadeFrom
  <2>2. DeclaredPorts(c) = DeclaredPorts(svc)
    BY <2>1 DEF DeclaredPorts
  <2>3. ContainerTakes(c) = Listens(c)
    BY <1>2 DEF ContainerTakes
  <2>4. Listens(c) = Listens(svc)
    BY <2>2 DEF Listens
  <2>5. QED
    BY <2>1, <2>3, <2>4, HostWants
<1>3. CASE c.network = "bridge"
  <2>1. svc.network = "bridge" /\ c.publishes \in PublishChoices(svc.publishes)
    BY <1>3 DEF MadeFrom
  <2>2. ASSUME NEW n \in c.publishes PROVE PublishTakes(n) \subseteq Wants(s)
    <3>1. PICK m \in svc.publishes : \E p \in HostPorts(m) : n = Fixed(m, p)
      BY <2>1, ChoicesAre
    <3>2. PICK p \in HostPorts(m) : n = Fixed(m, p)
      BY <3>1
    <3>3. PublishTakes(Fixed(m, p)) = Binding(m, p)
      BY <1>1, FixedIs
    <3>4. QED
      BY <2>1, <3>2, <3>3, BindingWanted
  <2>3. ContainerTakes(c) = UNION {PublishTakes(n) : n \in c.publishes}
    BY <1>3 DEF ContainerTakes
  <2>4. QED
    BY <2>2, <2>3
<1>4. QED
  BY <1>1, <1>2, <1>3

\* Of each range to one container port any of its host ports may be chosen.
LEMMA ChoiceExists ==
  ASSUME NEW ms, NEW g, \A m \in ms : Dynamic(m) => g[m] \in HostPorts(m)
  PROVE  \E X \in PublishChoices(ms) : \A x \in X : \E m \in ms : \E p \in HostPorts(m) :
           x = Fixed(m, p) /\ (Dynamic(m) => p = g[m])
<1> DEFINE Picks(m) == {Fixed(m, p) : p \in HostPorts(m)}
           dynamic  == {m \in ms : Dynamic(m)}
           static   == UNION {Picks(m) : m \in ms \ dynamic}
           pick     == [m \in dynamic |-> Fixed(m, g[m])]
           picks    == {f \in [dynamic -> UNION {Picks(m) : m \in dynamic}] : \A m \in dynamic : f[m] \in Picks(m)}
           X        == static \cup {pick[m] : m \in dynamic}
<1>1. pick \in picks
  <2>1. \A m \in dynamic : pick[m] \in Picks(m)
    OBVIOUS
  <2>2. \A m \in dynamic : Picks(m) \subseteq UNION {Picks(k) : k \in dynamic}
    OBVIOUS
  <2>3. pick \in [dynamic -> UNION {Picks(m) : m \in dynamic}]
    BY <2>1, <2>2
  <2>4. QED
    BY <2>1, <2>3
<1>2. X \in PublishChoices(ms)
  <2>1. PublishChoices(ms) = {static \cup {f[m] : m \in dynamic} : f \in picks}
    BY DEF PublishChoices
  <2> HIDE DEF static, picks, pick
  <2>2. QED
    BY <1>1, <2>1
<1>3. ASSUME NEW x \in X
      PROVE  \E m \in ms : \E p \in HostPorts(m) : x = Fixed(m, p) /\ (Dynamic(m) => p = g[m])
  <2>1. CASE x \in static
    BY <2>1
  <2>2. CASE x \in {pick[m] : m \in dynamic}
    BY <2>2
  <2>3. QED
    BY <2>1, <2>2
<1> HIDE DEF X
<1>4. QED
  BY <1>2, <1>3

\* A service whose bindings are free of what stays comes up, when nothing else holds one.
LEMMA FreeStarts ==
  ASSUME Situation, NEW s \in plan.services, NEW c \in containers,
         c.state # "running", MadeFrom(c, plan.svc[s]), Free(s),
         ~facts.on => \A e \in Wants(s) : e.address \in Addr4,
         \A e \in Wants(s) \cap Held : Blocks(e)
  PROVE  \E ms \in Choices(c) : Bindable(ContainerTakes(In(c, "running", ms)))
<1> DEFINE svc == plan.svc[s]
<1>1. /\ IsContainer(c) /\ facts \in Facts /\ c.network \in {"bridge", "host"} /\ svc.publishes \subseteq Mapping
      /\ svc.network = c.network /\ c.publishes = svc.publishes /\ c.expose = svc.expose
  BY DEF Situation, IsContainer, IsPlan, IsService, MadeFrom
<1>2. ASSUME NEW T, T \subseteq Wants(s), \A e \in T : ~Blocks(e)
      PROVE  Bindable(T)
  BY <1>2 DEF Bindable
<1>3. ASSUME NEW ms
      PROVE  LET d == In(c, "running", ms) IN
             d.state = "running" /\ d.network = c.network /\ d.publishes = ms /\ d.expose = c.expose
  BY <1>1, InRecord
<1>4. CASE c.network = "host"
  <2> DEFINE d == In(c, "running", c.publishes)
  <2>1. d.state = "running" /\ d.network = "host" /\ d.publishes = svc.publishes /\ d.expose = svc.expose
    BY <1>1, <1>3, <1>4
  <2> HIDE DEF d
  <2>2. DeclaredPorts(d) = DeclaredPorts(svc)
    BY <2>1 DEF DeclaredPorts
  <2>3. ContainerTakes(d) = Listens(svc)
    BY <2>1, <2>2 DEF ContainerTakes, Listens
  <2>4. Bindable(ContainerTakes(d))
    BY <1>1, <1>2, <1>4, <2>3, HostWants DEF Free
  <2>5. c.publishes \in Choices(c)
    BY <1>4 DEF Choices
  <2>6. QED
    BY <2>4, <2>5 DEF d
<1>5. CASE c.network = "bridge"
  <2> DEFINE IsFree(m, p) == \A e \in Binding(m, p) : ~Blocks(e)
             g == [m \in svc.publishes |-> CHOOSE p \in HostPorts(m) : IsFree(m, p)]
  <2>1. /\ \A m \in svc.publishes : Dynamic(m) => \E p \in HostPorts(m) : IsFree(m, p)
        /\ \A m \in svc.publishes : ~Dynamic(m) => \A p \in HostPorts(m) : IsFree(m, p)
    BY <1>1, <1>5 DEF Free
  <2> HIDE DEF IsFree
  <2>2. \A m \in svc.publishes : Dynamic(m) => g[m] \in HostPorts(m) /\ IsFree(m, g[m])
    BY <2>1
  <2> HIDE DEF g
  <2>3. PICK X \in PublishChoices(svc.publishes) : \A x \in X : \E m \in svc.publishes : \E p \in HostPorts(m) :
           x = Fixed(m, p) /\ (Dynamic(m) => p = g[m])
    <3> DEFINE ms == svc.publishes
    <3>1. \A m \in ms : Dynamic(m) => g[m] \in HostPorts(m)
      BY <2>2
    <3> HIDE DEF ms
    <3>2. \E X \in PublishChoices(ms) : \A x \in X : \E m \in ms : \E p \in HostPorts(m) :
            x = Fixed(m, p) /\ (Dynamic(m) => p = g[m])
      BY <3>1, ChoiceExists, SMTT(60)
    <3>3. QED
      BY <3>2 DEF ms
  <2> DEFINE d == In(c, "running", X)
  <2>4. d.state = "running" /\ d.network = "bridge" /\ d.publishes = X
    BY <1>3, <1>5
  <2> HIDE DEF d
  <2>5. ASSUME NEW x \in X
        PROVE  PublishTakes(x) \subseteq Wants(s) /\ \A e \in PublishTakes(x) : ~Blocks(e)
    <3>1. PICK m \in svc.publishes : \E p \in HostPorts(m) : x = Fixed(m, p) /\ (Dynamic(m) => p = g[m])
      BY <2>3
    <3>2. PICK p \in HostPorts(m) : x = Fixed(m, p) /\ (Dynamic(m) => p = g[m])
      BY <3>1
    <3>3. PublishTakes(Fixed(m, p)) = Binding(m, p)
      BY <1>1, FixedIs
    <3>4. IsFree(m, p)
      BY <2>1, <2>2, <3>2
    <3>5. Binding(m, p) \subseteq Wants(s)
      BY <1>1, <1>5, BindingWanted
    <3>6. QED
      BY <3>2, <3>3, <3>4, <3>5 DEF IsFree
  <2>6. ContainerTakes(d) = UNION {PublishTakes(x) : x \in X}
    BY <2>4 DEF ContainerTakes
  <2>7. Bindable(ContainerTakes(d))
    BY <1>2, <2>5, <2>6
  <2>8. X \in Choices(c)
    BY <1>1, <1>5 DEF Choices
  <2>9. QED
    BY <2>7, <2>8 DEF d
<1>6. QED
  BY <1>1, <1>4, <1>5

-----------------------------------------------------------------------------
(***************************************************************************)
(* Clear is real.                                                          *)
(***************************************************************************)

\* A planned service has one container; once the orphans are removed, none is left that
\* Compose was to remove.
OneContainer ==
  /\ \A c, d \in containers :
       Composed(c) /\ Composed(d) /\ c.service = d.service /\ c.service \in plan.services => c = d
  /\ phase \in {"converge", "start"} =>
       \A c \in containers : Composed(c) /\ c.service \notin plan.services => ~plan.removeOrphans

\* Whoever comes or goes, the sockets are read in full and nothing has taken a binding.
Watched == ~gained /\ ~facts.portsUnchecked /\ facts.socketsRead = "complete"

\* Before the comparison: nothing is misjudged, and what was read is all that there is.
Whole ==
  /\ ~UnobservableHeld /\ ~LeftRunning /\ Lone(containers \cup listed)
  /\ facts.engine = "absent" => containers = {}
  /\ \A x \in listed : IsContainer(x)
  /\ phase \in {"ports", "list"} => listed = {}
  /\ phase \in {"list", "compare"} => AllSockets \subseteq sockets
  /\ phase = "compare" =>
       /\ facts.engine = "complete" => \A c \in containers : c.state = "running" => c \in listed
       /\ facts.engine \in {"failed", "absent"} => listed = {}

\* After it: what a clear service needs stays free, and the service does not fail.
ClearHolds ==
  /\ ~facts.on => \A s \in plan.services : \A e \in Wants(s) : e.address \in Addr4
  /\ Watched /\ ~Compared => Whole
  /\ Watched /\ Compared => \A s \in plan.services : Clear(findings, s) => Free(s)
  /\ Watched /\ Compared /\ PlanDisjoint => \A s \in plan.services : Clear(findings, s) => up[s] # "failed"

\* A service of the plan has at most one container, before `up` and after.
LEMMA OneContainerStep ==
  ASSUME Typed, OneContainer, [Next]_vars
  PROVE  OneContainer'
<1>1. plan' = plan /\ facts' = facts /\ Situation
  BY HostStep DEF vars, Typed
<1>2. IsPlan(plan) /\ \A c \in containers : IsContainer(c)
  BY <1>1 DEF Situation
<1>3. \A c : Composed(c)' = Composed(c)
  BY <1>1, ComposedStays
<1>4. SUFFICES
        /\ \A c, d \in containers' :
             Composed(c) /\ Composed(d) /\ c.service = d.service /\ c.service \in plan.services => c = d
        /\ phase' \in {"converge", "start"} =>
             \A c \in containers' : Composed(c) /\ c.service \notin plan.services => ~plan.removeOrphans
  BY <1>1, <1>3 DEF OneContainer
<1>5. CASE UNCHANGED vars \/ ReadSockets \/ ListContainers \/ Compare \/ ListenerStarts \/ ListenerStops
  BY <1>5 DEF vars, host, ReadSockets, ListContainers, Compare, ListenerStarts, ListenerStops, OneContainer
<1>6. CASE ContainerExits
  <2>1. PICK c \in containers : containers' = (containers \ {c}) \cup {Exited(c)}
    BY <1>6 DEF ContainerExits
  <2>2. phase' \notin {"converge", "start"}
    BY <1>6 DEF ContainerExits
  <2> DEFINE d == Exited(c)
  <2>3. d.service = c.service /\ Composed(d) = Composed(c)
    BY <1>1, ExitedMade
  <2>4. \A e \in containers' : (e \in containers /\ e # c) \/ e = d
    BY <2>1
  <2> HIDE DEF d
  <2>5. QED
    BY <2>2, <2>3, <2>4 DEF OneContainer
<1>7. CASE RemoveOrphans
  BY <1>7 DEF RemoveOrphans, OneContainer
<1>8. ASSUME NEW s \in plan.services, Converge(s)
      PROVE  /\ \A c, d \in containers' :
                  Composed(c) /\ Composed(d) /\ c.service = d.service /\ c.service \in plan.services => c = d
             /\ \A c \in containers' : Composed(c) /\ c.service \notin plan.services => ~plan.removeOrphans
  <2> DEFINE old  == {c \in containers : Composed(c) /\ c.service = s}
             kept == {c \in old : Kept(c)}
             new  == NewContainer(s)
  <2>1. containers' = (containers \ (old \ kept)) \cup (IF kept = {} THEN {new} ELSE {}) /\ phase = "converge"
    BY <1>8 DEF Converge
  <2>2. new.service = s
    BY <1>2, NewIs
  <2> HIDE DEF new
  <2>3. \A c \in containers' : c \in containers \/ c = new
    BY <2>1
  <2>4. \A c \in containers' : Composed(c) /\ c.service = s /\ c # new => kept # {} /\ c \in containers
    BY <2>1
  <2>5. kept # {} => containers' \subseteq containers
    BY <2>1
  <2> HIDE DEF old, kept
  <2>6. QED
    BY <2>1, <2>2, <2>3, <2>4, <2>5 DEF OneContainer
<1>9. ASSUME NEW s \in plan.services, Start(s)
      PROVE  /\ \A c, d \in containers' :
                  Composed(c) /\ Composed(d) /\ c.service = d.service /\ c.service \in plan.services => c = d
             /\ \A c \in containers' : Composed(c) /\ c.service \notin plan.services => ~plan.removeOrphans
  <2>1. phase = "start"
    BY <1>9 DEF Start
  <2>2. \/ containers' = containers
        \/ \E c \in containers : \E ms \in Choices(c) :
             c.state # "running" /\ containers' = (containers \ {c}) \cup {In(c, "running", ms)}
    BY <1>9, StartIs
  <2>3. CASE containers' = containers
    BY <2>1, <2>3 DEF OneContainer
  <2>4. CASE \E c \in containers : \E ms \in Choices(c) :
               c.state # "running" /\ containers' = (containers \ {c}) \cup {In(c, "running", ms)}
    <3>1. PICK c \in containers : \E ms \in Choices(c) :
               c.state # "running" /\ containers' = (containers \ {c}) \cup {In(c, "running", ms)}
      BY <2>4
    <3>2. PICK ms \in Choices(c) :
               c.state # "running" /\ containers' = (containers \ {c}) \cup {In(c, "running", ms)}
      BY <3>1
    <3> DEFINE d == In(c, "running", ms)
    <3>3. d.service = c.service /\ Composed(d) = Composed(c)
      BY <1>1, <3>2, StartedMade
    <3>4. \A e \in containers' : (e \in containers /\ e # c) \/ e = d
      BY <3>2
    <3> HIDE DEF d
    <3>5. QED
      BY <2>1, <3>3, <3>4 DEF OneContainer
  <2>5. QED
    BY <2>2, <2>3, <2>4
<1>10. QED
  BY <1>4, <1>5, <1>6, <1>7, <1>8, <1>9 DEF Next

\* Nothing becomes misjudged when processes go and containers stop.
LEMMA WholeStays ==
  ASSUME Whole, plan' = plan, facts' = facts, listeners' \subseteq listeners,
         \A c \in containers' : c \in containers \/ (Stops(c) /\ containers # {}),
         listed' \subseteq containers \cup listed
  PROVE  /\ ~UnobservableHeld' /\ ~LeftRunning' /\ Lone(containers \cup listed)'
         /\ facts'.engine = "absent" => containers' = {}
         /\ AllSockets' \subseteq AllSockets
<1>1. ~UnobservableHeld' /\ Lone(containers \cup listed)' /\ AllSockets' \subseteq AllSockets
  BY HeldStays, LoneStays, SocketsFewer DEF Whole
<1>2. ~LeftRunning'
  BY DEF Whole, LeftRunning, Stops
<1>3. QED
  BY <1>1, <1>2 DEF Whole

\* What exits, stops.
LEMMA ExitStops ==
  ASSUME Situation, NEW c \in containers
  PROVE  Stops(Exited(c))
<1> DEFINE d == Exited(c)
<1>1. /\ IsContainer(d) /\ d.state = "exited" /\ d.project = c.project /\ d.oneOff = c.oneOff /\ d.service = c.service
      /\ d.labelled = c.labelled /\ d.dir = c.dir
  BY ExitedIs DEF Situation
<1> HIDE DEF d
<1>2. Released(plan, d) = Released(plan, c)
  BY <1>1 DEF Released, OwnerOf, SameProject, PlannedService
<1>3. QED
  BY <1>1, <1>2 DEF Stops, d

\* At first nothing is misjudged and nothing was read,
LEMMA InitClear ==
  ASSUME {"stranger beside own", "undecided beside own", "left running", "unobservable held"} \cap Divergences = {},
         Init
  PROVE  OneContainer /\ ClearHolds
<1>1. OneContainer
  BY DEF Init, HostIsComposed, OneContainer
<1>2. ~UnobservableHeld /\ ~LeftRunning /\ ~StrangerBesideOwn /\ ~UndecidedBesideOwn
  BY DEF Init, Admitted
<1>3. Lone(containers \cup listed)
  <2>1. listed = {}
    BY DEF Init
  <2>2. SUFFICES ASSUME NEW s \in plan.services, NEW m \in plan.svc[s].publishes, NEW p \in HostPorts(m),
                        NEW x \in containers, Released(plan, x), OverlapOf(MappingClaim(m, p), x) # "none"
                 PROVE  /\ \A l \in listeners : ListenerTakes(l) \cap Wanted = {}
                        /\ \A d \in containers : ~Released(plan, d) =>
                             /\ facts.engine = "partial" \/ d.network = "host" => ContainerTakes(d) \cap Wanted = {}
                             /\ OverlapOf(MappingClaim(m, p), d) # "unknown"
    BY <2>1 DEF Lone
  <2>3. MappingClaim(m, p) \in Claims
    <3>1. MappingClaim(m, p) \in {MappingClaim(m, q) : q \in HostPorts(m)}
      OBVIOUS
    <3>2. MappingClaim(m, p) \in UNION {{MappingClaim(k, q) : q \in HostPorts(k)} : k \in plan.svc[s].publishes}
      BY <3>1
    <3>3. QED
      BY <3>2 DEF Claims
  <2> DEFINE want == MappingClaim(m, p)
  <2> HIDE DEF want
  <2>4. want \in Claims /\ OverlapOf(want, x) # "none"
    BY <2>2, <2>3 DEF want
  <2>5. /\ \A l \in listeners : ListenerTakes(l) \cap Wanted = {}
        /\ \A d \in containers : ~Released(plan, d) /\ (facts.engine = "partial" \/ d.network = "host")
                                => ContainerTakes(d) \cap Wanted = {}
    BY <1>2, <2>2, <2>4 DEF StrangerBesideOwn
  <2>6. \A d \in containers : ~Released(plan, d) => OverlapOf(want, d) # "unknown"
    BY <1>2, <2>2, <2>4 DEF UndecidedBesideOwn
  <2>7. QED
    BY <2>5, <2>6 DEF want
<1>4. Whole
  BY <1>2, <1>3 DEF Init, Whole, HostIsComposed
<1>5. ~facts.on => \A s \in plan.services : \A e \in Wants(s) : e.address \in Addr4
  BY DEF Init, Wanted
<1>6. QED
  BY <1>1, <1>4, <1>5 DEF ClearHolds, Init, Compared

\* What a service that is not up finds taken, what stays holds.
LEMMA OthersStay ==
  ASSUME Typed, AsPlanned, OneContainer, PlanDisjoint, phase = "start",
         NEW s \in plan.services, NEW c \in containers, Composed(c), c.service = s, c.state # "running",
         NEW e \in Wants(s) \cap Held
  PROVE  Blocks(e)
<1>1. Situation /\ \A t \in plan.services : up[t] # "pending"
  BY DEF Typed, Pace
<1>2. \/ \E l \in listeners : e \in ListenerTakes(l)
      \/ \E d \in containers : e \in ContainerTakes(d)
  BY DEF Held
<1>3. SUFFICES ASSUME NEW d \in containers, e \in ContainerTakes(d), Goes(d)
               PROVE  FALSE
  BY <1>2 DEF Blocks
<1>4. d.state = "running"
  BY <1>3 DEF ContainerTakes
<1>5. Composed(d) /\ d.service \in plan.services
  BY <1>3 DEF Goes, OneContainer
<1>6. d.service # s
  BY <1>4, <1>5 DEF OneContainer
<1>7. MadeFrom(d, plan.svc[d.service])
  BY <1>1, <1>5 DEF AsPlanned
<1>8. ContainerTakes(d) \subseteq Wants(d.service)
  BY <1>1, <1>4, <1>5, <1>7, MadeWithin
<1>9. QED
  BY <1>3, <1>5, <1>6, <1>8 DEF PlanDisjoint

\* After the comparison nothing takes what a clear service needs.
LEMMA ComparedStep ==
  ASSUME Typed, OneContainer, ClearHolds, Watched', Compared, [Next]_vars
  PROVE  \A s \in plan.services : Clear(findings, s) => Free(s)'
<1>1. plan' = plan /\ facts' = facts /\ Situation /\ IsPlan(plan)
  BY HostStep DEF vars, Typed, Situation
<1>2. Watched /\ gained' = FALSE
  <2>1. gained' = FALSE => gained = FALSE
    BY DEF Next, ReadSockets, ListContainers, Compare, ListenerStarts, ListenerStops, ContainerExits,
           RemoveOrphans, Converge, Start, vars
  <2>2. gained' = FALSE
    BY DEF Watched
  <2>3. QED
    BY <1>1, <2>1, <2>2 DEF Watched
<1>3. \A s \in plan.services : Clear(findings, s) => Free(s)
  BY <1>2 DEF ClearHolds
<1>4. SUFFICES /\ listeners' \subseteq listeners
               /\ \A c \in containers' : c \in containers \/ Goes(c) \/ ContainerTakes(c) = {}
  BY <1>1, <1>3, FreeStays
<1>5. CASE UNCHANGED vars \/ ReadSockets \/ ListContainers \/ Compare \/ ListenerStops \/ RemoveOrphans
  BY <1>5 DEF vars, host, ReadSockets, ListContainers, Compare, ListenerStops, RemoveOrphans
<1>6. CASE ListenerStarts
  BY <1>2, <1>6 DEF ListenerStarts
<1>7. CASE ContainerExits
  <2>1. PICK c \in containers : containers' = (containers \ {c}) \cup {Exited(c)}
    BY <1>7 DEF ContainerExits
  <2>2. Exited(c).state = "exited"
    BY <1>1, ExitedIs DEF Situation
  <2>3. listeners' = listeners
    BY <1>7 DEF ContainerExits
  <2>4. QED
    BY <2>1, <2>2, <2>3, StoppedBinds
<1>8. ASSUME NEW s \in plan.services, Converge(s)
      PROVE  /\ listeners' \subseteq listeners
             /\ \A c \in containers' : c \in containers \/ Goes(c) \/ ContainerTakes(c) = {}
  <2>1. listeners' = listeners /\ containers' \subseteq containers \cup {NewContainer(s)}
    BY <1>8, ConvergeIs DEF Converge
  <2>2. NewContainer(s).state = "created"
    BY <1>1, NewIs
  <2>3. QED
    BY <2>1, <2>2, StoppedBinds
<1>9. ASSUME NEW s \in plan.services, Start(s)
      PROVE  /\ listeners' \subseteq listeners
             /\ \A c \in containers' : c \in containers \/ Goes(c) \/ ContainerTakes(c) = {}
  <2>1. listeners' = listeners
    BY <1>9 DEF Start
  <2>2. \/ containers' = containers
        \/ \E c \in containers : \E ms \in Choices(c) :
             /\ Composed(c) /\ c.service = s /\ c.state # "running"
             /\ containers' = (containers \ {c}) \cup {In(c, "running", ms)}
    BY <1>9, StartIs
  <2>3. CASE containers' = containers
    BY <2>1, <2>3
  <2>4. CASE \E c \in containers : \E ms \in Choices(c) :
               /\ Composed(c) /\ c.service = s /\ c.state # "running"
               /\ containers' = (containers \ {c}) \cup {In(c, "running", ms)}
    <3>1. PICK c \in containers : \E ms \in Choices(c) :
               /\ Composed(c) /\ c.service = s /\ c.state # "running"
               /\ containers' = (containers \ {c}) \cup {In(c, "running", ms)}
      BY <2>4
    <3>2. PICK ms \in Choices(c) :
               /\ Composed(c) /\ c.service = s /\ c.state # "running"
               /\ containers' = (containers \ {c}) \cup {In(c, "running", ms)}
      BY <3>1
    <3> DEFINE d == In(c, "running", ms)
    <3>3. d.service = c.service /\ Composed(d) = Composed(c)
      BY <1>1, <3>2, StartedMade
    <3>4. \A e \in containers' : e \in containers \/ e = d
      BY <3>2
    <3> HIDE DEF d
    <3>5. Goes(d)
      BY <3>2, <3>3 DEF Goes
    <3>6. QED
      BY <2>1, <3>4, <3>5
  <2>5. QED
    BY <2>2, <2>3, <2>4
<1>10. QED
  BY <1>5, <1>6, <1>7, <1>8, <1>9 DEF Next

\* Before the comparison the reads are of all that there is.
LEMMA WholeStep ==
  ASSUME Typed, Whole, ~Compared, Watched', [Next]_vars
  PROVE  ~Compared' => Whole'
<1>1. plan' = plan /\ facts' = facts /\ Situation /\ \A c \in containers : IsContainer(c)
  BY HostStep DEF vars, Typed, Situation
<1>2. phase \in {"ports", "list", "compare"}
  BY DEF Typed, TypeOK, Compared
<1>3. facts.engine \in {"complete", "partial", "failed", "absent"} /\ ~facts.portsUnchecked /\ facts.socketsRead = "complete"
  BY <1>1 DEF Watched, Situation, Facts
<1>4. CASE UNCHANGED vars
  <2>1. /\ containers' = containers /\ listeners' = listeners /\ sockets' = sockets /\ listed' = listed /\ phase' = phase
    BY <1>4 DEF vars, host, read
  <2>2. QED
    BY <1>1, <2>1, WholeStays DEF Whole
<1>5. CASE ReadSockets
  <2>1. /\ containers' = containers /\ listeners' = listeners /\ listed' = listed /\ listed = {}
        /\ sockets' = AllSockets /\ phase' = "list"
    BY <1>3, <1>5 DEF ReadSockets, host, ReadOf, Whole
  <2>2. QED
    BY <1>1, <2>1, WholeStays DEF Whole
<1>6. CASE ListContainers
  <2>1. /\ containers' = containers /\ listeners' = listeners /\ sockets' = sockets
        /\ phase = "list" /\ phase' = "compare" /\ listed' \in ReadOf(containers, facts.engine)
    BY <1>6 DEF ListContainers, host
  <2>2. /\ listed' \subseteq containers
        /\ facts.engine = "complete" => listed' = containers
        /\ facts.engine \in {"failed", "absent"} => listed' = {}
    BY <1>3, <2>1 DEF ReadOf
  <2>3. QED
    BY <1>1, <2>1, <2>2, WholeStays DEF Whole
<1>7. CASE ListenerStops
  <2>1. /\ containers' = containers /\ listeners' \subseteq listeners /\ sockets' = sockets
        /\ listed' = listed /\ phase' = phase
    BY <1>7 DEF ListenerStops, read
  <2>2. QED
    BY <1>1, <2>1, WholeStays DEF Whole
<1>8. CASE ContainerExits
  <2>1. PICK c \in containers : containers' = (containers \ {c}) \cup {Exited(c)}
    BY <1>8 DEF ContainerExits
  <2>2. /\ listeners' = listeners /\ sockets' = sockets /\ listed' = listed /\ phase' = phase
    BY <1>8 DEF ContainerExits, read
  <2>3. Stops(Exited(c))
    BY <1>1, ExitStops
  <2>4. \A d \in containers' : d \in containers \/ (Stops(d) /\ containers # {})
    BY <2>1, <2>3
  <2>5. \A d \in containers' : d.state = "running" => d \in containers
    BY <2>4 DEF Stops
  <2>6. QED
    BY <1>1, <2>2, <2>4, <2>5, WholeStays DEF Whole
<1>9. CASE ListenerStarts
  BY <1>9 DEF ListenerStarts, Watched
<1>10. CASE Compare \/ RemoveOrphans \/ \E s \in plan.services : Converge(s) \/ Start(s)
  BY <1>2, <1>10 DEF Compare, RemoveOrphans, Converge, Start, Compared
<1>11. QED
  BY <1>4, <1>5, <1>6, <1>7, <1>8, <1>9, <1>10 DEF Next

\* What was read in full before the comparison, the rule judges rightly.
LEMMA CompareClear ==
  ASSUME Typed, Whole, Watched, Compare
  PROVE  \A s \in plan.services : Clear(findings, s)' => Free(s)'
<1>1. /\ plan' = plan /\ facts' = facts /\ listeners' = listeners /\ containers' = containers
      /\ findings' = PortConflicts(RuleInput(sockets, listed)) /\ phase = "compare"
  BY DEF Compare, host
<1>2. Situation
  BY DEF Typed
<1>3. ReadAll(sockets, listed)
  BY <1>1 DEF Whole, ReadAll
<1>4. ASSUME NEW s \in plan.services, Clear(findings', s) PROVE Free(s)'
  <2>1. Free(s)
    BY <1>1, <1>2, <1>3, <1>4, ClearIsFree DEF Whole, Watched
  <2>2. QED
    BY <1>1, <2>1, FreeStays
<1>5. QED
  BY <1>4 DEF Clear

\* and every step keeps what ClearHolds says.
LEMMA ClearStep ==
  ASSUME Typed, AsPlanned, OneContainer, ClearHolds, [Next]_vars
  PROVE  ClearHolds'
<1>1. plan' = plan /\ facts' = facts /\ Situation /\ Pace
      /\ up \in [plan.services -> {"pending", "converged", "running", "failed"}]
  BY HostStep DEF vars, Typed, TypeOK
<1>2. (\A s : Wants(s)' = Wants(s)) /\ PlanDisjoint' = PlanDisjoint
  BY <1>1, WantsStay, WantedStays
<1>3. Watched' => Watched
  <2>1. ~gained' => ~gained
    BY DEF Next, ReadSockets, ListContainers, Compare, ListenerStarts, ListenerStops, ContainerExits,
           RemoveOrphans, Converge, Start, vars
  <2>2. QED
    BY <1>1, <2>1 DEF Watched
<1>4. ~facts'.on => \A s \in plan'.services : \A e \in Wants(s)' : e.address \in Addr4
  BY <1>1, <1>2 DEF ClearHolds
<1>5. Watched' /\ ~Compared' => Whole'
  <2>1. Compared => Compared'
    BY DEF Compared, Next, ReadSockets, ListContainers, Compare, ListenerStarts, ListenerStops, ContainerExits,
           RemoveOrphans, Converge, Start, vars
  <2>2. QED
    BY <1>3, <2>1, WholeStep DEF ClearHolds
<1>6. Watched' /\ Compared' => \A s \in plan.services : Clear(findings, s)' => Free(s)'
  <2>1. SUFFICES ASSUME Watched', Compared' PROVE \A s \in plan.services : Clear(findings, s)' => Free(s)'
    OBVIOUS
  <2>2. CASE Compare
    <3>1. ~Compared
      BY <2>2 DEF Compare, Compared
    <3>2. QED
      BY <1>3, <2>1, <2>2, <3>1, CompareClear DEF ClearHolds
  <2>3. CASE ~Compare
    <3>1. Compared /\ findings' = findings
      BY <2>1, <2>3 DEF Compared, Next, ReadSockets, ListContainers, ListenerStarts, ListenerStops, ContainerExits,
         RemoveOrphans, Converge, Start, vars, told
    <3>2. \A s \in plan.services : Clear(findings, s) => Free(s)'
      BY <2>1, <3>1, ComparedStep
    <3>3. QED
      BY <3>1, <3>2 DEF Clear
  <2>4. QED
    BY <2>2, <2>3
<1>7. Watched' /\ Compared' /\ PlanDisjoint' => \A s \in plan.services : Clear(findings, s)' => up'[s] # "failed"
  <2>1. SUFFICES ASSUME Watched', Compared', PlanDisjoint', NEW s \in plan.services, Clear(findings, s)'
                 PROVE  up'[s] # "failed"
    OBVIOUS
  <2>2. CASE phase \in {"ports", "list", "compare", "up"}
    <3>1. up' = up
      BY <2>2 DEF Next, ReadSockets, ListContainers, Compare, ListenerStarts, ListenerStops, ContainerExits,
         RemoveOrphans, Converge, Start, vars
    <3>2. QED
      BY <1>1, <2>2, <3>1 DEF Pace
  <2>3. CASE phase \notin {"ports", "list", "compare", "up"}
    <3>1. Compared /\ findings' = findings /\ PlanDisjoint /\ Watched
      BY <1>2, <1>3, <2>1, <2>3 DEF Typed, TypeOK, Compared, Next, ReadSockets, ListContainers, Compare, ListenerStarts,
         ListenerStops, ContainerExits, RemoveOrphans, Converge, Start, vars, told
    <3>2. Clear(findings, s)
      BY <2>1, <3>1 DEF Clear
    <3>3. up[s] # "failed" /\ Free(s)
      BY <3>1, <3>2 DEF ClearHolds
    <3>4. ASSUME NEW t \in plan.services, Start(t) PROVE up'[s] # "failed"
      <4>1. SUFFICES ASSUME up'[s] = "failed" PROVE FALSE
        OBVIOUS
      <4>2. PICK c \in containers :
              /\ Composed(c) /\ c.service = t
              /\ \/ up' = [up EXCEPT ![t] = "running"]
                 \/ /\ c.state # "running" /\ up' = [up EXCEPT ![t] = "failed"]
                    /\ \A ms \in Choices(c) : ~Bindable(ContainerTakes(In(c, "running", ms)))
        BY <3>4, StartIs
      <4>3. /\ t = s /\ c.state # "running"
            /\ \A ms \in Choices(c) : ~Bindable(ContainerTakes(In(c, "running", ms)))
        BY <1>1, <3>3, <4>1, <4>2
      <4>4. phase = "start" /\ up[s] = "converged"
        BY <3>4, <4>3 DEF Start
      <4>5. MadeFrom(c, plan.svc[s])
        BY <4>2, <4>3, <4>4 DEF AsPlanned
      <4>6. \A e \in Wants(s) \cap Held : Blocks(e)
        BY <3>1, <4>2, <4>3, <4>4, OthersStay
      <4>7. ~facts.on => \A e \in Wants(s) : e.address \in Addr4
        BY DEF ClearHolds
      <4>8. QED
        BY <1>1, <3>3, <4>3, <4>5, <4>6, <4>7, FreeStarts
    <3>5. ASSUME NEW t \in plan.services, Converge(t) PROVE up'[s] # "failed"
      BY <1>1, <3>3, <3>5 DEF Converge
    <3>6. CASE UNCHANGED vars \/ ReadSockets \/ ListContainers \/ Compare \/ ListenerStarts \/ ListenerStops
               \/ ContainerExits \/ RemoveOrphans
      BY <3>3, <3>6 DEF ReadSockets, ListContainers, Compare, ListenerStarts, ListenerStops, ContainerExits,
         RemoveOrphans, vars
    <3>7. QED
      BY <3>4, <3>5, <3>6 DEF Next
  <2>4. QED
    BY <2>2, <2>3
<1>8. QED
  BY <1>1, <1>4, <1>5, <1>6, <1>7 DEF ClearHolds

\* The other half of the promise: a service about which PortConflicts says nothing, or "no
\* problem", finds its bindings free, if the sockets were read in full and nothing took a
\* binding after that, in every situation but those that the rule misjudges.
THEOREM ClearReal ==
  ASSUME {"stranger beside own", "undecided beside own", "outdated kept", "left running", "unobservable held"}
           \cap Divergences = {}
  PROVE  Spec => []ClearIsReal
<1> DEFINE IInv == Typed /\ AsPlanned /\ OneContainer /\ ClearHolds
<1>1. Init => IInv
  BY InitTyped, InitAsPlanned, InitClear
<1>2. IInv /\ [Next]_vars => IInv'
  BY TypedStep, AsPlannedStep, OneContainerStep, ClearStep
<1>3. IInv => ClearIsReal
  BY DEF ClearHolds, Watched, ClearIsReal, Clear
<1> HIDE DEF IInv
<1>4. QED
  BY <1>1, <1>2, <1>3, PTL DEF Spec
=============================================================================

------------------------------ MODULE PortMatch ------------------------------
(***************************************************************************)
(* Whether two port bindings collide: app/witness/portmatch.go.            *)
(*                                                                         *)
(* A binding is a protocol, a port and a host address.  The tool compares  *)
(* what the plan asks for (a claim reduced from a publish) with what is    *)
(* held (a claim reduced from a container's publication or a listening     *)
(* socket), one address family at a time, and answers "yes", "none" or,    *)
(* when the family question cannot be settled offline, "unknown".          *)
(*                                                                         *)
(* The second half of the module is the reality the answer is about: the   *)
(* host addresses a binding takes on a host whose IPv6 is on or off and    *)
(* whose IPv6 wildcard sockets are dual-stack or not.                      *)
(***************************************************************************)
EXTENDS Naturals

CONSTANTS Addr4,    \* the IPv4 addresses of the host
          Addr6     \* its IPv6 addresses

\* What an address field may hold besides one address of the host.
Unnamed    == ""             \* a publish with no host_ip
AnyAddress == "*"            \* what `ss` prints for every interface
Wildcard4  == "0.0.0.0"
Wildcard6  == "::"
Unreadable == "${HOST_IP}"   \* text that is no address: an unresolved variable

Literals == {Unnamed, AnyAddress, Wildcard4, Wildcard6, Unreadable}
HostAddr == Addr4 \cup Addr6
Address  == HostAddr \cup Literals

ASSUME AddrAssumption == /\ Addr4 # {} /\ Addr6 # {}
                         /\ Addr4 \cap Addr6 = {}
                         /\ HostAddr \cap Literals = {}

Protocols == {"", "tcp", "tcp6", "udp", "udp6", "sctp"}

\* model.Port.V6Only: "" is "could not be read".
V6OnlySeen == {"", "yes", "no"}

\* model.Capabilities.IPv6: "" is "could not be read".
IPv6Seen == {"", "enabled", "disabled"}

-----------------------------------------------------------------------------

\* Mutant: the name of the table is taken for a protocol of its own.
BaseProtocolByTable(p) == IF p = "" THEN "tcp" ELSE p

\* "tcp6" names the table a socket was read from, and no protocol is "tcp".
BaseProtocol(p) == IF p \in {"", "tcp", "tcp6"} THEN "tcp"
                   ELSE IF p \in {"udp", "udp6"} THEN "udp" ELSE p

ObservableProtocol(p) == p \in {"tcp", "udp"}

\* The individual host ports a publish claims; a publish without one has none.
HostPorts(m) == IF m.hostPort = 0 THEN {}
                ELSE m.hostPort .. (IF m.hostPortEnd < m.hostPort THEN m.hostPort ELSE m.hostPortEnd)

\* A host range published to one container port: the engine binds one of it.
Dynamic(m) == /\ m.hostPortEnd > m.hostPort
              /\ m.containerPortEnd \in {0, m.containerPort}

MappingClaim(m, port) ==
  [protocol |-> BaseProtocol(m.protocol), port |-> port, address |-> m.address, v6only |-> ""]

SocketClaim(s) ==
  [protocol |-> BaseProtocol(s.protocol), port |-> s.port,
   address  |-> IF s.address = Unnamed THEN AnyAddress ELSE s.address,
   v6only   |-> s.v6only]

Readable(c) == c.address # Unreadable

\* Mutant: a socket on [::] is always dual-stack.
CoverageDualStack(c, v4, ipv6) ==
  IF c.address \in {AnyAddress, Wildcard6} THEN "all"
  ELSE IF c.address = Unnamed THEN
    IF v4 \/ ipv6 = "enabled" THEN "all" ELSE IF ipv6 = "disabled" THEN "none" ELSE "maybe"
  ELSE IF c.address = Wildcard4 THEN IF v4 THEN "all" ELSE "none"
  ELSE IF c.address \in (IF v4 THEN Addr4 ELSE Addr6) THEN "specific" ELSE "none"

\* Mutant: what was read of the host's IPv6 is not used.
CoverageIPv6Ignored(c, v4, ipv6) ==
  IF c.address = AnyAddress THEN "all"
  ELSE IF c.address = Unnamed THEN IF v4 THEN "all" ELSE "maybe"
  ELSE IF c.address = Wildcard4 THEN IF v4 THEN "all" ELSE "none"
  ELSE IF c.address = Wildcard6 THEN
    IF ~v4 \/ c.v6only = "no" THEN "all" ELSE IF c.v6only = "yes" THEN "none" ELSE "maybe"
  ELSE IF c.address \in (IF v4 THEN Addr4 ELSE Addr6) THEN "specific" ELSE "none"

\* What a claim holds inside one address family: nothing, everything, everything
\* if the host is configured that way, or exactly its own address.
Coverage(c, v4, ipv6) ==
  IF c.address = AnyAddress THEN "all"
  ELSE IF c.address = Unnamed THEN
    IF v4 \/ ipv6 = "enabled" THEN "all" ELSE IF ipv6 = "disabled" THEN "none" ELSE "maybe"
  ELSE IF c.address = Wildcard4 THEN
    IF v4 THEN "all" ELSE "none"
  ELSE IF c.address = Wildcard6 THEN
    IF ~v4 \/ c.v6only = "no" THEN "all" ELSE IF c.v6only = "yes" THEN "none" ELSE "maybe"
  ELSE IF c.address \in (IF v4 THEN Addr4 ELSE Addr6) THEN "specific" ELSE "none"

FamilyOverlap(ipv6, want, held, v4) ==
  LET covers == {Coverage(want, v4, ipv6), Coverage(held, v4, ipv6)}
  IN  IF "none" \in covers THEN "none"
      ELSE IF "maybe" \in covers THEN "unknown"
      ELSE IF covers = {"specific"} /\ want.address # held.address THEN "none"
      ELSE "yes"

\* The most pressing of a set of answers.
Worst(answers) == IF "yes" \in answers THEN "yes"
                  ELSE IF "unknown" \in answers THEN "unknown" ELSE "none"

Collides(ipv6, want, held) ==
  IF want.port # held.port \/ want.protocol # held.protocol THEN "none"
  ELSE IF ~Readable(want) \/ ~Readable(held) THEN "unknown"
  ELSE Worst({FamilyOverlap(ipv6, want, held, v4) : v4 \in BOOLEAN})

-----------------------------------------------------------------------------
(***************************************************************************)
(* Reality.  `on` is whether the host has IPv6, `only` whether the claim's *)
(* socket, if it is on [::], is IPv6-only.                                 *)
(***************************************************************************)

\* The host addresses a binding with a readable address takes.
Takes(b, on, only) ==
  IF b.address = AnyAddress \/ (b.address = Unnamed /\ on) \/ (b.address = Wildcard6 /\ ~only)
  THEN HostAddr
  ELSE IF b.address \in {Unnamed, Wildcard4} THEN Addr4
  ELSE IF b.address = Wildcard6 THEN Addr6
  ELSE {b.address} \cap HostAddr

\* One transport has one port space, whatever table or publish names it.
Transports == {{"", "tcp", "tcp6"}, {"udp", "udp6"}, {"sctp"}}
SameTransport(p, q) == \E T \in Transports : p \in T /\ q \in T

\* The two bindings cannot both exist on this host.
Clash(b, d, on, onlyB, onlyD) ==
  /\ SameTransport(b.protocol, d.protocol) /\ b.port = d.port
  /\ Takes(b, on, onlyB) \cap Takes(d, on, onlyD) # {}

\* What the tool read about the host and about a claim is true of this reality.
Truthful(ipv6, on)   == (ipv6 = "enabled" => on) /\ (ipv6 = "disabled" => ~on)
TrueOf(c, only)      == (c.v6only = "yes" => only) /\ (c.v6only = "no" => ~only)
=============================================================================

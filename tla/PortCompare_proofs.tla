-------------------------- MODULE PortCompare_proofs --------------------------
(***************************************************************************)
(* The answer of Collides is right about every host, for any set of IPv4   *)
(* and of IPv6 addresses and any ports.  The argument goes one address     *)
(* family at a time, as the code does: what Coverage says of a claim in a  *)
(* family is what its binding takes there, so the family's answer is right *)
(* in the family, and a clash is a clash in one of the two; then it is     *)
(* carried over to publishes and sockets.                                  *)
(***************************************************************************)
EXTENDS PortCompare, TLAPS

Family(v4) == IF v4 THEN Addr4 ELSE Addr6

\* Each literal is a value of its own, and no address of the host is one.
LEMMA AddressKinds ==
  ASSUME NEW a \in Address
  PROVE  /\ a \in HostAddr <=> a \notin Literals
         /\ a \in Addr4 => a \notin Addr6
BY AddrAssumption DEF Address, HostAddr

\* "all": the claim's binding takes every address of the family.
LEMMA CoverAll ==
  ASSUME NEW c, c.address \in Address, NEW v4 \in BOOLEAN, NEW seen \in IPv6Seen,
         NEW o \in BOOLEAN, NEW only \in BOOLEAN,
         Truthful(seen, o), TrueOf(c, only),
         Coverage(c, v4, seen) = "all"
  PROVE  Family(v4) \subseteq Takes(c, o, only)
BY AddressKinds DEF Coverage, Takes, Family, Truthful, TrueOf, HostAddr, IPv6Seen,
   Literals, AnyAddress, Unnamed, Wildcard4, Wildcard6, Unreadable

\* "none": it takes no address of the family.
LEMMA CoverNone ==
  ASSUME NEW c, c.address \in Address, Readable(c), NEW v4 \in BOOLEAN, NEW seen \in IPv6Seen,
         NEW o \in BOOLEAN, NEW only \in BOOLEAN,
         Truthful(seen, o), TrueOf(c, only),
         Coverage(c, v4, seen) = "none"
  PROVE  Family(v4) \cap Takes(c, o, only) = {}
BY AddressKinds, AddrAssumption
   DEF Coverage, Takes, Family, Truthful, TrueOf, HostAddr, IPv6Seen, Readable,
   Literals, AnyAddress, Unnamed, Wildcard4, Wildcard6, Unreadable

\* "specific": it takes its own address of the family and no other.
LEMMA CoverSpecific ==
  ASSUME NEW c, c.address \in Address, NEW v4 \in BOOLEAN, NEW seen \in IPv6Seen,
         NEW o \in BOOLEAN, NEW only \in BOOLEAN,
         Coverage(c, v4, seen) = "specific"
  PROVE  c.address \in Family(v4) /\ Takes(c, o, only) = {c.address}
BY AddressKinds, AddrAssumption
   DEF Coverage, Takes, Family, HostAddr,
   Literals, AnyAddress, Unnamed, Wildcard4, Wildcard6, Unreadable

LEMMA CoverageKinds ==
  ASSUME NEW c, NEW v4 \in BOOLEAN, NEW seen \in IPv6Seen
  PROVE  Coverage(c, v4, seen) \in {"all", "none", "maybe", "specific"}
BY DEF Coverage

\* A binding takes addresses of the host, each in one of the two families.
LEMMA FamiliesCover ==
  ASSUME NEW c, NEW o \in BOOLEAN, NEW only \in BOOLEAN
  PROVE  /\ Takes(c, o, only) \subseteq HostAddr
         /\ HostAddr = Family(TRUE) \cup Family(FALSE)
BY DEF Takes, HostAddr, Family

\* A family's "yes" is an address of the family that both bindings take.
LEMMA FamilyYes ==
  ASSUME NEW c, c.address \in Address, NEW d, d.address \in Address,
         NEW v4 \in BOOLEAN, NEW seen \in IPv6Seen, NEW o \in BOOLEAN,
         NEW onlyC \in BOOLEAN, NEW onlyD \in BOOLEAN,
         Truthful(seen, o), TrueOf(c, onlyC), TrueOf(d, onlyD),
         FamilyOverlap(seen, c, d, v4) = "yes"
  PROVE  Takes(c, o, onlyC) \cap Takes(d, o, onlyD) # {}
<1> DEFINE cc == Coverage(c, v4, seen)
           dc == Coverage(d, v4, seen)
<1>1. cc \in {"all", "specific"} /\ dc \in {"all", "specific"}
  BY CoverageKinds DEF FamilyOverlap
<1>2. cc = "specific" /\ dc = "specific" => c.address = d.address
  BY DEF FamilyOverlap
<1>3. Family(v4) # {}
  BY AddrAssumption DEF Family
<1>4. cc = "all" => Family(v4) \subseteq Takes(c, o, onlyC)
  BY CoverAll
<1>5. dc = "all" => Family(v4) \subseteq Takes(d, o, onlyD)
  BY CoverAll
<1>6. cc = "specific" => c.address \in Family(v4) /\ Takes(c, o, onlyC) = {c.address}
  BY CoverSpecific
<1>7. dc = "specific" => d.address \in Family(v4) /\ Takes(d, o, onlyD) = {d.address}
  BY CoverSpecific
<1> HIDE DEF cc, dc
<1>8. QED
  BY <1>1, <1>2, <1>3, <1>4, <1>5, <1>6, <1>7

\* A family's "none" leaves no address of the family to both.
LEMMA FamilyNone ==
  ASSUME NEW c, c.address \in Address, Readable(c), NEW d, d.address \in Address, Readable(d),
         NEW v4 \in BOOLEAN, NEW seen \in IPv6Seen, NEW o \in BOOLEAN,
         NEW onlyC \in BOOLEAN, NEW onlyD \in BOOLEAN,
         Truthful(seen, o), TrueOf(c, onlyC), TrueOf(d, onlyD),
         FamilyOverlap(seen, c, d, v4) = "none"
  PROVE  Takes(c, o, onlyC) \cap Takes(d, o, onlyD) \cap Family(v4) = {}
<1> DEFINE cc == Coverage(c, v4, seen)
           dc == Coverage(d, v4, seen)
<1>1. \/ cc = "none"
      \/ dc = "none"
      \/ cc = "specific" /\ dc = "specific" /\ c.address # d.address
  BY CoverageKinds DEF FamilyOverlap
<1>2. cc = "none" => Family(v4) \cap Takes(c, o, onlyC) = {}
  BY CoverNone
<1>3. dc = "none" => Family(v4) \cap Takes(d, o, onlyD) = {}
  BY CoverNone
<1>4. cc = "specific" => Takes(c, o, onlyC) = {c.address}
  BY CoverSpecific
<1>5. dc = "specific" => Takes(d, o, onlyD) = {d.address}
  BY CoverSpecific
<1> HIDE DEF cc, dc
<1>6. QED
  BY <1>1, <1>2, <1>3, <1>4, <1>5

\* A "yes" of Collides: one port, one protocol, and an address that both take.
LEMMA CollidesYes ==
  ASSUME NEW c, c.address \in Address, NEW d, d.address \in Address,
         NEW seen \in IPv6Seen, NEW o \in BOOLEAN,
         NEW onlyC \in BOOLEAN, NEW onlyD \in BOOLEAN,
         Truthful(seen, o), TrueOf(c, onlyC), TrueOf(d, onlyD),
         Collides(seen, c, d) = "yes"
  PROVE  /\ c.port = d.port /\ c.protocol = d.protocol
         /\ Takes(c, o, onlyC) \cap Takes(d, o, onlyD) # {}
<1>1. c.port = d.port /\ c.protocol = d.protocol
  BY DEF Collides, Worst
<1>2. \E v4 \in BOOLEAN : FamilyOverlap(seen, c, d, v4) = "yes"
  BY DEF Collides, Worst
<1>3. QED
  BY <1>1, <1>2, FamilyYes

\* A "none" of Collides for one port of one protocol: no address that both take.
LEMMA CollidesNone ==
  ASSUME NEW c, c.address \in Address, Readable(c), NEW d, d.address \in Address, Readable(d),
         c.port = d.port, c.protocol = d.protocol,
         NEW seen \in IPv6Seen, NEW o \in BOOLEAN,
         NEW onlyC \in BOOLEAN, NEW onlyD \in BOOLEAN,
         Truthful(seen, o), TrueOf(c, onlyC), TrueOf(d, onlyD),
         Collides(seen, c, d) = "none"
  PROVE  Takes(c, o, onlyC) \cap Takes(d, o, onlyD) = {}
<1>1. \A v4 \in BOOLEAN : FamilyOverlap(seen, c, d, v4) \in {"yes", "none", "unknown"}
  BY DEF FamilyOverlap
<1>2. \A v4 \in BOOLEAN : FamilyOverlap(seen, c, d, v4) = "none"
  BY <1>1 DEF Collides, Worst
<1>3. \A v4 \in BOOLEAN : Takes(c, o, onlyC) \cap Takes(d, o, onlyD) \cap Family(v4) = {}
  BY <1>2, FamilyNone
<1>4. QED
  BY <1>3, FamiliesCover

-----------------------------------------------------------------------------

\* Reducing a publish or a socket to a claim keeps what Collides looks at.
LEMMA ClaimKeeps ==
  ASSUME NEW b \in Publish \cup Socket
  PROVE  /\ ClaimOf(b).address = b.address /\ b.address \in Address
         /\ ClaimOf(b).v6only = b.v6only
         /\ ClaimOf(b).port = b.port
         /\ ClaimOf(b).protocol = BaseProtocol(b.protocol)
         /\ \A o, only \in BOOLEAN : Takes(ClaimOf(b), o, only) = Takes(b, o, only)
         /\ \A only \in BOOLEAN : TrueOf(ClaimOf(b), only) <=> TrueOf(b, only)
         /\ Readable(ClaimOf(b)) <=> Readable(b)
<1>1. /\ ClaimOf(b).address = b.address /\ b.address \in Address
      /\ ClaimOf(b).v6only = b.v6only
      /\ ClaimOf(b).port = b.port
      /\ ClaimOf(b).protocol = BaseProtocol(b.protocol)
  BY DEF Publish, Socket, ClaimOf, SocketClaim, MappingClaim, Address, Literals,
     Unnamed, AnyAddress, Wildcard4, Wildcard6, Unreadable
<1>2. QED
  BY <1>1 DEF Takes, TrueOf, Readable

\* Two names of a protocol have one base exactly when they share a port space.
LEMMA BaseIsTransport ==
  ASSUME NEW p \in Protocols, NEW q \in Protocols
  PROVE  BaseProtocol(p) = BaseProtocol(q) <=> SameTransport(p, q)
BY DEF Protocols, BaseProtocol, SameTransport, Transports

-----------------------------------------------------------------------------

\* A "yes" of Collides is a clash in every reality that what was read allows.
LEMMA YesIsClash ==
  ASSUME NEW b \in Publish \cup Socket, NEW d \in Publish \cup Socket,
         NEW seen \in IPv6Seen, NEW o \in BOOLEAN,
         NEW onlyB \in BOOLEAN, NEW onlyD \in BOOLEAN,
         Truthful(seen, o), TrueOf(b, onlyB), TrueOf(d, onlyD),
         Collides(seen, ClaimOf(b), ClaimOf(d)) = "yes"
  PROVE  Clash(b, d, o, onlyB, onlyD)
<1> DEFINE B == ClaimOf(b)
           D == ClaimOf(d)
<1>1. /\ B.address \in Address /\ D.address \in Address
      /\ TrueOf(B, onlyB) /\ TrueOf(D, onlyD)
  BY ClaimKeeps
<1>2. B.port = D.port /\ B.protocol = D.protocol
  BY <1>1, CollidesYes
<1>3. Takes(B, o, onlyB) \cap Takes(D, o, onlyD) # {}
  BY <1>1, CollidesYes
<1>4. Takes(b, o, onlyB) \cap Takes(d, o, onlyD) # {}
  BY <1>3, ClaimKeeps
<1>5. b.port = d.port
  BY <1>2, ClaimKeeps
<1>6. b.protocol \in Protocols /\ d.protocol \in Protocols
  BY DEF Publish, Socket
<1>7. SameTransport(b.protocol, d.protocol)
  BY <1>2, <1>6, ClaimKeeps, BaseIsTransport
<1>8. QED
  BY <1>4, <1>5, <1>7 DEF Clash

\* A "none" of Collides is no clash in any of them.
LEMMA NoneIsDisjoint ==
  ASSUME NEW b \in Publish \cup Socket, NEW d \in Publish \cup Socket,
         Readable(b), Readable(d),
         NEW seen \in IPv6Seen, NEW o \in BOOLEAN,
         NEW onlyB \in BOOLEAN, NEW onlyD \in BOOLEAN,
         Truthful(seen, o), TrueOf(b, onlyB), TrueOf(d, onlyD),
         Collides(seen, ClaimOf(b), ClaimOf(d)) = "none"
  PROVE  ~Clash(b, d, o, onlyB, onlyD)
<1> DEFINE B == ClaimOf(b)
           D == ClaimOf(d)
<1>1. b.protocol \in Protocols /\ d.protocol \in Protocols
  BY DEF Publish, Socket
<1>2. CASE B.port # D.port \/ B.protocol # D.protocol
  <2>1. b.port # d.port \/ BaseProtocol(b.protocol) # BaseProtocol(d.protocol)
    BY <1>2, ClaimKeeps
  <2>2. QED
    BY <1>1, <2>1, BaseIsTransport DEF Clash
<1>3. CASE B.port = D.port /\ B.protocol = D.protocol
  <2>1. /\ B.address \in Address /\ D.address \in Address
        /\ Readable(B) /\ Readable(D)
        /\ TrueOf(B, onlyB) /\ TrueOf(D, onlyD)
    BY ClaimKeeps
  <2>2. Takes(B, o, onlyB) \cap Takes(D, o, onlyD) = {}
    BY <1>3, <2>1, CollidesNone
  <2>3. Takes(b, o, onlyB) \cap Takes(d, o, onlyD) = {}
    BY <2>2, ClaimKeeps
  <2>4. QED
    BY <2>3 DEF Clash
<1>4. QED
  BY <1>2, <1>3

(***************************************************************************)
(* What was read leaves two realities at the ends: the one in which the    *)
(* bindings take the least, and the one in which they take the most.       *)
(***************************************************************************)

LeastOn(seen) == seen = "enabled"
MostOn(seen)  == seen # "disabled"
LeastOnly(c)  == c.v6only # "no"
MostOnly(c)   == c.v6only = "yes"

\* Both are realities that what was read allows.
LEMMA EndsAreTrue ==
  ASSUME NEW c, NEW seen \in IPv6Seen
  PROVE  /\ Truthful(seen, LeastOn(seen)) /\ Truthful(seen, MostOn(seen))
         /\ TrueOf(c, LeastOnly(c)) /\ TrueOf(c, MostOnly(c))
BY DEF Truthful, TrueOf, LeastOn, MostOn, LeastOnly, MostOnly, IPv6Seen

\* "maybe" is nothing of the family in the first...
LEMMA LeastOfMaybe ==
  ASSUME NEW c, c.address \in Address, NEW v4 \in BOOLEAN, NEW seen \in IPv6Seen,
         Coverage(c, v4, seen) = "maybe"
  PROVE  Family(v4) \cap Takes(c, LeastOn(seen), LeastOnly(c)) = {}
BY AddressKinds, AddrAssumption
   DEF Coverage, Takes, Family, LeastOn, LeastOnly, HostAddr, IPv6Seen,
   Literals, AnyAddress, Unnamed, Wildcard4, Wildcard6, Unreadable

\* ... and all of it in the second.
LEMMA MostOfMaybe ==
  ASSUME NEW c, c.address \in Address, NEW v4 \in BOOLEAN, NEW seen \in IPv6Seen,
         Coverage(c, v4, seen) = "maybe"
  PROVE  Family(v4) \subseteq Takes(c, MostOn(seen), MostOnly(c))
BY AddressKinds, AddrAssumption
   DEF Coverage, Takes, Family, MostOn, MostOnly, HostAddr, IPv6Seen,
   Literals, AnyAddress, Unnamed, Wildcard4, Wildcard6, Unreadable

\* A family that is not certain to overlap need not.
LEMMA FamilyLeast ==
  ASSUME NEW c, c.address \in Address, Readable(c), NEW d, d.address \in Address, Readable(d),
         NEW v4 \in BOOLEAN, NEW seen \in IPv6Seen,
         FamilyOverlap(seen, c, d, v4) # "yes"
  PROVE  Takes(c, LeastOn(seen), LeastOnly(c)) \cap Takes(d, LeastOn(seen), LeastOnly(d)) \cap Family(v4) = {}
<1> DEFINE cc == Coverage(c, v4, seen)
           dc == Coverage(d, v4, seen)
<1>1. \/ cc \in {"none", "maybe"}
      \/ dc \in {"none", "maybe"}
      \/ cc = "specific" /\ dc = "specific" /\ c.address # d.address
  BY CoverageKinds DEF FamilyOverlap
<1>2. LeastOn(seen) \in BOOLEAN /\ LeastOnly(c) \in BOOLEAN /\ LeastOnly(d) \in BOOLEAN
  BY DEF LeastOn, LeastOnly
<1>3. cc \in {"none", "maybe"} => Family(v4) \cap Takes(c, LeastOn(seen), LeastOnly(c)) = {}
  BY <1>2, CoverNone, LeastOfMaybe, EndsAreTrue
<1>4. dc \in {"none", "maybe"} => Family(v4) \cap Takes(d, LeastOn(seen), LeastOnly(d)) = {}
  BY <1>2, CoverNone, LeastOfMaybe, EndsAreTrue
<1>5. cc = "specific" => Takes(c, LeastOn(seen), LeastOnly(c)) = {c.address}
  BY <1>2, CoverSpecific
<1>6. dc = "specific" => Takes(d, LeastOn(seen), LeastOnly(d)) = {d.address}
  BY <1>2, CoverSpecific
<1> HIDE DEF cc, dc
<1>7. QED
  BY <1>1, <1>3, <1>4, <1>5, <1>6

\* A family that is not certain not to overlap may.
LEMMA FamilyMost ==
  ASSUME NEW c, c.address \in Address, NEW d, d.address \in Address,
         NEW v4 \in BOOLEAN, NEW seen \in IPv6Seen,
         FamilyOverlap(seen, c, d, v4) # "none"
  PROVE  Takes(c, MostOn(seen), MostOnly(c)) \cap Takes(d, MostOn(seen), MostOnly(d)) # {}
<1> DEFINE cc == Coverage(c, v4, seen)
           dc == Coverage(d, v4, seen)
<1>1. /\ cc \in {"all", "maybe", "specific"} /\ dc \in {"all", "maybe", "specific"}
      /\ cc = "specific" /\ dc = "specific" => c.address = d.address
  BY CoverageKinds DEF FamilyOverlap
<1>2. MostOn(seen) \in BOOLEAN /\ MostOnly(c) \in BOOLEAN /\ MostOnly(d) \in BOOLEAN
  BY DEF MostOn, MostOnly
<1>3. cc \in {"all", "maybe"} => Family(v4) \subseteq Takes(c, MostOn(seen), MostOnly(c))
  BY <1>2, CoverAll, MostOfMaybe, EndsAreTrue
<1>4. dc \in {"all", "maybe"} => Family(v4) \subseteq Takes(d, MostOn(seen), MostOnly(d))
  BY <1>2, CoverAll, MostOfMaybe, EndsAreTrue
<1>5. cc = "specific" => c.address \in Family(v4) /\ Takes(c, MostOn(seen), MostOnly(c)) = {c.address}
  BY <1>2, CoverSpecific
<1>6. dc = "specific" => d.address \in Family(v4) /\ Takes(d, MostOn(seen), MostOnly(d)) = {d.address}
  BY <1>2, CoverSpecific
<1>7. Family(v4) # {}
  BY AddrAssumption DEF Family
<1> HIDE DEF cc, dc
<1>8. QED
  BY <1>1, <1>3, <1>4, <1>5, <1>6, <1>7

\* An "unknown" of Collides clashes in one of the two realities and not in the other.
LEMMA UnknownIsBetween ==
  ASSUME NEW b \in Publish \cup Socket, NEW d \in Publish \cup Socket,
         Readable(b), Readable(d), NEW seen \in IPv6Seen,
         Collides(seen, ClaimOf(b), ClaimOf(d)) = "unknown"
  PROVE  /\ ~Clash(b, d, LeastOn(seen), LeastOnly(b), LeastOnly(d))
         /\ Clash(b, d, MostOn(seen), MostOnly(b), MostOnly(d))
<1> DEFINE B == ClaimOf(b)
           D == ClaimOf(d)
<1>1. /\ B.address \in Address /\ D.address \in Address /\ Readable(B) /\ Readable(D)
      /\ LeastOnly(B) = LeastOnly(b) /\ LeastOnly(D) = LeastOnly(d)
      /\ MostOnly(B) = MostOnly(b) /\ MostOnly(D) = MostOnly(d)
  BY ClaimKeeps DEF LeastOnly, MostOnly
<1>2. /\ B.port = D.port /\ B.protocol = D.protocol
      /\ \A v4 \in BOOLEAN : FamilyOverlap(seen, B, D, v4) # "yes"
      /\ \E v4 \in BOOLEAN : FamilyOverlap(seen, B, D, v4) # "none"
  BY <1>1 DEF Collides, Worst
<1>3. \A v4 \in BOOLEAN : Takes(B, LeastOn(seen), LeastOnly(B)) \cap Takes(D, LeastOn(seen), LeastOnly(D)) \cap Family(v4) = {}
  BY <1>1, <1>2, FamilyLeast
<1>4. /\ LeastOn(seen) \in BOOLEAN /\ LeastOnly(b) \in BOOLEAN /\ LeastOnly(d) \in BOOLEAN
      /\ MostOn(seen) \in BOOLEAN /\ MostOnly(b) \in BOOLEAN /\ MostOnly(d) \in BOOLEAN
  BY DEF LeastOn, LeastOnly, MostOn, MostOnly
<1>5. Takes(B, LeastOn(seen), LeastOnly(b)) \cap Takes(D, LeastOn(seen), LeastOnly(d)) = {}
  BY <1>1, <1>3, <1>4, FamiliesCover
<1>6. Takes(B, MostOn(seen), MostOnly(b)) \cap Takes(D, MostOn(seen), MostOnly(d)) # {}
  BY <1>1, <1>2, FamilyMost
<1>7. /\ Takes(b, LeastOn(seen), LeastOnly(b)) \cap Takes(d, LeastOn(seen), LeastOnly(d)) = {}
      /\ Takes(b, MostOn(seen), MostOnly(b)) \cap Takes(d, MostOn(seen), MostOnly(d)) # {}
  BY <1>4, <1>5, <1>6, ClaimKeeps
<1>8. b.port = d.port /\ SameTransport(b.protocol, d.protocol)
  <2>1. b.protocol \in Protocols /\ d.protocol \in Protocols
    BY DEF Publish, Socket
  <2>2. QED
    BY <1>2, <2>1, ClaimKeeps, BaseIsTransport
<1>9. QED
  BY <1>7, <1>8 DEF Clash

-----------------------------------------------------------------------------

\* The answer, once given, is the one Collides computes from the same claims and
\* from the same reading of the host: the strengthening the two properties need.
Answered == answer # "" => answer = Collides(ipv6, ClaimOf(want), ClaimOf(held))

IInv == TypeOK /\ Known /\ Answered

LEMMA CollidesKinds ==
  ASSUME NEW c, NEW d, NEW seen
  PROVE  Collides(seen, c, d) \in {"none", "unknown", "yes"}
BY DEF Collides, Worst

LEMMA InvInductive == Spec => []IInv
<1>1. Init => IInv
  BY DEF Init, IInv, TypeOK, Known, Answered
<1>2. IInv /\ [Next]_vars => IInv'
  <2> SUFFICES ASSUME IInv, [Next]_vars PROVE IInv'
    OBVIOUS
  <2>1. CASE Compare
    <3>1. answer' = Collides(ipv6, ClaimOf(want), ClaimOf(held))
      BY <2>1 DEF Compare
    <3>2. UNCHANGED <<want, held, ipv6, on, wantOnly, heldOnly>>
      BY <2>1 DEF Compare
    <3>3. TypeOK'
      BY <3>1, <3>2, CollidesKinds DEF IInv, TypeOK
    <3>4. Known'
      BY <3>2 DEF IInv, Known
    <3>5. Answered'
      BY <3>1, <3>2 DEF Answered
    <3>6. QED
      BY <3>3, <3>4, <3>5 DEF IInv
  <2>2. CASE UNCHANGED vars
    BY <2>2 DEF vars, IInv, TypeOK, Known, Answered
  <2>3. QED
    BY <2>1, <2>2 DEF Next
<1>3. QED
  BY <1>1, <1>2, PTL DEF Spec

\* Every comparison works on well-formed claims and ends in one of the answers.
THEOREM Typed == Spec => []TypeOK
<1>1. IInv => TypeOK
  BY DEF IInv
<1>2. QED
  BY <1>1, InvInductive, PTL

\* A certain overlap, the one that becomes a blocker, is a clash on this host,
\* whatever its addresses: portmatch.go never manufactures a conflict.
THEOREM OverlapSound == Spec => []OverlapIsReal
<1>1. IInv => OverlapIsReal
  BY YesIsClash DEF IInv, TypeOK, Known, Answered, OverlapIsReal
<1>2. QED
  BY <1>1, InvInductive, PTL

\* A holder that portHolders drops can coexist with the plan's binding on this
\* host, whatever its addresses: portmatch.go never loses a conflict.
THEOREM DisjointSound == Spec => []DisjointIsReal
<1>1. IInv => DisjointIsReal
  BY NoneIsDisjoint DEF IInv, TypeOK, Known, Answered, DisjointIsReal
<1>2. QED
  BY <1>1, InvInductive, PTL
\* "unknown" is said only where what was read leaves both open, on every host: the
\* third answer of portmatch.go is never a shrug.
THEOREM UnknownNeeded == Spec => []UnknownIsOpen
<1>1. IInv => UnknownIsOpen
  <2> SUFFICES ASSUME IInv, answer = "unknown", Readable(want), Readable(held), NEW clash \in BOOLEAN
               PROVE  \E o, w, h \in BOOLEAN :
                        /\ Truthful(ipv6, o) /\ TrueOf(want, w) /\ TrueOf(held, h)
                        /\ Clash(want, held, o, w, h) = clash
    BY DEF UnknownIsOpen
  <2>1. /\ ~Clash(want, held, LeastOn(ipv6), LeastOnly(want), LeastOnly(held))
        /\ Clash(want, held, MostOn(ipv6), MostOnly(want), MostOnly(held))
    BY UnknownIsBetween DEF IInv, TypeOK, Answered
  <2>2. /\ Truthful(ipv6, LeastOn(ipv6)) /\ TrueOf(want, LeastOnly(want)) /\ TrueOf(held, LeastOnly(held))
        /\ Truthful(ipv6, MostOn(ipv6)) /\ TrueOf(want, MostOnly(want)) /\ TrueOf(held, MostOnly(held))
    BY EndsAreTrue DEF IInv, TypeOK
  <2>3. /\ LeastOn(ipv6) \in BOOLEAN /\ LeastOnly(want) \in BOOLEAN /\ LeastOnly(held) \in BOOLEAN
        /\ MostOn(ipv6) \in BOOLEAN /\ MostOnly(want) \in BOOLEAN /\ MostOnly(held) \in BOOLEAN
    BY DEF LeastOn, LeastOnly, MostOn, MostOnly
  <2>4. CASE clash = TRUE
    BY <2>1, <2>2, <2>3, <2>4 DEF Clash
  <2>5. CASE clash = FALSE
    BY <2>1, <2>2, <2>3, <2>5 DEF Clash
  <2>6. QED
    BY <2>4, <2>5
<1>2. QED
  BY <1>1, InvInductive, PTL
=============================================================================

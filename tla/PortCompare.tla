----------------------------- MODULE PortCompare -----------------------------
(***************************************************************************)
(* One comparison of the port rule against one reality of the host: what   *)
(* was read about the host is true of it, and the answer of Collides has   *)
(* to be right about it.                                                   *)
(***************************************************************************)
EXTENDS PortMatch

CONSTANT Port       \* the port numbers compared

ASSUME PortAssumption == Port \subseteq Nat

VARIABLES want,            \* a published port of the plan
          held,            \* a listening socket, or a container's published port
          ipv6,            \* what was read of the host's IPv6
          on, wantOnly, heldOnly,  \* what is true of the host and of the two sockets
          answer           \* "" before the comparison

vars == <<want, held, ipv6, on, wantOnly, heldOnly, answer>>

\* A publish never names "*" nor says whether its socket is IPv6-only; a socket
\* always names an address, and the flag is read for sockets on [::] alone.
Publish == [isSocket : {FALSE}, protocol : Protocols, port : Port,
            address : Address \ {AnyAddress}, v6only : {""}]
Socket  == [isSocket : {TRUE}, protocol : Protocols \ {""}, port : Port,
            address : Address \ {Unnamed, Wildcard6}, v6only : {""}]
           \cup [isSocket : {TRUE}, protocol : Protocols \ {""}, port : Port,
                 address : {Wildcard6}, v6only : V6OnlySeen]

ClaimOf(b) == IF b.isSocket THEN SocketClaim(b) ELSE MappingClaim(b, b.port)

Init == /\ want \in Publish
        /\ held \in Publish \cup Socket
        /\ ipv6 \in IPv6Seen
        /\ on \in BOOLEAN /\ wantOnly \in BOOLEAN /\ heldOnly \in BOOLEAN
        /\ Truthful(ipv6, on)
        /\ TrueOf(want, wantOnly) /\ TrueOf(held, heldOnly)
        /\ answer = ""

Compare == /\ answer = ""
           /\ answer' = Collides(ipv6, ClaimOf(want), ClaimOf(held))
           /\ UNCHANGED <<want, held, ipv6, on, wantOnly, heldOnly>>

Next == Compare

Spec == Init /\ [][Next]_vars

-----------------------------------------------------------------------------

\* Type correctness.
TypeOK == /\ want \in Publish /\ held \in Publish \cup Socket
          /\ ipv6 \in IPv6Seen
          /\ on \in BOOLEAN /\ wantOnly \in BOOLEAN /\ heldOnly \in BOOLEAN
          /\ answer \in {"", "none", "unknown", "yes"}

\* What was read stays true: nothing changes the reality during a comparison.
Known == /\ Truthful(ipv6, on)
         /\ TrueOf(want, wantOnly) /\ TrueOf(held, heldOnly)

\* A certain overlap is a real one: portConflictFinding turns it into a blocker,
\* and a blocker on bindings that can coexist is the false blocker.
OverlapIsReal == answer = "yes" => Clash(want, held, on, wantOnly, heldOnly)

\* "No overlap" is real as well: portHolders drops such a holder without a word,
\* so a wrong "none" is a port reported as free that the engine cannot bind.
DisjointIsReal ==
  answer = "none" /\ Readable(want) /\ Readable(held) => ~Clash(want, held, on, wantOnly, heldOnly)

\* The third answer is given only where it is needed: what was read about the
\* host admits a reality in which the two bindings clash and one in which they
\* do not.
UnknownIsOpen ==
  answer = "unknown" /\ Readable(want) /\ Readable(held) =>
    \A clash \in BOOLEAN : \E o, w, h \in BOOLEAN :
      /\ Truthful(ipv6, o) /\ TrueOf(want, w) /\ TrueOf(held, h)
      /\ Clash(want, held, o, w, h) = clash
=============================================================================

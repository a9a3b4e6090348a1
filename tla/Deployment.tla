------------------------------ MODULE Deployment ------------------------------
(***************************************************************************)
(* An audit of the published ports followed by the deployment it is about: *)
(* the ports section reads the listening sockets, the witness section      *)
(* lists the engine's containers, the port rule compares both with the     *)
(* plan (audit.go, audit/witness.go), and then `docker compose up` runs.   *)
(*                                                                         *)
(* The host and Compose are the environment, modelled from what the code   *)
(* and its comments hold of them: Compose looks at a container's project   *)
(* label alone, removes or recreates what it has to before it starts       *)
(* anything, and a start fails when a binding it needs is taken.  Between  *)
(* the reads and the deployment a process or a container may come or go.   *)
(***************************************************************************)
EXTENDS PortConflict, FiniteSets

CONSTANTS Families,    \* families of situations an audit may find: see Init
          Newcomers,   \* listeners that may start while the audit runs
          Divergences  \* which of the situations the code misjudges are included

VARIABLES plan,        \* the planned run
          facts,       \* what holds of the host and how well each source can be read
          containers,  \* the containers on the host
          listeners,   \* the sockets of processes outside any container
          sockets,     \* the sockets the ports section read
          listed,      \* the containers the engine listed
          findings,    \* the port rule's findings
          outcome,     \* its outcome
          phase,       \* "ports", "list", "compare", "up", "converge", "start"
          up,          \* what `up` did about each service
          gained, lost \* a binding was taken, or released, after the first read

-----------------------------------------------------------------------------
(***************************************************************************)
(* The situations.                                                         *)
(***************************************************************************)

\* A publish without a host port has no host range, and none names "*".
Mapping == {m \in [address : Address \ {AnyAddress}, hostPort : Nat, hostPortEnd : Nat,
                   containerPort : Nat, containerPortEnd : Nat, protocol : Protocols] :
              m.hostPort = 0 => m.hostPortEnd = 0}

IsService(svc) ==
  svc.network \in {"bridge", "host"} /\ svc.publishes \subseteq Mapping /\ svc.expose \subseteq Nat

\* The hashes are those of the planned services (`compose config --hash`), if any.
IsPlan(p) ==
  /\ p.project # None /\ None \notin p.services
  /\ \A s \in p.services : IsService(p.svc[s])
  /\ DOMAIN p.hashes \subseteq p.services
  /\ \A s \in DOMAIN p.hashes : p.hashes[s] = p.svc[s].hash
  /\ {p.removeOrphans, p.forceRecreate, p.noRecreate} \subseteq BOOLEAN

Facts == [on : BOOLEAN, ipv6Read : BOOLEAN, ss : BOOLEAN,
          engine : {"complete", "partial", "failed", "absent"},
          socketsRead : {"complete", "partial", "failed"}, portsUnchecked : BOOLEAN,
          hostIP : Address \ {AnyAddress, Unreadable}, churn : BOOLEAN]

\* Compose writes its labels together, and the engine publishes at an address.
IsContainer(c) ==
  /\ c = [labelled |-> c.labelled, project |-> c.project, service |-> c.service, dir |-> c.dir,
          oneOff |-> c.oneOff, hash |-> c.hash, state |-> c.state, network |-> c.network,
          publishes |-> c.publishes, expose |-> c.expose, new |-> c.new]
  /\ {c.labelled, c.oneOff, c.new} \subseteq BOOLEAN
  /\ c.project # None => c.labelled /\ c.service # None
  /\ c.state \in {"created", "running", "exited"} /\ IsService(c)
  /\ c.state = "running" /\ c.network = "bridge" => \A m \in c.publishes : m.address # Unreadable

Listening == [protocol : Protocols \ {""}, port : Nat,
              address : Address \ {Unnamed, Unreadable}, only : BOOLEAN]

ASSUME SituationsTyped ==
  /\ \A f \in Families :
       /\ \A p \in f.plans : IsPlan(p)
       /\ f.facts \subseteq Facts
       /\ \A cs \in f.containers : \A c \in cs : IsContainer(c) /\ ~c.new
       /\ \A ls \in f.listeners : ls \subseteq Listening
  /\ Newcomers \subseteq Listening

-----------------------------------------------------------------------------

host == <<containers, listeners>>
read == <<sockets, listed>>
told == <<findings, outcome>>
vars == <<plan, facts, host, read, told, phase, up, gained, lost>>

-----------------------------------------------------------------------------
(***************************************************************************)
(* The host.                                                               *)
(***************************************************************************)

\* An address a publish leaves to a variable resolves to one the tool cannot know.
Real(m) == [m EXCEPT !.address = IF @ = Unreadable THEN facts.hostIP ELSE @]

\* One host port of a publish, as a publish of its own.
Fixed(m, p) == [address |-> Real(m).address, hostPort |-> p, hostPortEnd |-> 0,
                containerPort |-> m.containerPort, containerPortEnd |-> 0, protocol |-> m.protocol]

Endpoints(protocol, port, addresses) ==
  {[protocol |-> BaseProtocol(protocol), port |-> port, address |-> a] : a \in addresses}

\* The engine's sockets on [::] are IPv6-only; an application on the host's network
\* stack is taken to listen on every address.
PublishTakes(m) == UNION {Endpoints(m.protocol, p, Takes(MappingClaim(m, p), facts.on, TRUE)) : p \in HostPorts(m)}

Listens(c) == UNION {Endpoints(d.protocol, d.port, Takes([address |-> Unnamed], facts.on, FALSE)) : d \in DeclaredPorts(c)}

ContainerTakes(c) ==
  IF c.state # "running" THEN {}
  ELSE IF c.network = "host" THEN Listens(c)
  ELSE UNION {PublishTakes(m) : m \in c.publishes}

ListenerTakes(l) == Endpoints(l.protocol, l.port, Takes(l, facts.on, l.only))

Held == UNION ({ContainerTakes(c) : c \in containers} \cup {ListenerTakes(l) : l \in listeners})

\* Nothing is bound twice, and an IPv6 address only where there is IPv6.
HostIsPossible ==
  /\ \A c, d \in containers : c # d => ContainerTakes(c) \cap ContainerTakes(d) = {}
  /\ \A c \in containers, l \in listeners : ContainerTakes(c) \cap ListenerTakes(l) = {}
  /\ \A k, l \in listeners : k # l => ListenerTakes(k) \cap ListenerTakes(l) = {}
  /\ ~facts.on => \A e \in Held : e.address \in Addr4

\* A binding that can be made beside what is there.
Bindable(endpoints) ==
  endpoints \cap Held = {} /\ (~facts.on => \A e \in endpoints : e.address \in Addr4)

-----------------------------------------------------------------------------
(***************************************************************************)
(* What is read of it.                                                     *)
(***************************************************************************)

\* Whether a socket on [::] is IPv6-only is what `ss` alone shows.
V6OnlyRead(address, only) ==
  IF address # Wildcard6 \/ ~facts.ss THEN "" ELSE IF only THEN "yes" ELSE "no"

SocketAt(protocol, port, address, only) ==
  [protocol |-> protocol, port |-> port, address |-> address, v6only |-> V6OnlyRead(address, only)]

\* A publish that names no address is two bindings on a host with IPv6.
EngineAddresses(m) ==
  IF m.address # Unnamed THEN {m.address}
  ELSE IF facts.on THEN {Wildcard4, Wildcard6} ELSE {Wildcard4}

\* The sockets of docker-proxy for a publish, of an application on the host's network
\* stack for a port it declares, and of a process.
ProxySocket(m, p, a) == SocketAt(m.protocol, p, a, TRUE)
OwnSocket(d)         == SocketAt(d.protocol, d.port, IF facts.on THEN Wildcard6 ELSE Wildcard4, FALSE)
ListenerSocket(l)    == SocketAt(l.protocol, l.port, l.address, l.only)

ProxySockets(m) == UNION {{ProxySocket(m, p, a) : p \in HostPorts(m)} : a \in EngineAddresses(m)}

\* The raw sockets of a container.
ContainerSockets(c) ==
  IF c.state # "running" THEN {}
  ELSE IF c.network = "host" THEN {OwnSocket(d) : d \in DeclaredPorts(c)}
  ELSE UNION {ProxySockets(m) : m \in c.publishes}

\* The sockets there are a table of: /proc/net has one for TCP and one for UDP.
AllSockets ==
  {s \in (UNION {ContainerSockets(c) : c \in containers}) \cup {ListenerSocket(l) : l \in listeners} :
     ObservableProtocol(BaseProtocol(s.protocol))}

\* A container as the engine lists it: only a running one on a bridge has publishes.
Listing(c) ==
  [c EXCEPT !.publishes = IF c.state # "running" \/ c.network = "host" THEN {}
                          ELSE UNION {{[m EXCEPT !.address = a] : a \in EngineAddresses(m)} : m \in @}]

\* What a source that is read in full, in part or not at all may return.
ReadOf(all, state) == CASE state = "complete" -> {all}
                        [] state = "partial"  -> SUBSET all
                        [] state \in {"failed", "absent"} -> {{}}

\* The rule's input, from sockets s and containers cs.
RuleInput(s, cs) ==
  [plan |-> plan, containers |-> {Listing(c) : c \in cs}, listed |-> facts.engine,
   sockets |-> s, socketsRead |-> facts.socketsRead, portsUnchecked |-> facts.portsUnchecked,
   ipv6 |-> IF ~facts.ipv6Read THEN "" ELSE IF facts.on THEN "enabled" ELSE "disabled"]

-----------------------------------------------------------------------------
(***************************************************************************)
(* What Compose goes by.                                                   *)
(***************************************************************************)

\* What Compose takes for this project's: by the project label alone.
Composed(c) == c.project = plan.project /\ ~c.oneOff

Kept(c) == ~plan.forceRecreate /\ (plan.noRecreate \/ c.hash = plan.svc[c.service].hash)

\* The publishes a container ends up with: of a range to one container port, one.
PublishChoices(ms) ==
  LET Choices(m) == {Fixed(m, p) : p \in HostPorts(m)}
      dynamic    == {m \in ms : Dynamic(m)}
      static     == UNION {Choices(m) : m \in ms \ dynamic}
  IN  {static \cup {pick[m] : m \in dynamic} :
         pick \in {f \in [dynamic -> UNION {Choices(m) : m \in dynamic}] : \A m \in dynamic : f[m] \in Choices(m)}}

\* A container made from a service of the plan: its publishes are those configured,
\* and of one that runs on a bridge those that the engine bound.
MadeFrom(c, svc) ==
  /\ c.network = svc.network /\ c.expose = svc.expose
  /\ IF c.network = "host" \/ c.state # "running" THEN c.publishes = svc.publishes
     ELSE c.publishes \in PublishChoices(svc.publishes)

\* The container in another state, with other ports published.
In(c, state, publishes) == [[c EXCEPT !.state = state] EXCEPT !.publishes = publishes]

\* One that stops has the publishes it was configured with again: of the containers that
\* Compose may start once more, the plan's.
Exited(c) ==
  In(c, "exited", IF Composed(c) /\ c.service \in plan.services /\ c.hash = plan.svc[c.service].hash
                  THEN plan.svc[c.service].publishes ELSE c.publishes)

\* A service has one container, and one with the plan's hash is made from the plan.
\* Without an engine there is none.
HostIsComposed ==
  /\ \A c, d \in containers :
       Composed(c) /\ Composed(d) /\ c.service = d.service /\ c.service \in plan.services => c = d
  /\ \A c \in containers :
       Composed(c) /\ c.service \in plan.services /\ c.hash = plan.svc[c.service].hash
       => MadeFrom(c, plan.svc[c.service])
  /\ facts.engine = "absent" => containers = {}

\* What a planned service binds, and what the plan does.
Wants(s) == ContainerTakes([state |-> "running", network |-> plan.svc[s].network, expose |-> plan.svc[s].expose,
                            publishes |-> {Real(m) : m \in plan.svc[s].publishes}])

Wanted == UNION {Wants(s) : s \in plan.services}

-----------------------------------------------------------------------------
(***************************************************************************)
(* The situations in which the rule and the deployment part.               *)
(***************************************************************************)

\* The claim of a planned publish, and a container whose publishes may overlap it.
Claims == UNION {UNION {{MappingClaim(m, p) : p \in HostPorts(m)} : m \in plan.svc[s].publishes} : s \in plan.services}

OverlapOf(want, c) == ContainerOverlap(RuleInput({}, {}), want, Listing(c))

\* A process, or a container that the engine does not list or that publishes nothing,
\* holds a wanted binding, or part of it, and a container that the plan releases may hold
\* another part: the rule takes every socket for that container's.
StrangerBesideOwn ==
  /\ \E c \in containers, want \in Claims : Released(plan, c) /\ OverlapOf(want, c) # "none"
  /\ \/ \E l \in listeners : ListenerTakes(l) \cap Wanted # {}
     \/ \E c \in containers : /\ facts.engine = "partial" \/ c.network = "host"
                              /\ ~Released(plan, c) /\ ContainerTakes(c) \cap Wanted # {}

\* A container the plan releases may hold a wanted binding, and whether another holds
\* it too could not be decided: the rule says that nothing is blocked.
UndecidedBesideOwn ==
  \E c, d \in containers, want \in Claims :
    /\ Released(plan, c) /\ OverlapOf(want, c) # "none"
    /\ ~Released(plan, d) /\ OverlapOf(want, d) = "unknown"

\* --no-recreate keeps a container whose configuration is no longer the plan's: the
\* rule takes it for released.
OutdatedKept ==
  /\ plan.noRecreate /\ ~plan.forceRecreate
  /\ \E c \in containers : /\ Released(plan, c) /\ c.service \in plan.services
                           /\ c.hash # plan.svc[c.service].hash

\* Another checkout runs a service that this plan does not start: the rule takes its
\* container for released, and without --remove-orphans Compose leaves it.
LeftRunning ==
  \E c \in containers : Released(plan, c) /\ c.service \notin plan.services /\ ~plan.removeOrphans

\* The socket of a container that the plan releases is not told from a stranger's: a
\* container on the host's network stack publishes nothing to match it with, and for
\* a planned service on that stack only its own listed container is looked for.
SocketUnattributed ==
  \E s \in plan.services, c \in containers :
    /\ Released(plan, c) /\ ContainerTakes(c) \cap Wants(s) # {}
    /\ IF plan.svc[s].network = "host"
       THEN ~(facts.engine = "complete" /\ OwnerOf(plan, c) = "service" /\ c.service = s)
       ELSE c.network = "host"

\* A service on the host's network stack declares a port of a protocol without a socket
\* table, and it is held: of such a port the rule says nothing.
UnobservableHeld ==
  \E s \in plan.services : /\ plan.svc[s].network = "host"
                           /\ \E e \in Wants(s) \cap Held : ~ObservableProtocol(e.protocol)

SocketsUnread == facts.portsUnchecked \/ facts.socketsRead = "failed"

\* The plan binds a port of the host, published or on the host's own network.
BindsHostPort ==
  \E s \in plan.services :
    IF plan.svc[s].network = "host" THEN DeclaredPorts(plan.svc[s]) # {}
    ELSE \E m \in plan.svc[s].publishes : HostPorts(m) # {}

\* Nothing was read of the sockets, and all that the plan binds of the host are ports
\* declared by services on its network stack: the rule has "nothing published" to check.
DeclaredUnread == SocketsUnread /\ BindsHostPort /\ ~PublishesHostPort(RuleInput({}, {}))

\* Such a situation is one of the instance only where the instance says so.
Admitted ==
  /\ StrangerBesideOwn  => "stranger beside own"  \in Divergences
  /\ UndecidedBesideOwn => "undecided beside own" \in Divergences
  /\ OutdatedKept       => "outdated kept"        \in Divergences
  /\ LeftRunning        => "left running"         \in Divergences
  /\ SocketUnattributed => "socket unattributed"  \in Divergences
  /\ UnobservableHeld   => "unobservable held"    \in Divergences
  /\ DeclaredUnread     => "declared unread"      \in Divergences

-----------------------------------------------------------------------------

Init ==
  /\ \E f \in Families : /\ plan \in f.plans /\ facts \in f.facts
                         /\ containers \in f.containers /\ listeners \in f.listeners
  /\ HostIsPossible /\ HostIsComposed
  /\ ~facts.on => \A e \in Wanted : e.address \in Addr4
  /\ Admitted
  /\ sockets = {} /\ listed = {} /\ findings = {} /\ outcome = "not-applicable"
  /\ phase = "ports"
  /\ up = [s \in plan.services |-> "pending"]
  /\ gained = FALSE /\ lost = FALSE

\* The ports section.
ReadSockets ==
  /\ phase = "ports"
  /\ sockets' \in IF facts.portsUnchecked THEN {{}} ELSE ReadOf(AllSockets, facts.socketsRead)
  /\ phase' = "list"
  /\ UNCHANGED <<plan, facts, host, listed, told, up, gained, lost>>

\* The witness section lists the engine's containers.
ListContainers ==
  /\ phase = "list"
  /\ listed' \in ReadOf(containers, facts.engine)
  /\ phase' = "compare"
  /\ UNCHANGED <<plan, facts, host, sockets, told, up, gained, lost>>

\* The port rule.
Compare ==
  /\ phase = "compare"
  /\ findings' = PortConflicts(RuleInput(sockets, listed))
  /\ outcome' = PortOutcome(RuleInput(sockets, listed))
  /\ phase' = "up"
  /\ UNCHANGED <<plan, facts, host, read, up, gained, lost>>

\* A process starts listening, while the audit runs or after it.
ListenerStarts ==
  /\ facts.churn /\ phase \in {"list", "compare", "up"} /\ ~gained
  /\ \E l \in Newcomers : /\ Bindable(ListenerTakes(l))
                          /\ listeners' = listeners \cup {l}
  /\ gained' = TRUE
  /\ UNCHANGED <<plan, facts, containers, read, told, phase, up, lost>>

\* A process stops listening.
ListenerStops ==
  /\ facts.churn /\ phase \in {"list", "compare", "up"} /\ ~lost
  /\ \E l \in listeners : listeners' = listeners \ {l}
  /\ lost' = TRUE
  /\ UNCHANGED <<plan, facts, containers, read, told, phase, up, gained>>

\* A container exits.
ContainerExits ==
  /\ facts.churn /\ phase \in {"list", "compare", "up"} /\ ~lost
  /\ \E c \in containers : /\ c.state = "running"
                           /\ containers' = (containers \ {c}) \cup {Exited(c)}
  /\ lost' = TRUE
  /\ UNCHANGED <<plan, facts, listeners, read, told, phase, up, gained>>

-----------------------------------------------------------------------------
(***************************************************************************)
(* `docker compose up`.                                                    *)
(***************************************************************************)

\* The labels `up` writes; the container is created before it is started.
NewContainer(s) ==
  [labelled |-> TRUE, project |-> plan.project, service |-> s, dir |-> plan.dir, oneOff |-> FALSE,
   hash |-> plan.svc[s].hash, state |-> "created", network |-> plan.svc[s].network,
   publishes |-> plan.svc[s].publishes, expose |-> plan.svc[s].expose, new |-> TRUE]

\* `up` first removes the orphans, when it is told to.
RemoveOrphans ==
  /\ phase = "up"
  /\ containers' = {c \in containers : plan.removeOrphans => ~(Composed(c) /\ c.service \notin plan.services)}
  /\ phase' = "converge"
  /\ UNCHANGED <<plan, facts, listeners, read, told, up, gained, lost>>

\* It keeps a service's container, or replaces it, or creates the first one.
Converge(s) ==
  /\ phase = "converge" /\ up[s] = "pending"
  /\ LET old  == {c \in containers : Composed(c) /\ c.service = s}
         kept == {c \in old : Kept(c)}
     IN  containers' = (containers \ (old \ kept)) \cup (IF kept = {} THEN {NewContainer(s)} ELSE {})
  /\ up' = [up EXCEPT ![s] = "converged"]
  /\ phase' = IF \A t \in plan.services : up'[t] = "converged" THEN "start" ELSE phase
  /\ UNCHANGED <<plan, facts, listeners, read, told, gained, lost>>

\* A kept container that runs stays; any other is started, and the engine (or, on
\* the host's network, the application) binds what it needs, or fails to.
Start(s) ==
  /\ phase = "start" /\ up[s] = "converged"
  /\ \E c \in {d \in containers : Composed(d) /\ d.service = s} :
       IF c.state = "running"
       THEN up' = [up EXCEPT ![s] = "running"] /\ UNCHANGED containers
       ELSE LET Started(ms) == In(c, "running", ms)
                choices == IF c.network = "host" THEN {c.publishes} ELSE PublishChoices(c.publishes)
                free    == {ms \in choices : Bindable(ContainerTakes(Started(ms)))}
            IN  \/ /\ free = {}
                   /\ up' = [up EXCEPT ![s] = "failed"] /\ UNCHANGED containers
                \/ \E ms \in free :
                     /\ up' = [up EXCEPT ![s] = "running"]
                     /\ containers' = (containers \ {c}) \cup {Started(ms)}
  /\ UNCHANGED <<plan, facts, listeners, read, told, phase, gained, lost>>

Next ==
  \/ ReadSockets \/ ListContainers \/ Compare
  \/ ListenerStarts \/ ListenerStops \/ ContainerExits
  \/ RemoveOrphans
  \/ \E s \in plan.services : Converge(s) \/ Start(s)

Spec == Init /\ [][Next]_vars

-----------------------------------------------------------------------------
(***************************************************************************)
(* What the audit's answer is worth.                                       *)
(***************************************************************************)

Compared == phase \in {"up", "converge", "start"}

TypeOK ==
  /\ phase \in {"ports", "list", "compare", "up", "converge", "start"}
  /\ up \in [plan.services -> {"pending", "converged", "running", "failed"}]
  /\ findings \subseteq [service : plan.services, port : Nat, outcome : Outcome, severity : Severity]
  /\ outcome \in Outcome
  /\ \A c \in containers : IsContainer(c)
  /\ HostIsPossible

\* "A false blocker is the most expensive mistake this product can make"
\* (docs/en/10-witness-rules.md): a service the port rule reports a problem for
\* does not come up, unless something let go of a binding after the sockets were
\* read.  Whatever started listening meanwhile cannot make the answer wrong.
BlockerIsReal ==
  ~lost => \A f \in findings : f.outcome = "problem" => up[f.service] # "running"

\* The plan's own services do not want the same binding: the rule compares the
\* plan with the host, never the plan with itself.
PlanDisjoint == \A s, t \in plan.services : s # t => Wants(s) \cap Wants(t) = {}

\* The other half: a service about which the rule says nothing, or "no problem",
\* finds its bindings free, if the sockets were read in full and nothing took a
\* binding after that.  Whatever stopped listening meanwhile changes nothing.
ClearIsReal ==
  /\ Compared /\ ~gained /\ PlanDisjoint
  /\ ~facts.portsUnchecked /\ facts.socketsRead = "complete"
  => \A s \in plan.services :
       (\A f \in findings : f.service = s => f.outcome = "no-problem") => up[s] # "failed"

\* "Not checked" is never rendered as "fine": when the sockets were not read the
\* rule ends neither in no-problem nor in not-applicable, unless the plan binds no
\* port of the host at all.
UnreadIsNeverFine ==
  Compared /\ BindsHostPort /\ SocketsUnread
  => outcome \notin {"no-problem", "not-applicable"}

\* A redeployment of what runs is not a conflict with itself: once `up` has started
\* every service, an audit of the same plan on the same host, reading its sources
\* as well as this one did, reports no problem for the sockets it can attribute.
RedeployIsClean ==
  (\A s \in plan.services : up[s] = "running") /\ ~SocketUnattributed =>
    LET again == RuleInput(IF SocketsUnread THEN {} ELSE AllSockets,
                           IF facts.engine = "failed" THEN {} ELSE containers)
    IN  \A f \in PortConflicts(again) : f.outcome # "problem"

\* What the change list says `up` does to a listed container is what it does:
\* decided the way Compose decides, by label and configuration hash.
ActionIsWhatUpDoes ==
  phase = "start" /\ ~lost =>
    \A c \in listed :
      LET action == Action(plan, Listing(c))
          stays  == \E d \in containers : ~d.new /\ d = In(c, d.state, d.publishes)
      IN  /\ action \in {"kept", "left"} => stays
          /\ action \in {"recreated", "removed"} => ~stays
=============================================================================

----------------------------- MODULE EngineAudit -----------------------------
(***************************************************************************)
(* The container engine is read one command after another while the host   *)
(* runs (app/collect/docker), the rules and the change list are drawn from *)
(* what was read (EngineRules), and then `docker compose up` runs.         *)
(*                                                                         *)
(* Each command may fail, or answer with entries that cannot be parsed;    *)
(* only so many networks and images are inspected.  The engine and Compose *)
(* are the environment, modelled from what the rules say of them.          *)
(***************************************************************************)
EXTENDS EngineRules

CONSTANTS Situations,        \* sets of plans and engines an audit may find
          Newcomers,         \* what somebody else may add to the engine meanwhile
          MaxNetworkInspect, \* maxNetworkInspect
          MaxImageInspect    \* maxImageInspect

ASSUME CapsAreCounts == MaxNetworkInspect \in Nat /\ MaxImageInspect \in Nat

VARIABLES plan, engine,      \* the planned run; "none", "down" or "answers"
          world,             \* what the engine holds, by list
          read,              \* the rules' input so far
          todo,              \* the listed networks or images not visited yet
          details,           \* the image ids inspected, with what they showed
          inspected, missed, \* how many were inspected, and how many not read
          told,              \* the findings and outcomes
          up,                \* what `up` did about each service
          used,              \* the volumes and networks it found there, and those it made
          phase, gained, lost

-----------------------------------------------------------------------------
(***************************************************************************)
(* The situations.                                                         *)
(***************************************************************************)

Lists == {"containers", "networks", "volumes", "images"}

IsDeclared(d) == EngineNameOf(d) # None /\ d.external \in BOOLEAN

\* Compose runs no project without a service, nor is a model of none read (resolved.go:40);
\* it prints the hash of each.
IsPlan(p) ==
  /\ p.project # None /\ p.services # {} /\ None \notin p.services
  /\ DOMAIN p.hashes = p.services
  /\ {p.removeOrphans, p.forceRecreate, p.noRecreate} \subseteq BOOLEAN
  /\ \A d \in p.volumes \cup p.networks : IsDeclared(d)
  /\ p.volumes \cap p.networks = {}

\* Compose writes its labels together.
IsContainer(c) ==
  /\ c = [name |-> c.name, labelled |-> c.labelled, project |-> c.project, service |-> c.service,
          dir |-> c.dir, oneOff |-> c.oneOff, hash |-> c.hash, image |-> c.image]
  /\ {c.labelled, c.oneOff} \subseteq BOOLEAN
  /\ c.project # None => c.labelled /\ c.service # None

IsNetwork(n) ==
  /\ n = [name |-> n.name, project |-> n.project, swarm |-> n.swarm, attachable |-> n.attachable,
          subnets |-> n.subnets]
  /\ n.swarm \in BOOLEAN /\ n.attachable \in {"yes", "no", ""}

NamesDiffer(list) == \A x, y \in list : x.name = y.name => x = y

IsWorld(w) ==
  /\ w = [containers |-> w.containers, networks |-> w.networks, volumes |-> w.volumes, images |-> w.images]
  /\ (\A c \in w.containers : IsContainer(c)) /\ \A n \in w.networks : IsNetwork(n)
  /\ NamesDiffer(w.containers) /\ NamesDiffer(w.networks) /\ NamesDiffer(w.volumes)

IsNewcomer(x) ==
  /\ x.list \in Lists \ {"images"}
  /\ x.list = "containers" => IsContainer(x.item)
  /\ x.list = "networks" => IsNetwork(x.item)

ASSUME SituationsTyped ==
  /\ \A f \in Situations : /\ \A p \in f.plans : IsPlan(p)
                           /\ \A w \in f.worlds : IsWorld(w)
                           /\ f.engines \subseteq {"none", "down", "answers"}
  /\ \A x \in Newcomers : IsNewcomer(x)

-----------------------------------------------------------------------------

vars == <<plan, engine, world, read, todo, details, inspected, missed, told, up, used, phase, gained, lost>>

environment == <<plan, engine, world, gained, lost>>
deployment  == <<told, up, used>>

Sources == Lists \cup {"subnets"}

\* Observe, for the sources of one command.
Observed(sources, state) == [s \in Sources |-> IF s \in sources THEN state ELSE read.observed[s]]

\* One list command: what was listed and how completely.  It fails, is parsed in
\* full, or leaves entries out.
Answers(list) ==
  {[state |-> "failed", items |-> {}], [state |-> "complete", items |-> world[list]]}
  \cup {[state |-> "partial", items |-> s] : s \in (SUBSET world[list]) \ {world[list]}}

\* A row of `network ls`, and what `network inspect` adds to it.
Unread(n) == [n EXCEPT !.attachable = "", !.subnets = {}]
Shown(n, now) == [Unread(n) EXCEPT !.attachable = now.attachable, !.subnets = now.subnets]

\* A row of `image ls`, and what `image inspect` shows by image id.
Listed(i) == [i EXCEPT !.arch = ""]
Detail(i, now) == [id |-> i.id, arch |-> now.arch]

-----------------------------------------------------------------------------

Init ==
  /\ \E f \in Situations : plan \in f.plans /\ world \in f.worlds /\ engine \in f.engines
  /\ read = [plan |-> plan, runtime |-> "none", observed |-> [s \in Sources |-> "not-collected"],
             containers |-> {}, networks |-> {}, volumes |-> {}, images |-> {}]
  /\ todo = {} /\ details = {} /\ inspected = 0 /\ missed = 0
  /\ told = [findings |-> {}, outcomes |-> RuleOutcomes(read)]
  /\ up = [s \in plan.services |-> "pending"]
  /\ used = {}
  /\ phase = "probe"
  /\ gained = FALSE /\ lost = FALSE

\* Detection, and `ps -a`: the probe of whether the engine answers at all.
Probe ==
  /\ phase = "probe"
  /\ IF engine = "none"
     THEN read' = read /\ phase' = "judge"
     ELSE IF engine = "down"
     THEN /\ read' = [read EXCEPT !.runtime = "silent", !.observed = Observed(Sources, "failed")]
          /\ phase' = "judge"
     ELSE \E a \in Answers("containers") :
            /\ a.state # "failed"
            /\ read' = [read EXCEPT !.runtime = "answers", !.containers = a.items,
                                    !.observed = Observed({"containers"}, a.state)]
            /\ phase' = "networks"
  /\ UNCHANGED <<environment, deployment, todo, details, inspected, missed>>

ListNetworks ==
  /\ phase = "networks"
  /\ \E a \in Answers("networks") :
       /\ read' = [read EXCEPT !.networks = {Unread(n) : n \in a.items},
                               !.observed = Observed(IF a.state = "failed" THEN {"networks", "subnets"}
                                                     ELSE {"networks"}, a.state)]
       /\ todo' = a.items
       /\ phase' = IF a.state = "failed" THEN "volumes" ELSE "subnets"
  /\ inspected' = 0 /\ missed' = 0
  /\ UNCHANGED <<environment, deployment, details>>

\* Mutant: every network is inspected.
InspectNetworkUncapped(n) ==
  /\ phase = "subnets" /\ n \in todo
  /\ todo' = todo \ {n}
  /\ \E now \in Named(world.networks, n.name) :
       read' = [read EXCEPT !.networks = (@ \ {Unread(n)}) \cup
                  {Shown(n, now)}]
  /\ inspected' = inspected + 1 /\ UNCHANGED missed
  /\ UNCHANGED <<environment, deployment, details, phase>>

\* One network: left out at the cap, refused for its name, or inspected, which fails
\* for one that is gone.
InspectNetwork(n) ==
  /\ phase = "subnets" /\ n \in todo
  /\ todo' = todo \ {n}
  /\ \/ /\ missed' = missed + 1 /\ inspected' \in {inspected, inspected + 1}
        /\ inspected' <= MaxNetworkInspect
        /\ UNCHANGED read
     \/ /\ inspected < MaxNetworkInspect
        /\ \E now \in Named(world.networks, n.name) :
             read' = [read EXCEPT !.networks = (@ \ {Unread(n)}) \cup
                        {Shown(n, now)}]
        /\ inspected' = inspected + 1 /\ UNCHANGED missed
  /\ UNCHANGED <<environment, deployment, details, phase>>

\* Mutant: a network left out at the cap does not make the subnets partial.
NetworksInspectedUncounted ==
  /\ phase = "subnets" /\ todo = {}
  /\ read' = [read EXCEPT !.observed = Observed({"subnets"}, "complete")]
  /\ phase' = "volumes"
  /\ UNCHANGED <<environment, deployment, todo, details, inspected, missed>>

NetworksInspected ==
  /\ phase = "subnets" /\ todo = {}
  /\ read' = [read EXCEPT !.observed = Observed({"subnets"}, IF missed > 0 THEN "partial" ELSE "complete")]
  /\ phase' = "volumes"
  /\ UNCHANGED <<environment, deployment, todo, details, inspected, missed>>

ListVolumes ==
  /\ phase = "volumes"
  /\ \E a \in Answers("volumes") :
       read' = [read EXCEPT !.volumes = a.items, !.observed = Observed({"volumes"}, a.state)]
  /\ phase' = "images"
  /\ UNCHANGED <<environment, deployment, todo, details, inspected, missed>>

\* `image ls`, which shows neither architecture nor a size to rely on.
ListImages ==
  /\ phase = "images"
  /\ \E a \in Answers("images") :
       /\ read' = [read EXCEPT !.images = {Listed(i) : i \in a.items}, !.observed = Observed({"images"}, a.state)]
       /\ todo' = a.items
  /\ phase' = "inspect" /\ inspected' = 0 /\ missed' = 0
  /\ UNCHANGED <<environment, deployment, details>>

\* One row of it: known from a row of the same id, left out at the cap, or inspected.
InspectImage(i) ==
  /\ phase = "inspect" /\ i \in todo
  /\ todo' = todo \ {i}
  /\ LET Fill(arch) == [read EXCEPT !.images = (@ \ {Listed(i)}) \cup {[i EXCEPT !.arch = arch]}]
         known == {d \in details : d.id = i.id}
     IN  \/ /\ known # {}
            /\ \E d \in known : read' = Fill(d.arch)
            /\ UNCHANGED <<details, inspected, missed>>
         \/ /\ known = {}
            /\ missed' = missed + 1 /\ inspected' \in {inspected, inspected + 1}
            /\ inspected' <= MaxImageInspect
            /\ UNCHANGED <<read, details>>
         \/ /\ known = {} /\ inspected < MaxImageInspect
            /\ \E now \in {w \in world.images : w.ref = i.ref} :
                 /\ read' = Fill(now.arch)
                 /\ details' = details \cup {Detail(i, now)}
            /\ inspected' = inspected + 1 /\ UNCHANGED missed
  /\ UNCHANGED <<environment, deployment, phase>>

ImagesInspected ==
  /\ phase = "inspect" /\ todo = {}
  /\ phase' = "judge"
  /\ UNCHANGED <<environment, deployment, read, todo, details, inspected, missed>>

Judge ==
  /\ phase = "judge"
  /\ told' = [findings |-> Findings(read), outcomes |-> RuleOutcomes(read)]
  /\ phase' = "up"
  /\ UNCHANGED <<environment, read, todo, details, inspected, missed, up, used>>

-----------------------------------------------------------------------------
(***************************************************************************)
(* The engine changes, and `up`.                                           *)
(***************************************************************************)

Running == phase \notin {"probe", "converge", "end"} /\ engine = "answers"

\* Somebody else adds something, or removes what is theirs.
Appears ==
  /\ Running /\ ~gained
  /\ \E x \in Newcomers :
       /\ \A y \in world[x.list] : y.name # x.item.name
       /\ world' = [world EXCEPT ![x.list] = @ \cup {x.item}]
  /\ gained' = TRUE
  /\ UNCHANGED <<plan, engine, read, todo, details, inspected, missed, deployment, phase, lost>>

Disappears ==
  /\ Running /\ ~lost
  /\ \E list \in Lists \ {"images"} : \E x \in world[list] :
       ~Ours(read, x) /\ world' = [world EXCEPT ![list] = @ \ {x}]
  /\ lost' = TRUE
  /\ UNCHANGED <<plan, engine, read, todo, details, inspected, missed, deployment, phase, gained>>

Existing(list, d) == Named(world[list], EngineNameOf(d))

\* What of the wanted volumes or networks is there already.
Uses(list, wanted) == UNION {{[list |-> list, d |-> d, x |-> x] : x \in Existing(list, d)} : d \in wanted}

\* Compose refuses when something external is missing, and the engine when the range
\* of a network to create is taken.
Refused ==
  \/ \E v \in MountedVolumes(plan) : v.external /\ Existing("volumes", v) = {}
  \/ \E n \in plan.networks : n.external /\ Existing("networks", n) = {}
  \/ \E n \in plan.networks :
       /\ Existing("networks", n) = {}
       /\ \E f \in world.networks, a \in n.subnets : \E b \in f.subnets : NetworksOverlap(a, b)

Prepare ==
  /\ phase = "up" /\ engine = "answers"
  /\ LET New(d) == [name |-> EngineNameOf(d), project |-> plan.project]
         newVolumes  == {New(v) : v \in {w \in MountedVolumes(plan) : Existing("volumes", w) = {}}}
         newNetworks == {[name |-> EngineNameOf(n), project |-> plan.project, swarm |-> FALSE,
                            attachable |-> "no", subnets |-> n.subnets] : n \in {m \in plan.networks : Existing("networks", m) = {}}}
         removed(c) == OwnerOf(plan, c) = "orphan" /\ plan.removeOrphans
     IN  IF Refused
         THEN /\ up' = [s \in plan.services |-> "failed"]
              /\ phase' = "end"
              /\ UNCHANGED <<world, used>>
         ELSE /\ world' = [world EXCEPT !.volumes = @ \cup newVolumes, !.networks = @ \cup newNetworks,
                                        !.containers = {c \in @ : ~removed(c)}]
              /\ used' = Uses("volumes", MountedVolumes(plan)) \cup Uses("networks", plan.networks)
              /\ phase' = "converge"
              /\ UNCHANGED up
  /\ UNCHANGED <<plan, engine, read, todo, details, inspected, missed, told, gained, lost>>

\* Compose identifies a service's containers by project and service alone; it keeps
\* what the hash allows and replaces the rest.  Creation fails on a name that is
\* taken, the start on a network that takes no standalone container.
Converge(s) ==
  /\ phase = "converge" /\ up[s] = "pending"
  /\ LET old  == {c \in world.containers : Ours(read, c) /\ ~c.oneOff /\ c.service = s}
         kept == {c \in old : ~plan.forceRecreate /\ (plan.noRecreate \/ c.hash = plan.hashes[s])}
         new  == [name |-> ContainerNameOf(plan, s), labelled |-> TRUE, project |-> plan.project, service |-> s,
                  dir |-> plan.dir, oneOff |-> FALSE, hash |-> plan.hashes[s], image |-> plan.svc[s].image]
         rest == world.containers \ old
         closed == \E n \in plan.networks : \E f \in Existing("networks", n) : f.swarm /\ f.attachable = "no"
     IN  IF kept # {} THEN up' = [up EXCEPT ![s] = "kept"] /\ UNCHANGED world
         ELSE IF Named(rest, new.name) # {} THEN
           up' = [up EXCEPT ![s] = "failed"] /\ world' = [world EXCEPT !.containers = rest]
         ELSE /\ up' = [up EXCEPT ![s] = IF closed THEN "failed" ELSE IF old = {} THEN "created" ELSE "replaced"]
              /\ world' = [world EXCEPT !.containers = rest \cup {new}]
  /\ phase' = IF \E t \in plan.services : up'[t] = "pending" THEN "converge" ELSE "end"
  /\ UNCHANGED <<plan, engine, read, todo, details, inspected, missed, told, used, gained, lost>>

Next ==
  \/ Probe \/ ListNetworks \/ NetworksInspected \/ ListVolumes \/ ListImages \/ ImagesInspected
  \/ \E n \in todo : InspectNetwork(n)
  \/ \E i \in todo : InspectImage(i)
  \/ Judge \/ Appears \/ Disappears \/ Prepare
  \/ \E s \in plan.services : Converge(s)

Spec == Init /\ [][Next]_vars
-----------------------------------------------------------------------------
(***************************************************************************)
(* Situations in which what is told and what `up` does part.               *)
(***************************************************************************)

\* A container the plan releases holds the name a service is to have: another
\* checkout's, which `up` takes over, or an orphan that --remove-orphans removes.
ReleasedName ==
  \E c \in read.containers, s \in plan.services :
    c.name = ContainerNameOf(plan, s) /\ Released(plan, c) /\ ~OwnService(read, s, c)

\* A service's container is there under another name: its container_name changed.
OwnUnderAnotherName ==
  \E c \in read.containers \cup world.containers :
    /\ OwnerOf(plan, c) \in {"service", "other-checkout"} /\ c.service \in plan.services
    /\ c.name # ContainerNameOf(plan, c.service)

\* A network that the plan gives a range is there already: Compose joins it, and the
\* rule compares the range with the others' even so.
JoinedByName == \E u \in used : u.list = "networks" /\ u.d.subnets # {}

\* A network of this project's, which the plan no longer has or has under another name,
\* holds a range that the plan wants: the rule compares with the networks of others.
RangeOfOurs ==
  \E n \in plan.networks, f \in read.networks :
    /\ Ours(read, f) /\ f.name # EngineNameOf(n)
    /\ \E a \in n.subnets, b \in f.subnets : NetworksOverlap(a, b)

\* A service's container is kept as it is, so that nothing is started on a network of
\* the plan that takes no standalone container.
KeptBesideClosed ==
  (\E s \in plan.services : up[s] = "kept")
  /\ \E n \in plan.networks : \E f \in Existing("networks", n) : f.swarm /\ f.attachable = "no"

\* An external object is mounted or joined, so a list read in part is not asked
\* whether it could miss somebody else's.
PartialBesideExternal ==
  \/ ~ListProves(read, "volumes") /\ \E v \in MountedVolumes(plan) : v.external
  \/ ~ListProves(read, "networks") /\ \E n \in plan.networks : n.external

-----------------------------------------------------------------------------
(***************************************************************************)
(* What the answer is worth.                                               *)
(***************************************************************************)

Told == phase \in {"up", "converge", "end"}

TypeOK ==
  /\ phase \in {"probe", "networks", "subnets", "volumes", "images", "inspect", "judge", "up", "converge", "end"}
  /\ up \in [plan.services -> {"pending", "kept", "created", "replaced", "failed"}]
  /\ read.observed \in [Sources -> {"complete", "partial", "failed", "not-collected"}]
  /\ told.findings \subseteq [rule : {"container-name", "volume-name", "network-name", "subnet", "ownership"},
                              subject : {f.subject : f \in told.findings}, outcome : Outcome, severity : Severity]
  /\ inspected <= MaxNetworkInspect \/ inspected <= MaxImageInspect

\* A blocker is rare and true (docs/en/10-witness-rules.md:33): when a name or subnet
\* rule reports one, some service does not come up, unless what stood in the way was
\* removed, or what was missing was made, after the lists were read.
BlockerIsReal ==
  phase = "end" /\ ~lost /\ ~ReleasedName /\ ~JoinedByName /\ ~OwnUnderAnotherName /\ ~KeptBesideClosed =>
    \/ \A f \in told.findings :
         f.severity = "blocker" => f.rule \in {"volume-name", "network-name"} /\ gained
    \/ \E s \in plan.services : up[s] = "failed"

\* Nothing but what needs no attention was found, and no rule was left undecided.
Clear ==
  /\ \A f \in told.findings : f.outcome \in {"no-problem", "manual-check"}
  /\ \A rule \in DOMAIN told.outcomes \ {"architecture"} : told.outcomes[rule] # "unknown"
  /\ \A s \in plan.services : ContainerRow(read, s) # "not created"

\* The plan's own services do not want the same container name.
NamesApart == \A s, t \in plan.services : ContainerNameOf(plan, s) = ContainerNameOf(plan, t) => s = t

\* The other half: when everything was read well enough to be settled in the plan's
\* favour, every service comes up, whatever was removed meanwhile but the externals
\* it needs, and unless something new was put in its way.
ClearIsReal ==
  Told /\ Clear /\ NamesApart /\ ~gained /\ ~lost /\ ~PartialBesideExternal /\ ~RangeOfOurs =>
     \A s \in plan.services : up[s] # "failed"

\* The new containers never start silently on somebody else's data, or on a network
\* somebody else made: if `up` found it there, and it was there when the lists were
\* read, a finding names it or its rule is undecided.
ForeignIsTold ==
  ~gained /\ ~PartialBesideExternal =>
    \A u \in used :
      ~Ours(read, u.x) /\ ~(u.d.external /\ u.x.project = None) =>
        \/ \E f \in told.findings : f.subject = u.x.name /\ f.outcome \in Pressing
        \/ (IF u.list = "volumes" THEN told.outcomes.volume ELSE told.outcomes.network) \in Pressing

\* The change list says what `up` will do to each container, volume and network, and
\* that is what it does: the document somebody shows when asked what was done.
RowsAreWhatUpDoes ==
  phase = "end" /\ ~gained /\ ~lost /\ ~ReleasedName /\ ~OwnUnderAnotherName =>
    /\ \A s \in plan.services :
         LET row == ContainerRow(read, s)
         IN  /\ row = "kept" => up[s] \in {"kept", "failed"}
             /\ row = "created" /\ ListProves(read, "containers") => up[s] \in {"created", "failed"}
             /\ row \in {"replaced", "taken over"} => up[s] # "created"
             /\ row = "not created" => up[s] = "failed"
    /\ \A v \in MountedVolumes(plan) :
         LET row == VolumeRow(read, v)
         IN  /\ row = "missing" => \A s \in plan.services : up[s] = "failed"
             /\ row = "created" => \A u \in used : u.d # v
             /\ row \in {"reused", "external", "reused, not ours"} /\ used # {} => \E u \in used : u.d = v
    /\ \A n \in plan.networks :
         LET row == NetworkRow(read, n)
         IN  /\ row = "missing" => \A s \in plan.services : up[s] = "failed"
             /\ row = "created" => \A u \in used : u.d # n
             /\ row \in {"reused", "joined", "reused, not ours"} /\ used # {} => \E u \in used : u.d = n
=============================================================================

----------------------------- MODULE EngineRules -----------------------------
(***************************************************************************)
(* What the witness says of the engine's containers, volumes, networks and *)
(* images: the name and subnet rules of app/witness/conflicts.rules.go,    *)
(* their verdicts (outcomes.go), and the rows of the change list about the *)
(* containers, volumes and networks (changes.go).                          *)
(*                                                                         *)
(* `in` is their input:                                                    *)
(*   plan        the planned run: project, dir, services, options; svc[s]  *)
(*               has `name` (container_name), `image`, `mounts` (keys);    *)
(*               volumes and networks have key, name, external, subnets    *)
(*   runtime     "none", "silent" (it did not answer) or "answers"         *)
(*   observed    how completely each source was read                       *)
(*   containers, volumes, networks, images     what was read of them       *)
(***************************************************************************)
EXTENDS Ownership, Outcomes

\* engineList: can a list prove that something is absent?
ListProves(in, source) == in.runtime = "none" \/ in.observed[source] = "complete"

\* A volume's or network's name in the engine.
EngineNameOf(d) == IF d.name # None THEN d.name ELSE d.key

Ours(in, x) == SameProject(in.plan, x)

Finding(rule, subject, outcome, severity) ==
  [rule |-> rule, subject |-> subject, outcome |-> outcome, severity |-> severity]

Named(list, name) == {x \in list : x.name = name}

-----------------------------------------------------------------------------
(***************************************************************************)
(* witness.container_name_conflict                                         *)
(***************************************************************************)

OwnService(in, s, c) == OwnerOf(in.plan, c) = "service" /\ c.service \in {None, s}

NameFinding(in, s, c) ==
  IF OwnService(in, s, c) THEN Finding("container-name", c.name, "no-problem", "info")
  ELSE IF OwnerOf(in.plan, c) = "unlabelled" THEN Finding("container-name", c.name, "unknown", "warning")
  ELSE Finding("container-name", c.name, "problem", "blocker")

FixedNames(plan) == {s \in plan.services : plan.svc[s].name # None}

ContainerNameConflicts(in) ==
  UNION {{NameFinding(in, s, c) : c \in Named(in.containers, in.plan.svc[s].name)} : s \in FixedNames(in.plan)}

AssessContainerNames(in) ==
  IF FixedNames(in.plan) = {} THEN "not-applicable"
  ELSE IF ListProves(in, "containers") THEN "no-problem" ELSE "unknown"

-----------------------------------------------------------------------------
(***************************************************************************)
(* witness.volume_name_conflict                                            *)
(***************************************************************************)

\* Only what a planned service mounts is created or looked up.
MountedVolumes(plan) == {v \in plan.volumes : \E s \in plan.services : v.key \in plan.svc[s].mounts}

\* Mutant: a volume missing from a list read in part is missing from the engine.
AbsentVolumeUnproven(in, v) == {Finding("volume-name", EngineNameOf(v), "problem", "blocker")}

\* A volume of the plan that was not found.
AbsentVolume(in, v) ==
  IF ~v.external THEN {}      \* Compose creates it
  ELSE IF ListProves(in, "volumes") THEN {Finding("volume-name", EngineNameOf(v), "problem", "blocker")}
  ELSE {Finding("volume-name", EngineNameOf(v), "unknown", "warning")}

\* Mutant: a volume created by hand is Compose's to reuse, external or not.
PresentVolumeLax(in, v, found) ==
  IF Ours(in, found) \/ found.project = None THEN {}
  ELSE {Finding("volume-name", found.name, "problem", "warning")}

\* One that was found: it is this project's, or one made by hand for `external: true`,
\* or it holds somebody else's data.
PresentVolume(in, v, found) ==
  IF Ours(in, found) \/ (v.external /\ found.project = None) THEN {}
  ELSE {Finding("volume-name", found.name, "problem", "warning")}

VolumeNameConflicts(in) ==
  UNION {LET found == Named(in.volumes, EngineNameOf(v))
         IN  IF found = {} THEN AbsentVolume(in, v) ELSE UNION {PresentVolume(in, v, f) : f \in found} :
         v \in MountedVolumes(in.plan)}

\* The list is asked for only when nothing external is mounted.
AssessVolumes(in) ==
  LET mounted == MountedVolumes(in.plan)
  IN  IF mounted = {} THEN "not-applicable"
      ELSE IF (\A v \in mounted : ~v.external) /\ ~ListProves(in, "volumes") THEN "unknown"
      ELSE "no-problem"

-----------------------------------------------------------------------------
(***************************************************************************)
(* witness.network_name_conflict.  A network is swarm-scoped or not, and   *)
(* attachable "yes", "no" or, when its inspect was not read, "".           *)
(***************************************************************************)

AbsentNetwork(in, n) ==
  IF ~n.external THEN {}
  ELSE IF ListProves(in, "networks") THEN {Finding("network-name", EngineNameOf(n), "problem", "blocker")}
  ELSE {Finding("network-name", EngineNameOf(n), "unknown", "warning")}

PresentNetwork(in, n, found) ==
  IF found.swarm /\ found.attachable = "no" THEN {Finding("network-name", found.name, "problem", "blocker")}
  ELSE IF found.swarm /\ found.attachable = "" THEN {Finding("network-name", found.name, "unknown", "warning")}
  ELSE IF Ours(in, found) \/ (n.external /\ found.project = None) THEN {}
  ELSE IF n.external THEN {Finding("network-name", found.name, "manual-check", "info")}
  ELSE {Finding("network-name", found.name, "problem", "warning")}

NetworkNameConflicts(in) ==
  UNION {LET found == Named(in.networks, EngineNameOf(n))
         IN  IF found = {} THEN AbsentNetwork(in, n) ELSE UNION {PresentNetwork(in, n, f) : f \in found} :
         n \in in.plan.networks}

AssessNetworks(in) ==
  IF in.plan.networks = {} THEN "not-applicable"
  ELSE IF (\A n \in in.plan.networks : ~n.external) /\ ~ListProves(in, "networks") THEN "unknown"
  ELSE "no-problem"

-----------------------------------------------------------------------------
(***************************************************************************)
(* witness.subnet_overlap.  A prefix has a base address and a size, the    *)
(* number of its host bits.                                                *)
(***************************************************************************)

Block(prefix, address)  == address \div 2^prefix.size
ContainsAddress(prefix, address) == Block(prefix, address) = Block(prefix, prefix.base)

NetworksOverlap(a, b) == ContainsAddress(a, b.base) \/ ContainsAddress(b, a.base)

PlannedSubnets(plan) == UNION {n.subnets : n \in plan.networks}

SubnetOverlaps(in) ==
  {Finding("subnet", a, "problem", "blocker") :
     a \in {a \in PlannedSubnets(in.plan) :
              \E n \in in.networks : ~Ours(in, n) /\ \E b \in n.subnets : NetworksOverlap(a, b)}}

AssessSubnets(in) ==
  IF PlannedSubnets(in.plan) = {} THEN "not-applicable"
  ELSE IF ListProves(in, "networks") /\ ListProves(in, "subnets") THEN "no-problem" ELSE "unknown"

-----------------------------------------------------------------------------
(***************************************************************************)
(* witness.project_ownership and witness.architecture_mismatch, as far as  *)
(* the engine's lists decide them.                                         *)
(***************************************************************************)

ProjectOwnership(in) ==
  LET kinds == {OwnerOf(in.plan, c) : c \in in.containers}
      Of(kind, outcome, severity) == IF kind \in kinds THEN {Finding("ownership", kind, outcome, severity)} ELSE {}
  IN  Of("other-checkout", "problem", "warning") \cup Of("renamed", "manual-check", "info")
      \cup Of("orphan", "manual-check", "info") \cup Of("unlabelled", "unknown", "warning")

AssessOwnership(in) == IF ListProves(in, "containers") THEN "no-problem" ELSE "unknown"

\* An image is compared once its architecture was read; one that was not listed, or
\* not inspected, is pending.
PendingImages(in) ==
  {s \in in.plan.services : \A i \in in.images : i.ref = in.plan.svc[s].image => i.arch = ""}

AssessArchitecture(in) == IF PendingImages(in) # {} THEN "unknown" ELSE "no-problem"

-----------------------------------------------------------------------------

Findings(in) ==
  ContainerNameConflicts(in) \cup VolumeNameConflicts(in) \cup NetworkNameConflicts(in)
  \cup SubnetOverlaps(in) \cup ProjectOwnership(in)

\* Each rule's outcome: the most pressing of its findings and its verdict.
RuleOutcomes(in) ==
  LET Conclude(rule, findings, verdict) == MostPressing({f.outcome : f \in findings} \cup {verdict})
  IN  [container |-> Conclude("container-name", ContainerNameConflicts(in), AssessContainerNames(in)),
       volume    |-> Conclude("volume-name", VolumeNameConflicts(in), AssessVolumes(in)),
       network   |-> Conclude("network-name", NetworkNameConflicts(in), AssessNetworks(in)),
       subnet    |-> Conclude("subnet", SubnetOverlaps(in), AssessSubnets(in)),
       ownership |-> Conclude("ownership", ProjectOwnership(in), AssessOwnership(in)),
       architecture |-> AssessArchitecture(in)]

-----------------------------------------------------------------------------
(***************************************************************************)
(* The change list: one word per row.                                      *)
(***************************************************************************)

\* container_name, or the name Compose makes of the project and the service.
ContainerNameOf(plan, s) ==
  IF plan.svc[s].name # None THEN plan.svc[s].name ELSE <<plan.project, s>>

ContainerRow(in, s) ==
  LET found == Named(in.containers, ContainerNameOf(in.plan, s))
      Row(c) == LET kind == OwnerOf(in.plan, c)
                IN  IF OwnService(in, s, c)
                    THEN IF Action(in.plan, c) = "kept" THEN "kept" ELSE "replaced"
                    ELSE IF kind = "other-checkout" /\ c.service = s THEN "taken over"
                    ELSE IF kind = "unlabelled" THEN "created if ours"
                    ELSE "not created"
  IN  IF in.runtime = "silent" THEN "unchecked"
      ELSE IF found = {} THEN "created"
      ELSE CHOOSE row \in {Row(c) : c \in found} : TRUE

VolumeRow(in, v) ==
  LET found == Named(in.volumes, EngineNameOf(v))
  IN  IF found = {} /\ ~ListProves(in, "volumes") THEN "created if absent"
      ELSE IF v.external THEN IF found # {} THEN "external" ELSE "missing"
      ELSE IF found = {} THEN "created"
      ELSE IF \E f \in found : Ours(in, f) THEN "reused" ELSE "reused, not ours"

NetworkRow(in, n) ==
  LET found == Named(in.networks, EngineNameOf(n))
  IN  IF found = {} /\ ~ListProves(in, "networks") THEN "created if absent"
      ELSE IF n.external THEN IF found # {} THEN "joined" ELSE "missing"
      ELSE IF found = {} THEN "created"
      ELSE IF \E f \in found : Ours(in, f) THEN "reused" ELSE "reused, not ours"
=============================================================================

---------------------------- MODULE MCEngineAudit ----------------------------
(***************************************************************************)
(* The situations EngineAudit is checked in: in each, a kind of object of  *)
(* the engine is varied with what the plan declares about it, and the      *)
(* others are absent.  Every list may fail or be read in part in each.     *)
(***************************************************************************)
EXTENDS EngineAudit

CONSTANTS web, worker, gone, mine, theirs, here, elsewhere, fresh, stale,
          fixed, data, front,          \* names in the engine
          img, img2, id1, id2          \* image references and ids

Plain == [removeOrphans |-> FALSE, forceRecreate |-> FALSE, noRecreate |-> FALSE]

PlanOf(name, mounts, volumes, networks, o) ==
  [project |-> mine, dir |-> here, services |-> {web},
   svc |-> [s \in {web} |-> [name |-> name, image |-> img, mounts |-> mounts]],
   hashes |-> [s \in {web} |-> fresh], volumes |-> volumes, networks |-> networks,
   removeOrphans |-> o.removeOrphans, forceRecreate |-> o.forceRecreate, noRecreate |-> o.noRecreate]

World(containers, networks, volumes, images) ==
  [containers |-> containers, networks |-> networks, volumes |-> volumes, images |-> images]

Family(plans, worlds, engines) == [plans |-> plans, worlds |-> worlds, engines |-> engines]

-----------------------------------------------------------------------------

Container(name, project, service, dir, oneOff, hash, labelled) ==
  [name |-> name, labelled |-> labelled, project |-> project, service |-> service, dir |-> dir,
   oneOff |-> oneOff, hash |-> hash, image |-> img]

Kinds(name) ==
  {Container(name, mine, web, here, FALSE, stale, TRUE),      \* this deployment's
   Container(name, mine, web, here, FALSE, fresh, TRUE),
   Container(name, mine, gone, here, FALSE, stale, TRUE),     \* an orphan
   Container(name, mine, web, here, TRUE, stale, TRUE),       \* a one-off
   Container(name, mine, web, elsewhere, FALSE, stale, TRUE), \* another checkout's
   Container(name, theirs, web, elsewhere, FALSE, stale, TRUE),
   Container(name, None, None, None, FALSE, None, TRUE),      \* created by hand
   Container(name, None, None, None, FALSE, None, FALSE)}     \* labels not reported

DefaultName == <<mine, web>>

Options == {Plain, [Plain EXCEPT !.removeOrphans = TRUE], [Plain EXCEPT !.forceRecreate = TRUE],
            [Plain EXCEPT !.noRecreate = TRUE]}

Names ==
  Family({PlanOf(n, {}, {}, {}, o) : n \in {None, fixed}, o \in Options},
         {World(cs, {}, {}, {}) :
            cs \in {{}} \cup {{c} : c \in Kinds(fixed) \cup Kinds(DefaultName)}
                   \cup {{c, d} : c \in {k \in Kinds(fixed) : k.project # mine}, d \in Kinds(DefaultName)}},
         {"none", "down", "answers"})

\* Two services, of which each may hold the other's container_name.
PairOf(n, o) ==
  [PlanOf(n, {}, {}, {}, o) EXCEPT
     !.services = {web, worker}, !.hashes = [s \in {web, worker} |-> fresh],
     !.svc = [s \in {web, worker} |-> IF s = web THEN @[web] ELSE [@[web] EXCEPT !.name = None]]]

Pairs ==
  Family({PairOf(n, o) : n \in {None, fixed}, o \in Options},
         {World(cs, {}, {}, {}) :
            cs \in {{Container(n, mine, web, here, FALSE, h, TRUE), Container(m, mine, s, d, FALSE, fresh, TRUE)} :
                      n \in {fixed, DefaultName}, m \in {<<mine, worker>>, gone}, h \in {fresh, stale},
                      s \in {web, worker, gone}, d \in {here, elsewhere}}},
         {"answers"})

-----------------------------------------------------------------------------

Volume(name, project) == [name |-> name, project |-> project]
DeclaredVolume(key, name, external) == [key |-> key, name |-> name, external |-> external]

VolumePlans ==
  {PlanOf(None, mounts, vs, {}, Plain) :
     mounts \in {{data}, {data, front}, {}},
     vs \in {{DeclaredVolume(data, None, e)} : e \in BOOLEAN}
            \cup {{DeclaredVolume(data, fixed, e), DeclaredVolume(front, None, f)} : e \in BOOLEAN, f \in BOOLEAN}}

Storage ==
  Family(VolumePlans,
         {World({}, {}, vs, {}) :
            vs \in {{}} \cup {{Volume(n, p)} : n \in {data, fixed, front}, p \in {mine, theirs, None}}
                   \cup {{Volume(fixed, p), Volume(front, q)} : p \in {mine, theirs, None}, q \in {mine, theirs, None}}},
         {"none", "answers"})

-----------------------------------------------------------------------------

\* Ranges over an address space of eight: a half, a quarter, and one inside the first.
Half == [base |-> 0, size |-> 2]
Quarter == [base |-> 4, size |-> 1]
Inside == [base |-> 2, size |-> 1]

Network(name, project, swarm, attachable, subnets) ==
  [name |-> name, project |-> project, swarm |-> swarm, attachable |-> attachable, subnets |-> subnets]

Local(name, project, subnets) == Network(name, project, FALSE, "no", subnets)

DeclaredNetwork(key, external, subnets) ==
  [key |-> key, name |-> None, external |-> external, subnets |-> subnets]

NetworkPlans ==
  {PlanOf(None, {}, {}, ns, Plain) :
     ns \in {{DeclaredNetwork(front, e, {})} : e \in BOOLEAN}
            \cup {{DeclaredNetwork(front, FALSE, {r})} : r \in {Half, Inside}}
            \cup {{DeclaredNetwork(front, FALSE, {}), DeclaredNetwork(data, TRUE, {})}}}

Networks ==
  Family(NetworkPlans,
         {World(cs, ns, {}, {}) :
            cs \in {{}, {Container(DefaultName, mine, web, here, FALSE, fresh, TRUE)}},
            ns \in {{}} \cup {{Local(front, p, {Quarter})} : p \in {mine, theirs, None}}
                   \cup {{Network(front, None, TRUE, a, {})} : a \in {"yes", "no", ""}}
                   \cup {{Local(data, p, {r})} : p \in {mine, theirs, None}, r \in {Half, Quarter, Inside}}
                   \cup {{Local(front, p, {}), Local(data, None, {Inside})} : p \in {mine, theirs}}
                   \cup {{Local(data, theirs, {Inside}), Local(fixed, theirs, {Quarter})}}},
         {"none", "answers"})

-----------------------------------------------------------------------------

Image(ref, id) == [name |-> ref, ref |-> ref, id |-> id, arch |-> "amd64"]

\* The service's container is there, or not; another tag names the same image, or
\* another one.
Images ==
  Family({PlanOf(None, {}, {}, {}, Plain)},
         {World(cs, {}, {}, is) :
            cs \in {{}, {Container(DefaultName, mine, web, here, FALSE, stale, TRUE)}},
            is \in {{}, {Image(img, id1)}, {Image(img, id1), Image(img2, id1)},
                    {Image(img, id1), Image(img2, id2)}}},
         {"answers"})

Everything == {Names, Pairs, Storage, Networks, Images}

SomeNewcomers == {[list |-> "volumes", item |-> Volume(data, theirs)],
                  [list |-> "networks", item |-> Local(fixed, theirs, {Half})],
                  [list |-> "containers", item |-> Container(DefaultName, None, None, None, FALSE, None, TRUE)]}
=============================================================================

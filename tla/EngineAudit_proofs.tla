-------------------------- MODULE EngineAudit_proofs --------------------------
(***************************************************************************)
(* What an audit of the container engine is worth, for any plans, engines, *)
(* newcomers, caps, and numbers of services, containers, networks, volumes *)
(* and images (SituationsTyped says what such a situation is): the five    *)
(* properties of EngineAudit.                                              *)
(*                                                                         *)
(* The first part says what each step does to the rules' input and to the  *)
(* engine, field by field.  The rest is in terms of inductive invariants:  *)
(*   Typed       what each variable is, and that no two containers, and    *)
(*               before `up` no two networks, have one name                *)
(*   Unstarted   what is not read yet in each phase                        *)
(*   Listing     what was read is there unless something was removed, and  *)
(*               what is there was read unless something was added         *)
(*   ToldIs      what was told is what the rules make of what was read     *)
(*   UsedIsRead  what `up` found there was read                            *)
(*   Upped       what `up` did to what was read, container by container    *)
(* Between the invariants and the properties stand the lemmas about the    *)
(* rules: what a finding stands for (NameConflictIs and those after it),   *)
(* what a row says (RowIs), and what the lack of a finding says (Clear-).  *)
(***************************************************************************)
EXTENDS EngineAudit, TLAPS

-----------------------------------------------------------------------------
(***************************************************************************)
(* Records, and what a step writes of them.                                *)
(***************************************************************************)

IsRead(r) ==
  r = [plan |-> r.plan, runtime |-> r.runtime, observed |-> r.observed, containers |-> r.containers,
       networks |-> r.networks, volumes |-> r.volumes, images |-> r.images]

IsEngine(w) ==
  w = [containers |-> w.containers, networks |-> w.networks, volumes |-> w.volumes, images |-> w.images]

\* A list of the engine replaced by another.
LEMMA EngineWith ==
  ASSUME NEW w, IsEngine(w), NEW e
  PROVE  /\ [w EXCEPT !.containers = e] =
              [containers |-> e, networks |-> w.networks, volumes |-> w.volumes, images |-> w.images]
         /\ [w EXCEPT !.networks = e] =
              [containers |-> w.containers, networks |-> e, volumes |-> w.volumes, images |-> w.images]
         /\ [w EXCEPT !.volumes = e] =
              [containers |-> w.containers, networks |-> w.networks, volumes |-> e, images |-> w.images]
<1>1. [w EXCEPT !.containers = e] =
        [containers |-> e, networks |-> w.networks, volumes |-> w.volumes, images |-> w.images]
  BY DEF IsEngine
<1>2. [w EXCEPT !.networks = e] =
        [containers |-> w.containers, networks |-> e, volumes |-> w.volumes, images |-> w.images]
  BY DEF IsEngine
<1>3. [w EXCEPT !.volumes = e] =
        [containers |-> w.containers, networks |-> w.networks, volumes |-> e, images |-> w.images]
  BY DEF IsEngine
<1>4. QED
  BY <1>1, <1>2, <1>3

\* A row of `network ls`, field by field.
IsRow(n) ==
  n = [name |-> n.name, project |-> n.project, swarm |-> n.swarm, attachable |-> n.attachable,
       subnets |-> n.subnets]

\* A row with another answer of its inspection.
LEMMA RowWith ==
  ASSUME NEW n, IsRow(n), NEW a, NEW s
  PROVE  [n EXCEPT !.attachable = a, !.subnets = s] =
           [name |-> n.name, project |-> n.project, swarm |-> n.swarm, attachable |-> a, subnets |-> s]
<1> DEFINE d == [n EXCEPT !.attachable = a]
<1>1. d = [name |-> n.name, project |-> n.project, swarm |-> n.swarm, attachable |-> a, subnets |-> n.subnets]
  BY DEF IsRow
<1>2. [n EXCEPT !.attachable = a, !.subnets = s] = [d EXCEPT !.subnets = s]
  OBVIOUS
<1> HIDE DEF d
<1>3. QED
  BY <1>1, <1>2

\* A row of `network ls`, and the network it is of.
LEMMA UnreadIs ==
  ASSUME NEW n, IsNetwork(n)
  PROVE  /\ Unread(n).name = n.name /\ Unread(n).project = n.project /\ Unread(n).swarm = n.swarm
         /\ Unread(n).attachable = "" /\ Unread(n).subnets = {}
         /\ Shown(n, n) = n
<1>1. IsRow(n)
  BY DEF IsNetwork, IsRow
<1> DEFINE u == [name |-> n.name, project |-> n.project, swarm |-> n.swarm, attachable |-> "", subnets |-> {}]
<1>2. Unread(n) = u
  BY <1>1, RowWith DEF Unread
<1>3. IsRow(u) /\ u.name = n.name /\ u.project = n.project /\ u.swarm = n.swarm
  BY DEF IsRow
<1>4. u.attachable = "" /\ u.subnets = {}
  OBVIOUS
<1> HIDE DEF u
<1>5. Shown(n, n) = [u EXCEPT !.attachable = n.attachable, !.subnets = n.subnets]
  BY <1>2 DEF Shown
<1>6. Shown(n, n) = [name |-> u.name, project |-> u.project, swarm |-> u.swarm, attachable |-> n.attachable,
                     subnets |-> n.subnets]
  BY <1>3, <1>5, RowWith
<1>7. Shown(n, n) = n
  BY <1>1, <1>3, <1>6 DEF IsRow
<1>8. QED
  BY <1>2, <1>3, <1>4, <1>7

Input(p, r, o, c, n, v, i) ==
  [plan |-> p, runtime |-> r, observed |-> o, containers |-> c, networks |-> n, volumes |-> v, images |-> i]

\* The rules' input, field by field.
LEMMA InputIs ==
  ASSUME NEW p, NEW r, NEW o, NEW c, NEW n, NEW v, NEW i
  PROVE  LET in == Input(p, r, o, c, n, v, i)
         IN  /\ IsRead(in) /\ in.plan = p /\ in.runtime = r /\ in.observed = o
             /\ in.containers = c /\ in.networks = n /\ in.volumes = v /\ in.images = i
BY DEF IsRead, Input

\* The rules' input with one field replaced.
LEMMA FieldWith ==
  ASSUME NEW r, IsRead(r), NEW e
  PROVE  /\ [r EXCEPT !.runtime = e] = Input(r.plan, e, r.observed, r.containers, r.networks, r.volumes, r.images)
         /\ [r EXCEPT !.observed = e] = Input(r.plan, r.runtime, e, r.containers, r.networks, r.volumes, r.images)
         /\ [r EXCEPT !.containers = e] = Input(r.plan, r.runtime, r.observed, e, r.networks, r.volumes, r.images)
         /\ [r EXCEPT !.networks = e] = Input(r.plan, r.runtime, r.observed, r.containers, e, r.volumes, r.images)
         /\ [r EXCEPT !.volumes = e] = Input(r.plan, r.runtime, r.observed, r.containers, r.networks, e, r.images)
         /\ [r EXCEPT !.images = e] = Input(r.plan, r.runtime, r.observed, r.containers, r.networks, r.volumes, e)
<1>1. [r EXCEPT !.runtime = e] = Input(r.plan, e, r.observed, r.containers, r.networks, r.volumes, r.images)
  BY DEF IsRead, Input
<1>2. [r EXCEPT !.observed = e] = Input(r.plan, r.runtime, e, r.containers, r.networks, r.volumes, r.images)
  BY DEF IsRead, Input
<1>3. [r EXCEPT !.containers = e] = Input(r.plan, r.runtime, r.observed, e, r.networks, r.volumes, r.images)
  BY DEF IsRead, Input
<1>4. [r EXCEPT !.networks = e] = Input(r.plan, r.runtime, r.observed, r.containers, e, r.volumes, r.images)
  BY DEF IsRead, Input
<1>5. [r EXCEPT !.volumes = e] = Input(r.plan, r.runtime, r.observed, r.containers, r.networks, e, r.images)
  BY DEF IsRead, Input
<1>6. [r EXCEPT !.images = e] = Input(r.plan, r.runtime, r.observed, r.containers, r.networks, r.volumes, e)
  BY DEF IsRead, Input
<1>7. QED
  BY <1>1, <1>2, <1>3, <1>4, <1>5, <1>6

\* Three lists of the engine replaced by others: what `up` creates and removes.
LEMMA EngineWithAll ==
  ASSUME NEW w, IsEngine(w), NEW c, NEW n, NEW v
  PROVE  [w EXCEPT !.volumes = v, !.networks = n, !.containers = c] =
           [containers |-> c, networks |-> n, volumes |-> v, images |-> w.images]
<1>1. PICK d : d = [w EXCEPT !.volumes = v]
  OBVIOUS
<1>2. d = [containers |-> w.containers, networks |-> w.networks, volumes |-> v, images |-> w.images]
  BY <1>1 DEF IsEngine
<1>3. PICK g : g = [d EXCEPT !.networks = n]
  OBVIOUS
<1>4. g = [containers |-> w.containers, networks |-> n, volumes |-> v, images |-> w.images]
  BY <1>2, <1>3
<1>5. [g EXCEPT !.containers = c] = [containers |-> c, networks |-> n, volumes |-> v, images |-> w.images]
  BY <1>4
<1>6. [w EXCEPT !.volumes = v, !.networks = n, !.containers = c] = [g EXCEPT !.containers = c]
  BY <1>1, <1>3
<1>7. QED
  BY <1>5, <1>6

-----------------------------------------------------------------------------
(***************************************************************************)
(* What each step does to the rules' input and to the engine, field by     *)
(* field.                                                                  *)
(***************************************************************************)

\* There is no engine, it does not answer, or its containers are listed.
LEMMA ProbeDoes ==
  ASSUME IsRead(read), Probe
  PROVE  /\ IsRead(read') /\ read'.plan = read.plan
         /\ read'.networks = read.networks /\ read'.volumes = read.volumes /\ read'.images = read.images
         /\ \/ engine = "none" /\ read' = read /\ phase' = "judge"
            \/ /\ engine = "down" /\ phase' = "judge" /\ read'.runtime = "silent"
               /\ read'.containers = read.containers /\ read'.observed = [s \in Sources |-> "failed"]
            \/ /\ engine \notin {"none", "down"} /\ phase' = "networks" /\ read'.runtime = "answers"
               /\ \E a \in Answers("containers") :
                    /\ a.state # "failed" /\ read'.containers = a.items
                    /\ read'.observed = Observed({"containers"}, a.state)
<1>1. CASE engine = "none"
  BY <1>1 DEF Probe
<1>2. CASE engine = "down"
  <2>1. phase' = "judge" /\ read' = [read EXCEPT !.runtime = "silent", !.observed = Observed(Sources, "failed")]
    BY <1>2 DEF Probe
  <2>2. read' = Input(read.plan, "silent", Observed(Sources, "failed"), read.containers, read.networks, read.volumes,
                      read.images)
    <3>1. PICK d : d = [read EXCEPT !.runtime = "silent"]
      OBVIOUS
    <3>2. d = Input(read.plan, "silent", read.observed, read.containers, read.networks, read.volumes, read.images)
      BY <3>1 DEF IsRead, Input
    <3>3. [d EXCEPT !.observed = Observed(Sources, "failed")] =
          Input(read.plan, "silent", Observed(Sources, "failed"), read.containers, read.networks, read.volumes,
                read.images)
      BY <3>2 DEF Input
    <3>4. read' = [d EXCEPT !.observed = Observed(Sources, "failed")]
      BY <2>1, <3>1
    <3>5. QED
      BY <3>3, <3>4
  <2>3. Observed(Sources, "failed") = [s \in Sources |-> "failed"]
    BY DEF Observed
  <2>4. QED
    BY <1>2, <2>1, <2>2, <2>3, InputIs
<1>3. CASE engine \notin {"none", "down"}
  <2>1. PICK a \in Answers("containers") :
          /\ a.state # "failed"
          /\ read' = [read EXCEPT !.runtime = "answers", !.containers = a.items,
                                  !.observed = Observed({"containers"}, a.state)]
          /\ phase' = "networks"
    BY <1>3 DEF Probe
  <2>2. read' = Input(read.plan, "answers", Observed({"containers"}, a.state), a.items, read.networks, read.volumes,
                      read.images)
    <3>1. PICK d : d = [read EXCEPT !.runtime = "answers"]
      OBVIOUS
    <3>2. d = Input(read.plan, "answers", read.observed, read.containers, read.networks, read.volumes, read.images)
      BY <3>1 DEF IsRead, Input
    <3>3. PICK g : g = [d EXCEPT !.containers = a.items]
      OBVIOUS
    <3>4. g = Input(read.plan, "answers", read.observed, a.items, read.networks, read.volumes, read.images)
      BY <3>3, <3>2 DEF IsRead, Input
    <3>5. [g EXCEPT !.observed = Observed({"containers"}, a.state)] =
          Input(read.plan, "answers", Observed({"containers"}, a.state), a.items, read.networks, read.volumes,
                read.images)
      BY <3>4 DEF Input
    <3>6. read' = [g EXCEPT !.observed = Observed({"containers"}, a.state)]
      BY <2>1, <3>1, <3>3
    <3>7. QED
      BY <3>5, <3>6
  <2>3. QED
    BY <1>3, <2>1, <2>2, InputIs
<1>4. QED
  BY <1>1, <1>2, <1>3

\* The networks are listed as rows that show neither ranges nor whether they are attachable.
LEMMA ListNetworksDoes ==
  ASSUME IsRead(read), ListNetworks
  PROVE  /\ IsRead(read') /\ read'.plan = read.plan /\ read'.runtime = read.runtime
         /\ read'.containers = read.containers /\ read'.volumes = read.volumes /\ read'.images = read.images
         /\ \E a \in Answers("networks") :
              /\ read'.networks = {Unread(n) : n \in a.items}
              /\ read'.observed = Observed(IF a.state = "failed" THEN {"networks", "subnets"}
                                           ELSE {"networks"}, a.state)
              /\ todo' = a.items
              /\ phase' = IF a.state = "failed" THEN "volumes" ELSE "subnets"
<1>1. PICK a \in Answers("networks") :
        /\ read' = [read EXCEPT !.networks = {Unread(n) : n \in a.items},
                                !.observed = Observed(IF a.state = "failed" THEN {"networks", "subnets"}
                                                      ELSE {"networks"}, a.state)]
        /\ todo' = a.items
        /\ phase' = IF a.state = "failed" THEN "volumes" ELSE "subnets"
  BY DEF ListNetworks
<1> DEFINE o == Observed(IF a.state = "failed" THEN {"networks", "subnets"} ELSE {"networks"}, a.state)
           e == {Unread(n) : n \in a.items}
<1>2. read' = [read EXCEPT !.networks = e, !.observed = o]
  BY <1>1
<1> HIDE DEF o, e
<1>3. read' = Input(read.plan, read.runtime, o, read.containers, e, read.volumes, read.images)
  <2>1. PICK d : d = [read EXCEPT !.networks = e]
    OBVIOUS
  <2>2. d = Input(read.plan, read.runtime, read.observed, read.containers, e, read.volumes, read.images)
    BY <2>1 DEF IsRead, Input
  <2>3. [d EXCEPT !.observed = o] = Input(read.plan, read.runtime, o, read.containers, e, read.volumes, read.images)
    BY <2>2 DEF Input
  <2>4. read' = [d EXCEPT !.observed = o]
    BY <1>2, <2>1
  <2>5. QED
    BY <2>3, <2>4
<1>4. QED
  BY <1>1, <1>3, InputIs DEF o, e

\* One row stays as it was listed, or what its network shows now takes its place.
LEMMA InspectNetworkDoes ==
  ASSUME IsRead(read), NEW n \in todo, InspectNetwork(n)
  PROVE  /\ IsRead(read') /\ read'.plan = read.plan /\ read'.runtime = read.runtime /\ read'.observed = read.observed
         /\ read'.containers = read.containers /\ read'.volumes = read.volumes /\ read'.images = read.images
         /\ todo' = todo \ {n}
         /\ \/ read'.networks = read.networks /\ missed' = missed + 1
            \/ /\ missed' = missed
               /\ \E now \in Named(world.networks, n.name) :
                    read'.networks = (read.networks \ {Unread(n)}) \cup {Shown(n, now)}
<1>0. todo' = todo \ {n}
  BY DEF InspectNetwork
<1>1. CASE read' = read /\ missed' = missed + 1
  BY <1>0, <1>1
<1>2. ASSUME missed' = missed, NEW now \in Named(world.networks, n.name),
             read' = [read EXCEPT !.networks = (@ \ {Unread(n)}) \cup {Shown(n, now)}]
      PROVE  /\ IsRead(read') /\ read'.plan = read.plan /\ read'.runtime = read.runtime
             /\ read'.observed = read.observed
             /\ read'.containers = read.containers /\ read'.volumes = read.volumes /\ read'.images = read.images
             /\ read'.networks = (read.networks \ {Unread(n)}) \cup {Shown(n, now)}
  <2> DEFINE e == (read.networks \ {Unread(n)}) \cup {Shown(n, now)}
  <2>1. read' = [read EXCEPT !.networks = e]
    BY <1>2
  <2> HIDE DEF e
  <2>2. read' = Input(read.plan, read.runtime, read.observed, read.containers, e, read.volumes, read.images)
    BY <2>1, FieldWith
  <2>3. QED
    BY <2>2, InputIs DEF e
<1>3. QED
  BY <1>0, <1>1, <1>2 DEF InspectNetwork

\* The subnets were read in full when no network was missed.
LEMMA NetworksInspectedDoes ==
  ASSUME IsRead(read), NetworksInspected
  PROVE  /\ IsRead(read') /\ read'.plan = read.plan /\ read'.runtime = read.runtime
         /\ read'.containers = read.containers /\ read'.networks = read.networks /\ read'.volumes = read.volumes
         /\ read'.images = read.images
         /\ read'.observed = Observed({"subnets"}, IF missed > 0 THEN "partial" ELSE "complete")
<1> DEFINE o == Observed({"subnets"}, IF missed > 0 THEN "partial" ELSE "complete")
<1>1. read' = [read EXCEPT !.observed = o]
  BY DEF NetworksInspected
<1> HIDE DEF o
<1>2. read' = Input(read.plan, read.runtime, o, read.containers, read.networks, read.volumes, read.images)
  BY <1>1, FieldWith
<1>3. QED
  BY <1>2, InputIs DEF o

\* The volumes are listed.
LEMMA ListVolumesDoes ==
  ASSUME IsRead(read), ListVolumes
  PROVE  /\ IsRead(read') /\ read'.plan = read.plan /\ read'.runtime = read.runtime
         /\ read'.containers = read.containers /\ read'.networks = read.networks /\ read'.images = read.images
         /\ \E a \in Answers("volumes") : read'.volumes = a.items /\ read'.observed = Observed({"volumes"}, a.state)
<1>1. PICK a \in Answers("volumes") :
        read' = [read EXCEPT !.volumes = a.items, !.observed = Observed({"volumes"}, a.state)]
  BY DEF ListVolumes
<1>2. read' = Input(read.plan, read.runtime, Observed({"volumes"}, a.state), read.containers, read.networks, a.items,
                    read.images)
  <2>1. PICK d : d = [read EXCEPT !.volumes = a.items]
    OBVIOUS
  <2>2. d = Input(read.plan, read.runtime, read.observed, read.containers, read.networks, a.items, read.images)
    BY <2>1 DEF IsRead, Input
  <2>3. [d EXCEPT !.observed = Observed({"volumes"}, a.state)] =
        Input(read.plan, read.runtime, Observed({"volumes"}, a.state), read.containers, read.networks, a.items,
              read.images)
    BY <2>2 DEF Input
  <2>4. read' = [d EXCEPT !.observed = Observed({"volumes"}, a.state)]
    BY <1>1, <2>1
  <2>5. QED
    BY <2>3, <2>4
<1>3. QED
  BY <1>2, InputIs

\* The images are listed, which no other list is read for.
LEMMA ListImagesDoes ==
  ASSUME IsRead(read), ListImages
  PROVE  /\ IsRead(read') /\ read'.plan = read.plan /\ read'.runtime = read.runtime
         /\ read'.containers = read.containers /\ read'.networks = read.networks /\ read'.volumes = read.volumes
         /\ \E a \in Answers("images") : read'.observed = Observed({"images"}, a.state)
<1>1. PICK a \in Answers("images") :
        read' = [read EXCEPT !.images = {Listed(i) : i \in a.items}, !.observed = Observed({"images"}, a.state)]
  BY DEF ListImages
<1> DEFINE e == {Listed(i) : i \in a.items}
<1>2. read' = [read EXCEPT !.images = e, !.observed = Observed({"images"}, a.state)]
  BY <1>1
<1> HIDE DEF e
<1>3. read' = Input(read.plan, read.runtime, Observed({"images"}, a.state), read.containers, read.networks,
                    read.volumes, e)
  <2>1. PICK d : d = [read EXCEPT !.images = e]
    OBVIOUS
  <2>2. d = Input(read.plan, read.runtime, read.observed, read.containers, read.networks, read.volumes, e)
    BY <2>1 DEF IsRead, Input
  <2>3. [d EXCEPT !.observed = Observed({"images"}, a.state)] =
        Input(read.plan, read.runtime, Observed({"images"}, a.state), read.containers, read.networks, read.volumes, e)
    BY <2>2 DEF Input
  <2>4. read' = [d EXCEPT !.observed = Observed({"images"}, a.state)]
    BY <1>2, <2>1
  <2>5. QED
    BY <2>3, <2>4
<1>4. QED
  BY <1>3, InputIs

\* One image is inspected, or stays as it was listed.
LEMMA InspectImageDoes ==
  ASSUME IsRead(read), NEW i \in todo, InspectImage(i)
  PROVE  /\ IsRead(read') /\ read'.plan = read.plan /\ read'.runtime = read.runtime /\ read'.observed = read.observed
         /\ read'.containers = read.containers /\ read'.networks = read.networks /\ read'.volumes = read.volumes
<1>1. CASE read' = read
  BY <1>1
<1>2. ASSUME NEW arch, read' = [read EXCEPT !.images = (@ \ {Listed(i)}) \cup {[i EXCEPT !.arch = arch]}]
      PROVE  /\ IsRead(read') /\ read'.plan = read.plan /\ read'.runtime = read.runtime
             /\ read'.observed = read.observed
             /\ read'.containers = read.containers /\ read'.networks = read.networks /\ read'.volumes = read.volumes
  <2> DEFINE e == (read.images \ {Listed(i)}) \cup {[i EXCEPT !.arch = arch]}
  <2>1. read' = [read EXCEPT !.images = e]
    BY <1>2
  <2> HIDE DEF e
  <2>2. read' = Input(read.plan, read.runtime, read.observed, read.containers, read.networks, read.volumes, e)
    BY <2>1, FieldWith
  <2>3. QED
    BY <2>2, InputIs
<1>3. QED
  BY <1>1, <1>2 DEF InspectImage

\* Something is added to one list of the engine.
LEMMA AppearsDoes ==
  ASSUME IsEngine(world), Appears
  PROVE  /\ IsEngine(world') /\ gained' = TRUE /\ ~gained
         /\ \E x \in Newcomers :
              \/ /\ x.list = "containers" /\ world'.containers = world.containers \cup {x.item}
                 /\ world'.networks = world.networks /\ world'.volumes = world.volumes
                 /\ \A y \in world.containers : y.name # x.item.name
              \/ /\ x.list = "networks" /\ world'.networks = world.networks \cup {x.item}
                 /\ world'.containers = world.containers /\ world'.volumes = world.volumes
                 /\ \A y \in world.networks : y.name # x.item.name
              \/ /\ x.list = "volumes" /\ world'.volumes = world.volumes \cup {x.item}
                 /\ world'.containers = world.containers /\ world'.networks = world.networks
<1>1. PICK x \in Newcomers :
        /\ \A y \in world[x.list] : y.name # x.item.name
        /\ world' = [world EXCEPT ![x.list] = @ \cup {x.item}]
  BY DEF Appears
<1>2. x.list \in Lists \ {"images"}
  BY SituationsTyped DEF IsNewcomer
<1> DEFINE e == world[x.list] \cup {x.item}
<1>3. world' = [world EXCEPT ![x.list] = e]
  BY <1>1
<1> HIDE DEF e
<1>4. /\ IsEngine(world')
      /\ world'.containers = IF x.list = "containers" THEN e ELSE world.containers
      /\ world'.networks = IF x.list = "networks" THEN e ELSE world.networks
      /\ world'.volumes = IF x.list = "volumes" THEN e ELSE world.volumes
  <2>1. ASSUME x.list = "containers"
        PROVE  world' = [containers |-> e, networks |-> world.networks, volumes |-> world.volumes,
                         images |-> world.images]
    BY <2>1, <1>3, EngineWith
  <2>2. ASSUME x.list = "networks"
        PROVE  world' = [containers |-> world.containers, networks |-> e, volumes |-> world.volumes,
                         images |-> world.images]
    BY <2>2, <1>3, EngineWith
  <2>3. ASSUME x.list = "volumes"
        PROVE  world' = [containers |-> world.containers, networks |-> world.networks, volumes |-> e,
                         images |-> world.images]
    BY <2>3, <1>3, EngineWith
  <2>4. x.list = "containers" \/ x.list = "networks" \/ x.list = "volumes"
    BY <1>2 DEF Lists
  <2>5. QED
    BY <2>1, <2>2, <2>3, <2>4 DEF IsEngine
<1>5. x.list = "containers" \/ x.list = "networks" \/ x.list = "volumes"
  BY <1>2 DEF Lists
<1>6. gained' = TRUE /\ ~gained
  BY DEF Appears
<1>7. CASE x.list = "containers"
  BY <1>1, <1>4, <1>6, <1>7 DEF e
<1>8. CASE x.list = "networks"
  BY <1>1, <1>4, <1>6, <1>8 DEF e
<1>9. CASE x.list = "volumes"
  BY <1>1, <1>4, <1>6, <1>9 DEF e
<1>10. QED
  BY <1>5, <1>7, <1>8, <1>9

\* Something is removed from one of them.
LEMMA DisappearsDoes ==
  ASSUME IsEngine(world), Disappears
  PROVE  /\ IsEngine(world') /\ lost' = TRUE /\ ~lost
         /\ world'.containers \subseteq world.containers
         /\ world'.networks \subseteq world.networks
         /\ world'.volumes \subseteq world.volumes
<1>1. PICK list \in Lists \ {"images"} : \E x \in world[list] : world' = [world EXCEPT ![list] = @ \ {x}]
  BY DEF Disappears
<1>2. PICK x \in world[list] : world' = [world EXCEPT ![list] = @ \ {x}]
  BY <1>1
<1> DEFINE e == world[list] \ {x}
<1>3. world' = [world EXCEPT ![list] = e]
  BY <1>2
<1> HIDE DEF e
<1>4. /\ IsEngine(world')
      /\ world'.containers = IF list = "containers" THEN e ELSE world.containers
      /\ world'.networks = IF list = "networks" THEN e ELSE world.networks
      /\ world'.volumes = IF list = "volumes" THEN e ELSE world.volumes
  <2>1. ASSUME list = "containers"
        PROVE  world' = [containers |-> e, networks |-> world.networks, volumes |-> world.volumes,
                         images |-> world.images]
    BY <2>1, <1>3, EngineWith
  <2>2. ASSUME list = "networks"
        PROVE  world' = [containers |-> world.containers, networks |-> e, volumes |-> world.volumes,
                         images |-> world.images]
    BY <2>2, <1>3, EngineWith
  <2>3. ASSUME list = "volumes"
        PROVE  world' = [containers |-> world.containers, networks |-> world.networks, volumes |-> e,
                         images |-> world.images]
    BY <2>3, <1>3, EngineWith
  <2>4. list = "containers" \/ list = "networks" \/ list = "volumes"
    BY DEF Lists
  <2>5. QED
    BY <2>1, <2>2, <2>3, <2>4 DEF IsEngine
<1>5. lost' = TRUE /\ ~lost
  BY DEF Disappears
<1>6. QED
  BY <1>4, <1>5 DEF e

\* What `up` finds of the plan's volumes and networks.
FoundThere(u) ==
  \/ /\ u.list = "volumes" /\ u.d \in MountedVolumes(plan)
     /\ u.x \in world.volumes /\ u.x.name = EngineNameOf(u.d)
  \/ /\ u.list = "networks" /\ u.d \in plan.networks
     /\ u.x \in world.networks /\ u.x.name = EngineNameOf(u.d)

\* What --remove-orphans removes.
Removed(c) == OwnerOf(plan, c) = "orphan" /\ plan.removeOrphans

\* Nothing is changed when `up` is refused; otherwise it makes what is missing, notes what it
\* found, and removes the orphans it is asked to.
LEMMA PrepareDoes ==
  ASSUME IsEngine(world), Prepare
  PROVE  \/ /\ Refused /\ up' = [s \in plan.services |-> "failed"] /\ phase' = "end"
            /\ world' = world /\ used' = used
         \/ /\ ~Refused /\ up' = up /\ phase' = "converge" /\ IsEngine(world')
            /\ world.volumes \subseteq world'.volumes /\ world.networks \subseteq world'.networks
            /\ \A n \in world'.networks \ world.networks : IsNetwork(n) /\ ~n.swarm
            /\ world'.containers = {c \in world.containers : ~Removed(c)}
            /\ \A u \in used' : FoundThere(u)
            /\ \A v \in MountedVolumes(plan), x \in world.volumes :
                 x.name = EngineNameOf(v) => [list |-> "volumes", d |-> v, x |-> x] \in used'
            /\ \A n \in plan.networks, x \in world.networks :
                 x.name = EngineNameOf(n) => [list |-> "networks", d |-> n, x |-> x] \in used'
<1>1. CASE Refused
  BY <1>1 DEF Prepare
<1>2. CASE ~Refused
  <2> DEFINE New(d) == [name |-> EngineNameOf(d), project |-> plan.project]
             nv == {New(v) : v \in {w \in MountedVolumes(plan) : Existing("volumes", w) = {}}}
             nn == {[name |-> EngineNameOf(n), project |-> plan.project, swarm |-> FALSE,
                       attachable |-> "no", subnets |-> n.subnets] : n \in {m \in plan.networks : Existing("networks", m) = {}}}
             vols == world.volumes \cup nv
             nets == world.networks \cup nn
             cons == {c \in world.containers : ~(OwnerOf(plan, c) = "orphan" /\ plan.removeOrphans)}
             uv == Uses("volumes", MountedVolumes(plan))
             un == Uses("networks", plan.networks)
  <2>1. /\ world' = [world EXCEPT !.volumes = vols, !.networks = nets, !.containers = cons]
        /\ used' = uv \cup un /\ phase' = "converge" /\ up' = up
    <3>1. world' = [world EXCEPT !.volumes = vols, !.networks = nets, !.containers = cons]
      BY <1>2, Zenon DEF Prepare
    <3>2. used' = uv \cup un
      BY <1>2 DEF Prepare
    <3>3. phase' = "converge" /\ up' = up
      BY <1>2 DEF Prepare
    <3>4. QED
      BY <3>1, <3>2, <3>3
  <2>2. ASSUME NEW n \in nn
        PROVE  IsNetwork(n) /\ ~n.swarm
    <3>1. PICK m \in plan.networks :
            n = [name |-> EngineNameOf(m), project |-> plan.project, swarm |-> FALSE, attachable |-> "no",
                 subnets |-> m.subnets]
      OBVIOUS
    <3>2. QED
      BY <3>1 DEF IsNetwork
  <2>3. \A u \in used' : FoundThere(u)
    BY <2>1 DEF FoundThere, Uses, Existing, Named
  <2>4. \A v \in MountedVolumes(plan), x \in world.volumes :
          x.name = EngineNameOf(v) => [list |-> "volumes", d |-> v, x |-> x] \in used'
    BY <2>1 DEF Uses, Existing, Named
  <2>5. \A n \in plan.networks, x \in world.networks :
          x.name = EngineNameOf(n) => [list |-> "networks", d |-> n, x |-> x] \in used'
    BY <2>1 DEF Uses, Existing, Named
  <2> HIDE DEF nv, nn, cons, uv, un
  <2>6. world' = [containers |-> cons, networks |-> nets, volumes |-> vols, images |-> world.images]
    BY <2>1, EngineWithAll
  <2>7. IsEngine(world') /\ world'.containers = cons /\ world'.networks = nets /\ world'.volumes = vols
    BY <2>6 DEF IsEngine
  <2>8. QED
    BY <1>2, <2>1, <2>2, <2>3, <2>4, <2>5, <2>7 DEF cons, Removed
<1>3. QED
  BY <1>1, <1>2

\* A service's own containers, as Compose identifies them, those it keeps, and the one it
\* makes otherwise.
Own(c, s) == Ours(read, c) /\ ~c.oneOff /\ c.service = s

Keeps(c, s) == ~plan.forceRecreate /\ (plan.noRecreate \/ c.hash = plan.hashes[s])

Made(s) == [name |-> ContainerNameOf(plan, s), labelled |-> TRUE, project |-> plan.project, service |-> s,
            dir |-> plan.dir, oneOff |-> FALSE, hash |-> plan.hashes[s], image |-> plan.svc[s].image]

ClosedNetwork == \E n \in plan.networks : \E f \in world.networks :
                   f.name = EngineNameOf(n) /\ f.swarm /\ f.attachable = "no"

Rest(s) == {c \in world.containers : ~Own(c, s)}

\* A service keeps a container, fails on a name that is taken, or gets a new one in place of
\* its own, which starts unless a network turns it away.
LEMMA ConvergeDoes ==
  ASSUME IsEngine(world), NEW s, Converge(s)
  PROVE  /\ phase = "converge" /\ up[s] = "pending"
         /\ IsEngine(world') /\ world'.networks = world.networks /\ world'.volumes = world.volumes
         /\ phase' = IF \E t \in plan.services : up'[t] = "pending" THEN "converge" ELSE "end"
         /\ \/ /\ \E c \in world.containers : Own(c, s) /\ Keeps(c, s)
               /\ up' = [up EXCEPT ![s] = "kept"] /\ world'.containers = world.containers
            \/ /\ \A c \in world.containers : ~(Own(c, s) /\ Keeps(c, s))
               /\ \E c \in Rest(s) : c.name = ContainerNameOf(plan, s)
               /\ up' = [up EXCEPT ![s] = "failed"] /\ world'.containers = Rest(s)
            \/ /\ \A c \in world.containers : ~(Own(c, s) /\ Keeps(c, s))
               /\ \A c \in Rest(s) : c.name # ContainerNameOf(plan, s)
               /\ world'.containers = Rest(s) \cup {Made(s)}
               /\ \/ ClosedNetwork /\ up' = [up EXCEPT ![s] = "failed"]
                  \/ /\ ~ClosedNetwork /\ up' = [up EXCEPT ![s] = "created"]
                     /\ \A c \in world.containers : ~Own(c, s)
                  \/ /\ ~ClosedNetwork /\ up' = [up EXCEPT ![s] = "replaced"]
                     /\ \E c \in world.containers : Own(c, s)
<1> DEFINE old  == {c \in world.containers : Ours(read, c) /\ ~c.oneOff /\ c.service = s}
           kept == {c \in old : ~plan.forceRecreate /\ (plan.noRecreate \/ c.hash = plan.hashes[s])}
           closed == \E n \in plan.networks : \E f \in Existing("networks", n) : f.swarm /\ f.attachable = "no"
           rest == world.containers \ old
           all  == rest \cup {Made(s)}
<1>1. /\ phase = "converge" /\ up[s] = "pending"
      /\ phase' = IF \E t \in plan.services : up'[t] = "pending" THEN "converge" ELSE "end"
  BY DEF Converge
<1>2. old = {c \in world.containers : Own(c, s)} /\ rest = Rest(s)
  BY DEF Own, Rest
<1>3. kept = {c \in world.containers : Own(c, s) /\ Keeps(c, s)}
  BY DEF Own, Keeps
<1>4. closed = ClosedNetwork
  BY DEF Existing, Named, ClosedNetwork
<1>5. \/ kept # {} /\ up' = [up EXCEPT ![s] = "kept"] /\ world' = world
      \/ /\ kept = {} /\ Named(rest, ContainerNameOf(plan, s)) # {}
         /\ up' = [up EXCEPT ![s] = "failed"] /\ world' = [world EXCEPT !.containers = rest]
      \/ /\ kept = {} /\ Named(rest, ContainerNameOf(plan, s)) = {}
         /\ up' = [up EXCEPT ![s] = IF closed THEN "failed" ELSE IF old = {} THEN "created" ELSE "replaced"]
         /\ world' = [world EXCEPT !.containers = all]
  BY DEF Converge, Made
<1> HIDE DEF old, kept, closed, rest, all
<1>6. CASE kept # {} /\ up' = [up EXCEPT ![s] = "kept"] /\ world' = world
  BY <1>1, <1>3, <1>6
<1>7. CASE /\ kept = {} /\ Named(rest, ContainerNameOf(plan, s)) # {}
           /\ up' = [up EXCEPT ![s] = "failed"] /\ world' = [world EXCEPT !.containers = rest]
  <2>1. world' = [containers |-> rest, networks |-> world.networks, volumes |-> world.volumes, images |-> world.images]
    BY <1>7, EngineWith
  <2>2. /\ IsEngine(world') /\ world'.containers = Rest(s) /\ world'.networks = world.networks
        /\ world'.volumes = world.volumes
    BY <1>2, <2>1 DEF IsEngine
  <2>3. \E c \in Rest(s) : c.name = ContainerNameOf(plan, s)
    BY <1>2, <1>7 DEF Named
  <2>4. \A c \in world.containers : ~(Own(c, s) /\ Keeps(c, s))
    BY <1>3, <1>7
  <2>5. QED
    BY <1>1, <1>7, <2>2, <2>3, <2>4
<1>8. CASE /\ kept = {} /\ Named(rest, ContainerNameOf(plan, s)) = {}
           /\ up' = [up EXCEPT ![s] = IF closed THEN "failed" ELSE IF old = {} THEN "created" ELSE "replaced"]
           /\ world' = [world EXCEPT !.containers = all]
  <2>1. world' = [containers |-> all, networks |-> world.networks, volumes |-> world.volumes, images |-> world.images]
    BY <1>8, EngineWith
  <2>2. /\ IsEngine(world') /\ world'.containers = Rest(s) \cup {Made(s)} /\ world'.networks = world.networks
        /\ world'.volumes = world.volumes
    BY <1>2, <2>1 DEF IsEngine, all
  <2>3. \A c \in Rest(s) : c.name # ContainerNameOf(plan, s)
    BY <1>2, <1>8 DEF Named
  <2>4. \A c \in world.containers : ~(Own(c, s) /\ Keeps(c, s))
    BY <1>3, <1>8
  <2>5. \/ ClosedNetwork /\ up' = [up EXCEPT ![s] = "failed"]
        \/ /\ ~ClosedNetwork /\ up' = [up EXCEPT ![s] = "created"]
           /\ \A c \in world.containers : ~Own(c, s)
        \/ /\ ~ClosedNetwork /\ up' = [up EXCEPT ![s] = "replaced"]
           /\ \E c \in world.containers : Own(c, s)
    <3>1. CASE closed
      BY <1>4, <1>8, <3>1
    <3>2. CASE ~closed /\ old = {}
      BY <1>2, <1>4, <1>8, <3>2
    <3>3. CASE ~closed /\ old # {}
      BY <1>2, <1>4, <1>8, <3>3
    <3>4. QED
      BY <3>1, <3>2, <3>3
  <2>6. QED
    BY <1>1, <2>2, <2>3, <2>4, <2>5
<1>9. QED
  BY <1>5, <1>6, <1>7, <1>8

-----------------------------------------------------------------------------
(***************************************************************************)
(* The invariants.                                                         *)
(***************************************************************************)

Phases == {"probe", "networks", "subnets", "volumes", "images", "inspect", "judge", "up", "converge", "end"}

\* Before `up`, and since.
Deployed == phase \in {"converge", "end"}

\* What each variable is.
Typed ==
  /\ IsPlan(plan) /\ IsRead(read) /\ read.plan = plan
  /\ IsEngine(world) /\ (\A c \in world.containers : IsContainer(c)) /\ (\A n \in world.networks : IsNetwork(n))
  /\ NamesDiffer(world.containers) /\ (~Deployed => NamesDiffer(world.networks))
  /\ missed \in Nat /\ inspected \in Nat
  /\ inspected <= MaxNetworkInspect \/ inspected <= MaxImageInspect
  /\ phase \in Phases /\ engine \in {"none", "down", "answers"}
  /\ phase \notin {"probe", "judge", "up"} => engine = "answers"
  /\ phase # "probe" /\ engine = "answers" => read.runtime = "answers"
  /\ read.observed \in [Sources -> {"complete", "partial", "failed", "not-collected"}]
  /\ up \in [plan.services -> {"pending", "kept", "created", "replaced", "failed"}]
  /\ ~Deployed => used = {} /\ up = [s \in plan.services |-> "pending"]

\* Nothing is read before the probe, nor a subnet before the networks are listed.
Unstarted ==
  /\ phase = "probe" => /\ read.containers = {} /\ read.networks = {} /\ read.volumes = {}
                        /\ read.observed = [s \in Sources |-> "not-collected"]
  /\ phase = "networks" => /\ read.networks = {} /\ read.volumes = {}
                           /\ read.observed["networks"] = "not-collected" /\ read.observed["volumes"] = "not-collected"
  /\ phase \in {"networks", "subnets"} => read.observed["subnets"] = "not-collected"
  /\ phase = "subnets" => read.volumes = {} /\ read.observed["volumes"] = "not-collected"
  /\ phase = "volumes" => read.volumes = {}

\* A listed network that is still to be inspected is in the engine unless it was removed, and
\* nothing else there has its name unless one was added as well.
Visited ==
  phase = "subnets" =>
    \A t \in todo :
      /\ IsNetwork(t) /\ (~lost => t \in world.networks)
      /\ ~lost \/ ~gained => \A n \in world.networks : n.name = t.name => n = t

\* What was read is there, unless it was removed.
ReadIsThere ==
  ~lost =>
    /\ read.volumes \subseteq world.volumes
    /\ \A f \in read.networks : \E n \in world.networks : f = n \/ f = Unread(n)
    /\ ~Deployed => read.containers \subseteq world.containers

ReadContainers == NamesDiffer(read.containers) /\ \A c \in read.containers : IsContainer(c)

\* What is there was read by a complete list, unless it was added.
ThereIsRead ==
  ~gained /\ ~Deployed =>
    /\ read.observed["containers"] = "complete" => world.containers \subseteq read.containers
    /\ read.observed["volumes"] = "complete" => world.volumes \subseteq read.volumes
    /\ read.observed["networks"] = "complete" =>
         /\ \A n \in world.networks : n \in read.networks \/ Unread(n) \in read.networks
         /\ phase = "subnets" /\ missed = 0 => world.networks \subseteq read.networks \cup todo
         /\ read.observed["subnets"] = "complete" => world.networks \subseteq read.networks

\* What was told is what the rules make of what was read.
ToldIs ==
  IF Told THEN told.findings = Findings(read) /\ told.outcomes = RuleOutcomes(read)
  ELSE told.findings = {}

\* A read row is of a network, whatever else was read of it.
RowOf(f, n) == f.name = n.name /\ f.project = n.project

\* What `up` found was read by a complete list, unless it was added.
UsedIsRead ==
  \A u \in used :
    /\ read.runtime = "answers" /\ u.x.name = EngineNameOf(u.d)
    /\ \/ /\ u.list = "volumes" /\ u.d \in MountedVolumes(plan)
          /\ ~gained /\ read.observed["volumes"] = "complete" => u.x \in read.volumes
       \/ /\ u.list = "networks" /\ u.d \in plan.networks
          /\ ~gained /\ read.observed["networks"] = "complete" => \E f \in read.networks : RowOf(f, u.x)

\* Compose or the engine refused before anything was changed.
AllRefused == phase = "end" /\ used = {} /\ \A s \in plan.services : up[s] = "failed"

\* Otherwise what was read of the plan's volumes and networks, and what is external, was
\* found, and the range of a network that was made was free.
ReadIsUsed ==
  Deployed /\ ~AllRefused =>
    /\ \A v \in MountedVolumes(plan) :
         v.external \/ (~lost /\ Named(read.volumes, EngineNameOf(v)) # {}) => \E u \in used : u.d = v
    /\ \A n \in plan.networks :
         /\ n.external \/ (~lost /\ Named(read.networks, EngineNameOf(n)) # {}) =>
              \E u \in used : u.d = n /\ u.list = "networks"
         /\ ~lost =>
              \/ \E u \in used : u.d = n /\ u.list = "networks"
              \/ \A f \in read.networks, a \in n.subnets : \A b \in f.subnets : ~NetworksOverlap(a, b)

\* The containers that were read and are still there: those the plan does not release, and
\* those of the services whose turn has not come.
Stays ==
  Deployed /\ ~lost =>
    \A c \in read.containers :
      ~Released(plan, c) \/ (\E s \in plan.services : Own(c, s) /\ up[s] = "pending") => c \in world.containers

\* Those that are there and were not read by a complete list were made by `up`.
MadeOrRead ==
  Deployed /\ ~gained /\ read.observed["containers"] = "complete" =>
    \A c \in world.containers :
      c \in read.containers \/ \E s \in plan.services : up[s] # "pending" /\ c = Made(s)

\* The networks that are there were read by a complete list or take every container.
ClosedIsRead ==
  Deployed /\ ~gained /\ read.observed["networks"] = "complete" =>
    \A n \in world.networks : n.swarm => n \in read.networks \/ Unread(n) \in read.networks

\* What `up` did about a service, and what was read of its containers.
Done ==
  Deployed /\ ~AllRefused =>
    \A s \in plan.services :
      /\ up[s] = "kept" => \E c \in world.containers : Own(c, s)
      /\ up[s] \in {"created", "replaced"} => ~ClosedNetwork
      /\ ~lost =>
           /\ up[s] = "created" => \A c \in read.containers : ~Own(c, s)
           /\ up[s] \in {"created", "replaced", "failed"} => \A c \in read.containers : ~(Own(c, s) /\ Keeps(c, s))
           /\ up[s] \in {"created", "replaced"} =>
                \A c \in read.containers : c.name = ContainerNameOf(plan, s) => Released(plan, c)
      /\ ~gained /\ read.observed["containers"] = "complete" /\ up[s] \in {"kept", "replaced"} =>
           \E c \in read.containers : Own(c, s)

Finished == phase = "end" => \A s \in plan.services : up[s] # "pending"

\* The steps that read.
Reads ==
  \/ Probe \/ ListNetworks \/ NetworksInspected \/ ListVolumes \/ ListImages \/ ImagesInspected
  \/ \E n \in todo : InspectNetwork(n)
  \/ \E i \in todo : InspectImage(i)

\* Every step reads, judges, is somebody else's, or is one of `up`.
LEMMA Steps ==
  ASSUME Next
  PROVE  Reads \/ Judge \/ Appears \/ Disappears \/ Prepare \/ \E s \in plan.services : Converge(s)
BY DEF Next, Reads

\* They leave the engine and what `up` did alone.
LEMMA ReadsLeave ==
  ASSUME Reads
  PROVE  /\ UNCHANGED <<plan, engine, world, gained, lost, told, up, used>>
         /\ phase \in {"probe", "networks", "subnets", "volumes", "images", "inspect"}
         /\ phase' \in {"networks", "subnets", "volumes", "images", "inspect", "judge"}
<1> USE DEF environment, deployment
<1>1. CASE Probe
  BY <1>1 DEF Probe
<1>2. CASE ListNetworks
  BY <1>2 DEF ListNetworks
<1>3. CASE NetworksInspected
  BY <1>3 DEF NetworksInspected
<1>4. CASE ListVolumes
  BY <1>4 DEF ListVolumes
<1>5. CASE ListImages
  BY <1>5 DEF ListImages
<1>6. CASE ImagesInspected
  BY <1>6 DEF ImagesInspected
<1>7. CASE \E n \in todo : InspectNetwork(n)
  BY <1>7 DEF InspectNetwork
<1>8. CASE \E i \in todo : InspectImage(i)
  BY <1>8 DEF InspectImage
<1>9. QED
  BY <1>1, <1>2, <1>3, <1>4, <1>5, <1>6, <1>7, <1>8 DEF Reads

\* How completely a source was read is one of four words.
States == {"complete", "partial", "failed", "not-collected"}

\* What is noted of some sources leaves the others as they were.
LEMMA ObservedTyped ==
  ASSUME read.observed \in [Sources -> States], NEW sources, NEW state \in States
  PROVE  /\ Observed(sources, state) \in [Sources -> States]
         /\ \A s \in Sources : Observed(sources, state)[s] = IF s \in sources THEN state ELSE read.observed[s]
BY DEF Observed

\* A list holds what is there: all of it when complete, nothing when it failed.
LEMMA AnswersAre ==
  ASSUME NEW list, NEW a \in Answers(list)
  PROVE  /\ a.state \in {"complete", "partial", "failed"} /\ a.items \subseteq world[list]
         /\ a.state = "complete" => a.items = world[list]
         /\ a.state = "failed" => a.items = {}
<1>1. \/ a = [state |-> "failed", items |-> {}] \/ a = [state |-> "complete", items |-> world[list]]
      \/ \E s \in SUBSET world[list] : a = [state |-> "partial", items |-> s]
  BY DEF Answers
<1>2. CASE a = [state |-> "failed", items |-> {}]
  BY <1>2
<1>3. CASE a = [state |-> "complete", items |-> world[list]]
  BY <1>3
<1>4. CASE \E s \in SUBSET world[list] : a = [state |-> "partial", items |-> s]
  BY <1>4
<1>5. QED
  BY <1>1, <1>2, <1>3, <1>4

\* At the start nothing was read.
LEMMA TypedInit == Init => Typed /\ Unstarted
<1> SUFFICES ASSUME Init PROVE Typed /\ Unstarted
  OBVIOUS
<1>1. PICK f \in Situations : plan \in f.plans /\ world \in f.worlds /\ engine \in f.engines
  BY DEF Init
<1>2. IsPlan(plan) /\ IsWorld(world) /\ engine \in {"none", "down", "answers"}
  BY <1>1, SituationsTyped
<1>3. read = Input(plan, "none", [s \in Sources |-> "not-collected"], {}, {}, {}, {})
  BY DEF Init, Input
<1>4. /\ IsRead(read) /\ read.plan = plan /\ read.observed = [s \in Sources |-> "not-collected"]
      /\ read.containers = {} /\ read.networks = {} /\ read.volumes = {}
  BY <1>3, InputIs
<1>5. /\ IsEngine(world) /\ (\A c \in world.containers : IsContainer(c)) /\ (\A n \in world.networks : IsNetwork(n))
      /\ NamesDiffer(world.containers) /\ NamesDiffer(world.networks)
  BY <1>2 DEF IsWorld, IsEngine
<1>6. /\ missed = 0 /\ inspected = 0 /\ phase = "probe" /\ up = [s \in plan.services |-> "pending"] /\ used = {}
  BY DEF Init
<1>7. inspected <= MaxNetworkInspect
  BY <1>6, CapsAreCounts
<1>8. Typed
  BY <1>2, <1>4, <1>5, <1>6, <1>7 DEF Typed, Phases, Deployed
<1>9. Unstarted
  BY <1>4, <1>6 DEF Unstarted
<1>10. QED
  BY <1>8, <1>9

\* A step that reads.
LEMMA TypedReads ==
  ASSUME Typed, Unstarted, Reads
  PROVE  Typed' /\ Unstarted'
<1> USE DEF States
<1>1. /\ UNCHANGED <<plan, engine, world, gained, lost, told, up, used>>
      /\ phase \in {"probe", "networks", "subnets", "volumes", "images", "inspect"}
      /\ phase' \in {"networks", "subnets", "volumes", "images", "inspect", "judge"}
  BY ReadsLeave
<1>2. ~Deployed /\ ~Deployed'
  BY <1>1 DEF Deployed
<1>3. IsRead(read) /\ read.plan = plan /\ read.observed \in [Sources -> States] /\ missed \in Nat /\ inspected \in Nat
  BY DEF Typed
<1>4. {"containers", "networks", "volumes", "images", "subnets"} \subseteq Sources
  BY DEF Sources, Lists
<1>5. /\ IsRead(read') /\ read'.plan = plan /\ read'.observed \in [Sources -> States]
      /\ missed' \in Nat /\ inspected' \in Nat
      /\ inspected' <= MaxNetworkInspect \/ inspected' <= MaxImageInspect
      /\ phase' # "judge" => engine = "answers"
      /\ engine = "answers" => read'.runtime = "answers"
      /\ Unstarted'
  <2>1. CASE Probe
    <3>1. /\ IsRead(read') /\ read'.plan = read.plan
          /\ read'.networks = read.networks /\ read'.volumes = read.volumes /\ read'.images = read.images
          /\ \/ engine = "none" /\ read' = read /\ phase' = "judge"
             \/ /\ engine = "down" /\ phase' = "judge" /\ read'.runtime = "silent"
                /\ read'.containers = read.containers /\ read'.observed = [s \in Sources |-> "failed"]
             \/ /\ engine \notin {"none", "down"} /\ phase' = "networks" /\ read'.runtime = "answers"
                /\ \E a \in Answers("containers") :
                     /\ a.state # "failed" /\ read'.containers = a.items
                     /\ read'.observed = Observed({"containers"}, a.state)
      BY <1>3, <2>1, ProbeDoes
    <3>2. UNCHANGED <<missed, inspected>> /\ phase = "probe"
      BY <2>1 DEF Probe
    <3>3. CASE engine # "answers"
      <4>1. phase' = "judge" /\ read'.observed \in [Sources -> States]
        BY <1>3, <3>1, <3>3 DEF Typed
      <4>2. Unstarted'
        BY <4>1 DEF Unstarted
      <4>3. QED
        BY <1>3, <3>1, <3>2, <3>3, <4>1, <4>2 DEF Typed
    <3>4. CASE engine = "answers"
      <4>1. PICK a \in Answers("containers") : read'.observed = Observed({"containers"}, a.state)
        BY <3>1, <3>4
      <4>2. a.state \in States
        BY AnswersAre
      <4>3. /\ read'.observed \in [Sources -> States]
            /\ \A s \in Sources : read'.observed[s] = IF s = "containers" THEN a.state ELSE read.observed[s]
        BY <1>3, <4>1, <4>2, ObservedTyped
      <4>4. phase' = "networks" /\ read'.runtime = "answers"
        BY <3>1, <3>4
      <4>5. Unstarted'
        BY <1>4, <3>1, <3>2, <4>3, <4>4 DEF Unstarted
      <4>6. QED
        BY <1>3, <3>1, <3>2, <3>4, <4>3, <4>4, <4>5 DEF Typed
    <3>5. QED
      BY <3>3, <3>4
  <2>2. CASE ListNetworks
    <3>1. /\ IsRead(read') /\ read'.plan = read.plan /\ read'.runtime = read.runtime /\ read'.volumes = read.volumes
      BY <1>3, <2>2, ListNetworksDoes
    <3>2. PICK a \in Answers("networks") :
            /\ read'.observed = Observed(IF a.state = "failed" THEN {"networks", "subnets"} ELSE {"networks"}, a.state)
            /\ phase' = IF a.state = "failed" THEN "volumes" ELSE "subnets"
      BY <1>3, <2>2, ListNetworksDoes
    <3>3. a.state \in States
      BY AnswersAre
    <3>4. /\ read'.observed \in [Sources -> States]
          /\ \A s \in Sources : read'.observed[s] = IF s = "networks" \/ (s = "subnets" /\ a.state = "failed")
                                                    THEN a.state ELSE read.observed[s]
      BY <1>3, <3>2, <3>3, ObservedTyped
    <3>5. phase = "networks" /\ missed' = 0 /\ inspected' = 0
      BY <2>2 DEF ListNetworks
    <3>6. Unstarted'
      BY <1>4, <3>1, <3>2, <3>4, <3>5 DEF Unstarted
    <3>7. QED
      BY <1>3, <3>1, <3>4, <3>5, <3>6, CapsAreCounts DEF Typed
  <2>3. CASE \E n \in todo : InspectNetwork(n)
    <3>1. PICK n \in todo : InspectNetwork(n)
      BY <2>3
    <3>2. /\ IsRead(read') /\ read'.plan = read.plan /\ read'.runtime = read.runtime /\ read'.observed = read.observed
          /\ read'.volumes = read.volumes
      BY <1>3, <3>1, InspectNetworkDoes
    <3>3. phase = "subnets" /\ phase' = "subnets"
      BY <3>1 DEF InspectNetwork
    <3>4. missed' \in Nat /\ inspected' \in Nat /\ inspected' <= MaxNetworkInspect
      BY <1>3, <3>1, CapsAreCounts DEF InspectNetwork
    <3>5. Unstarted'
      BY <3>2, <3>3 DEF Unstarted
    <3>6. QED
      BY <1>3, <3>2, <3>3, <3>4, <3>5 DEF Typed
  <2>4. CASE NetworksInspected
    <3>1. /\ IsRead(read') /\ read'.plan = read.plan /\ read'.runtime = read.runtime /\ read'.volumes = read.volumes
          /\ read'.observed = Observed({"subnets"}, IF missed > 0 THEN "partial" ELSE "complete")
      BY <1>3, <2>4, NetworksInspectedDoes
    <3>2. read'.observed \in [Sources -> States]
      BY <1>3, <3>1, ObservedTyped
    <3>3. phase = "subnets" /\ phase' = "volumes" /\ UNCHANGED <<missed, inspected>>
      BY <2>4 DEF NetworksInspected
    <3>4. Unstarted'
      BY <3>1, <3>3 DEF Unstarted
    <3>5. QED
      BY <1>3, <3>1, <3>2, <3>3, <3>4 DEF Typed
  <2>5. CASE ListVolumes
    <3>1. /\ IsRead(read') /\ read'.plan = read.plan /\ read'.runtime = read.runtime
      BY <1>3, <2>5, ListVolumesDoes
    <3>2. PICK a \in Answers("volumes") : read'.observed = Observed({"volumes"}, a.state)
      BY <1>3, <2>5, ListVolumesDoes
    <3>3. read'.observed \in [Sources -> States]
      BY <1>3, <3>2, AnswersAre, ObservedTyped
    <3>4. phase = "volumes" /\ phase' = "images" /\ UNCHANGED <<missed, inspected>>
      BY <2>5 DEF ListVolumes
    <3>5. Unstarted'
      BY <3>4 DEF Unstarted
    <3>6. QED
      BY <1>3, <3>1, <3>3, <3>4, <3>5 DEF Typed
  <2>6. CASE ListImages
    <3>1. /\ IsRead(read') /\ read'.plan = read.plan /\ read'.runtime = read.runtime
      BY <1>3, <2>6, ListImagesDoes
    <3>2. PICK a \in Answers("images") : read'.observed = Observed({"images"}, a.state)
      BY <1>3, <2>6, ListImagesDoes
    <3>3. read'.observed \in [Sources -> States]
      BY <1>3, <3>2, AnswersAre, ObservedTyped
    <3>4. phase = "images" /\ phase' = "inspect" /\ missed' = 0 /\ inspected' = 0
      BY <2>6 DEF ListImages
    <3>5. Unstarted'
      BY <3>4 DEF Unstarted
    <3>6. QED
      BY <1>3, <3>1, <3>3, <3>4, <3>5, CapsAreCounts DEF Typed
  <2>7. CASE \E i \in todo : InspectImage(i)
    <3>1. PICK i \in todo : InspectImage(i)
      BY <2>7
    <3>2. /\ IsRead(read') /\ read'.plan = read.plan /\ read'.runtime = read.runtime /\ read'.observed = read.observed
      BY <1>3, <3>1, InspectImageDoes
    <3>3. phase = "inspect" /\ phase' = "inspect"
      BY <3>1 DEF InspectImage
    <3>4. /\ missed' \in Nat /\ inspected' \in Nat
          /\ inspected' = inspected \/ inspected' <= MaxImageInspect
      BY <1>3, <3>1, CapsAreCounts DEF InspectImage
    <3>5. Unstarted'
      BY <3>3 DEF Unstarted
    <3>6. QED
      BY <1>3, <3>2, <3>3, <3>4, <3>5 DEF Typed
  <2>8. CASE ImagesInspected
    <3>1. UNCHANGED <<read, missed, inspected>> /\ phase = "inspect" /\ phase' = "judge"
      BY <2>8 DEF ImagesInspected
    <3>2. Unstarted'
      BY <3>1 DEF Unstarted
    <3>3. QED
      BY <1>3, <3>1, <3>2 DEF Typed
  <2>9. QED
    BY <2>1, <2>2, <2>3, <2>4, <2>5, <2>6, <2>7, <2>8 DEF Reads
<1>6. phase' \in Phases /\ phase' # "probe"
  BY <1>1 DEF Phases
<1>7. Typed'
  BY <1>1, <1>2, <1>5, <1>6 DEF Typed
<1>8. QED
  BY <1>5, <1>7

\* What is added is typed and has a name of its own.
LEMMA TypedAppears ==
  ASSUME Typed, Unstarted, Appears
  PROVE  Typed' /\ Unstarted'
<1>1. /\ UNCHANGED <<plan, engine, read, missed, inspected, up, used, phase>>
      /\ phase \notin {"probe", "converge", "end"}
  BY DEF Appears, Running, deployment
<1>2. IsEngine(world) /\ (\A c \in world.containers : IsContainer(c)) /\ (\A n \in world.networks : IsNetwork(n))
      /\ NamesDiffer(world.containers) /\ NamesDiffer(world.networks)
  BY <1>1 DEF Typed, Deployed
<1>3. PICK x \in Newcomers :
        \/ /\ x.list = "containers" /\ world'.containers = world.containers \cup {x.item}
           /\ world'.networks = world.networks /\ world'.volumes = world.volumes
           /\ \A y \in world.containers : y.name # x.item.name
        \/ /\ x.list = "networks" /\ world'.networks = world.networks \cup {x.item}
           /\ world'.containers = world.containers /\ world'.volumes = world.volumes
           /\ \A y \in world.networks : y.name # x.item.name
        \/ /\ x.list = "volumes" /\ world'.volumes = world.volumes \cup {x.item}
           /\ world'.containers = world.containers /\ world'.networks = world.networks
  BY <1>2, AppearsDoes
<1>4. IsEngine(world')
  BY <1>2, AppearsDoes
<1>5. IsNewcomer(x)
  BY SituationsTyped
<1>6. /\ (\A c \in world'.containers : IsContainer(c)) /\ (\A n \in world'.networks : IsNetwork(n))
      /\ NamesDiffer(world'.containers) /\ NamesDiffer(world'.networks)
  BY <1>2, <1>3, <1>5 DEF IsNewcomer, NamesDiffer
<1>7. Typed'
  BY <1>1, <1>4, <1>6 DEF Typed, Deployed
<1>8. QED
  BY <1>1, <1>7 DEF Unstarted

\* What is removed leaves the rest as it was.
LEMMA TypedDisappears ==
  ASSUME Typed, Unstarted, Disappears
  PROVE  Typed' /\ Unstarted'
<1>1. /\ UNCHANGED <<plan, engine, read, missed, inspected, up, used, phase>>
      /\ phase \notin {"probe", "converge", "end"}
  BY DEF Disappears, Running, deployment
<1>2. IsEngine(world) /\ (\A c \in world.containers : IsContainer(c)) /\ (\A n \in world.networks : IsNetwork(n))
      /\ NamesDiffer(world.containers) /\ NamesDiffer(world.networks)
  BY <1>1 DEF Typed, Deployed
<1>3. IsEngine(world') /\ world'.containers \subseteq world.containers /\ world'.networks \subseteq world.networks
  BY <1>2, DisappearsDoes
<1>4. /\ (\A c \in world'.containers : IsContainer(c)) /\ (\A n \in world'.networks : IsNetwork(n))
      /\ NamesDiffer(world'.containers) /\ NamesDiffer(world'.networks)
  BY <1>2, <1>3 DEF NamesDiffer
<1>5. Typed'
  BY <1>1, <1>3, <1>4 DEF Typed, Deployed
<1>6. QED
  BY <1>1, <1>5 DEF Unstarted

\* What `up` makes of volumes and networks is typed, also where it refuses.
LEMMA TypedPrepare ==
  ASSUME Typed, Unstarted, Prepare
  PROVE  Typed' /\ Unstarted'
<1>1. /\ UNCHANGED <<plan, engine, read, missed, inspected>> /\ phase = "up" /\ engine = "answers"
      /\ phase' \in {"converge", "end"}
  BY DEF Prepare
<1>2. Deployed'
  BY <1>1 DEF Deployed
<1>3. IsEngine(world) /\ (\A c \in world.containers : IsContainer(c)) /\ (\A n \in world.networks : IsNetwork(n))
      /\ NamesDiffer(world.containers)
  BY DEF Typed
<1>4. /\ IsEngine(world') /\ (\A c \in world'.containers : IsContainer(c)) /\ (\A n \in world'.networks : IsNetwork(n))
      /\ NamesDiffer(world'.containers)
      /\ up' = up \/ up' = [s \in plan.services |-> "failed"]
  <2>1. CASE world' = world /\ up' = [s \in plan.services |-> "failed"]
    BY <1>3, <2>1
  <2>2. CASE /\ up' = up /\ IsEngine(world')
             /\ \A n \in world'.networks \ world.networks : IsNetwork(n) /\ ~n.swarm
             /\ world'.containers = {c \in world.containers : ~Removed(c)}
    BY <1>3, <2>2 DEF NamesDiffer
  <2>3. QED
    BY <1>3, <2>1, <2>2, PrepareDoes
<1>5. up' \in [plan.services -> {"pending", "kept", "created", "replaced", "failed"}]
  BY <1>4 DEF Typed
<1>6. Typed'
  BY <1>1, <1>2, <1>4, <1>5 DEF Typed, Phases
<1>7. QED
  BY <1>1, <1>6 DEF Unstarted

\* What Compose makes for a service is a container with labels.
LEMMA MadeIs ==
  ASSUME IsPlan(plan), NEW s \in plan.services
  PROVE  IsContainer(Made(s)) /\ Made(s).name = ContainerNameOf(plan, s) /\ Made(s).service = s
         /\ Made(s).project = plan.project /\ Made(s).oneOff = FALSE
BY DEF IsPlan, IsContainer, Made

\* A new container's name is free where it is made, so names still differ.
LEMMA TypedConverge ==
  ASSUME Typed, Unstarted, NEW s \in plan.services, Converge(s)
  PROVE  Typed' /\ Unstarted'
<1>1. UNCHANGED <<plan, engine, read, missed, inspected>> /\ phase = "converge" /\ phase' \in {"converge", "end"}
  BY DEF Converge
<1>2. IsEngine(world) /\ (\A c \in world.containers : IsContainer(c)) /\ (\A n \in world.networks : IsNetwork(n))
      /\ NamesDiffer(world.containers) /\ up \in [plan.services -> {"pending", "kept", "created", "replaced", "failed"}]
  BY DEF Typed
<1>3. Deployed' /\ IsPlan(plan)
  BY <1>1 DEF Deployed, Typed
<1>4. /\ IsEngine(world') /\ world'.networks = world.networks
      /\ \/ world'.containers = world.containers \/ world'.containers = Rest(s)
         \/ /\ world'.containers = Rest(s) \cup {Made(s)}
            /\ \A c \in Rest(s) : c.name # ContainerNameOf(plan, s)
      /\ \E r \in {"kept", "created", "replaced", "failed"} : up' = [up EXCEPT ![s] = r]
  <2>1. /\ IsEngine(world') /\ world'.networks = world.networks
        /\ \/ up' = [up EXCEPT ![s] = "kept"] /\ world'.containers = world.containers
           \/ up' = [up EXCEPT ![s] = "failed"] /\ world'.containers = Rest(s)
           \/ /\ \A c \in Rest(s) : c.name # ContainerNameOf(plan, s)
              /\ world'.containers = Rest(s) \cup {Made(s)}
              /\ \/ up' = [up EXCEPT ![s] = "failed"]
                 \/ up' = [up EXCEPT ![s] = "created"]
                 \/ up' = [up EXCEPT ![s] = "replaced"]
    BY <1>2, ConvergeDoes
  <2>2. QED
    BY <2>1
<1>5. (\A c \in world'.containers : IsContainer(c)) /\ NamesDiffer(world'.containers)
  BY <1>2, <1>3, <1>4, MadeIs DEF Rest, NamesDiffer
<1>6. up' \in [plan.services -> {"pending", "kept", "created", "replaced", "failed"}]
  BY <1>2, <1>4
<1>7. Typed'
  BY <1>1, <1>2, <1>3, <1>4, <1>5, <1>6 DEF Typed, Phases
<1>8. QED
  BY <1>1, <1>7 DEF Unstarted

\* Every step leaves the types as they should be.
LEMMA TypedNext == Typed /\ Unstarted /\ [Next]_vars => Typed' /\ Unstarted'
<1> SUFFICES ASSUME Typed, Unstarted, [Next]_vars PROVE Typed' /\ Unstarted'
  OBVIOUS
<1>1. CASE Reads
  BY <1>1, TypedReads
<1>2. CASE Judge
  <2>1. /\ UNCHANGED <<plan, engine, world, read, missed, inspected, up, used>> /\ phase = "judge" /\ phase' = "up"
    BY <1>2 DEF Judge, environment
  <2>2. QED
    BY <2>1 DEF Typed, Unstarted, Phases, Deployed
<1>3. CASE Appears
  BY <1>3, TypedAppears
<1>4. CASE Disappears
  BY <1>4, TypedDisappears
<1>5. CASE Prepare
  BY <1>5, TypedPrepare
<1>6. CASE \E s \in plan.services : Converge(s)
  BY <1>6, TypedConverge
<1>7. CASE UNCHANGED vars
  BY <1>7 DEF vars, Typed, Unstarted, Deployed
<1>8. QED
  BY <1>1, <1>2, <1>3, <1>4, <1>5, <1>6, <1>7, Steps

\* Types, at every step of every audit.
LEMMA TypedAlways == Spec => [](Typed /\ Unstarted)
<1>1. Init => Typed /\ Unstarted
  BY TypedInit
<1>2. (Typed /\ Unstarted) /\ [Next]_vars => (Typed /\ Unstarted)'
  BY TypedNext
<1>3. QED
  BY <1>1, <1>2, PTL DEF Spec

-----------------------------------------------------------------------------
(***************************************************************************)
(* What the lists and the engine have in common.                           *)
(***************************************************************************)

Listing == Visited /\ ReadIsThere /\ ReadContainers /\ ThereIsRead

\* The sources that the rules ask for are among those observed.
LEMMA SourcesAre == {"containers", "networks", "volumes", "images", "subnets"} \subseteq Sources
BY DEF Sources, Lists

\* The containers that were listed are there.
LEMMA ListingProbe ==
  ASSUME Typed, Unstarted, Listing, Probe
  PROVE  Listing'
<1>1. IsRead(read) /\ read.observed \in [Sources -> States] /\ NamesDiffer(world.containers)
      /\ \A c \in world.containers : IsContainer(c)
  BY DEF Typed, States
<1>2. /\ phase = "probe" /\ UNCHANGED <<world, gained, lost, missed, todo>>
      /\ phase' \in {"networks", "judge"}
  BY DEF Probe, environment
<1>3. /\ read.containers = {} /\ read.networks = {} /\ read.volumes = {}
      /\ read.observed = [s \in Sources |-> "not-collected"]
  BY <1>2 DEF Unstarted
<1>4. /\ read'.networks = {} /\ read'.volumes = {} /\ read'.containers \subseteq world.containers
      /\ read'.observed["networks"] # "complete" /\ read'.observed["volumes"] # "complete"
      /\ read'.observed["containers"] = "complete" => read'.containers = world.containers
  <2>1. /\ read'.networks = read.networks /\ read'.volumes = read.volumes
        /\ \/ read' = read
           \/ read'.containers = read.containers /\ read'.observed = [s \in Sources |-> "failed"]
           \/ \E a \in Answers("containers") :
                read'.containers = a.items /\ read'.observed = Observed({"containers"}, a.state)
    BY <1>1, ProbeDoes
  <2>2. CASE read' = read
    BY <1>3, <2>2, SourcesAre
  <2>3. CASE read'.containers = read.containers /\ read'.observed = [s \in Sources |-> "failed"]
    BY <1>3, <2>1, <2>3, SourcesAre
  <2>4. CASE \E a \in Answers("containers") :
               read'.containers = a.items /\ read'.observed = Observed({"containers"}, a.state)
    <3>1. PICK a \in Answers("containers") :
            read'.containers = a.items /\ read'.observed = Observed({"containers"}, a.state)
      BY <2>4
    <3>2. /\ a.state \in States /\ a.items \subseteq world.containers
          /\ a.state = "complete" => a.items = world.containers
      BY AnswersAre DEF States
    <3>3. \A s \in Sources : read'.observed[s] = IF s = "containers" THEN a.state ELSE read.observed[s]
      BY <1>1, <3>1, <3>2, ObservedTyped
    <3>4. QED
      BY <1>3, <2>1, <3>1, <3>2, <3>3, SourcesAre
  <2>5. QED
    BY <2>1, <2>2, <2>3, <2>4
<1>5. Visited' /\ ReadIsThere' /\ ReadContainers' /\ ThereIsRead'
  BY <1>1, <1>2, <1>4 DEF Visited, ReadIsThere, ReadContainers, ThereIsRead, NamesDiffer
<1>6. QED
  BY <1>5 DEF Listing

\* The rows that were listed are of networks that are there, none of which was inspected yet.
LEMMA ListingNetworks ==
  ASSUME Typed, Unstarted, Listing, ListNetworks
  PROVE  Listing'
<1>1. IsRead(read) /\ read.observed \in [Sources -> States] /\ NamesDiffer(world.networks)
      /\ \A n \in world.networks : IsNetwork(n)
  <2>1. phase = "networks"
    BY DEF ListNetworks
  <2>2. QED
    BY <2>1 DEF Typed, States, Deployed
<1>2. /\ phase = "networks" /\ UNCHANGED <<world, gained, lost>> /\ missed' = 0 /\ phase' \in {"volumes", "subnets"}
  BY DEF ListNetworks, environment
<1>3. read'.containers = read.containers /\ read'.volumes = read.volumes
  BY <1>1, ListNetworksDoes
<1>4. PICK a \in Answers("networks") :
        /\ read'.networks = {Unread(n) : n \in a.items}
        /\ read'.observed = Observed(IF a.state = "failed" THEN {"networks", "subnets"} ELSE {"networks"}, a.state)
        /\ todo' = a.items
  BY <1>1, ListNetworksDoes
<1>5. /\ a.state \in States /\ a.items \subseteq world.networks
      /\ a.state = "complete" => a.items = world.networks
  BY AnswersAre DEF States
<1>6. /\ \A s \in {"containers", "volumes"} : read'.observed[s] = read.observed[s]
      /\ read'.observed["networks"] = a.state /\ read'.observed["subnets"] # "complete"
  <2>1. \A s \in Sources : read'.observed[s] = IF s = "networks" \/ (s = "subnets" /\ a.state = "failed")
                                               THEN a.state ELSE read.observed[s]
    BY <1>1, <1>4, <1>5, ObservedTyped
  <2>2. QED
    BY <1>2, <2>1, SourcesAre DEF Unstarted
<1>7. Visited'
  BY <1>1, <1>2, <1>4, <1>5 DEF Visited, NamesDiffer
<1>8. ReadIsThere'
  BY <1>2, <1>3, <1>4, <1>5 DEF Listing, ReadIsThere, Deployed
<1>9. ReadContainers'
  BY <1>3 DEF Listing, ReadContainers
<1>10. ThereIsRead'
  BY <1>2, <1>3, <1>4, <1>5, <1>6 DEF Listing, ThereIsRead, Deployed
<1>11. QED
  BY <1>7, <1>8, <1>9, <1>10 DEF Listing

\* One network's row is replaced by what its inspection showed.
LEMMA ListingInspect ==
  ASSUME Typed, Unstarted, Listing, NEW m \in todo, InspectNetwork(m)
  PROVE  Listing'
<1>1. /\ phase = "subnets" /\ phase' = "subnets" /\ UNCHANGED <<world, gained, lost>>
  BY DEF InspectNetwork, environment
<1>2. IsRead(read) /\ NamesDiffer(world.networks) /\ (\A n \in world.networks : IsNetwork(n)) /\ missed \in Nat
  BY <1>1 DEF Typed, Deployed
<1>3. /\ read'.containers = read.containers /\ read'.volumes = read.volumes /\ read'.observed = read.observed
      /\ todo' = todo \ {m}
      /\ \/ read'.networks = read.networks /\ missed' = missed + 1
         \/ /\ missed' = missed
            /\ \E now \in Named(world.networks, m.name) :
                 read'.networks = (read.networks \ {Unread(m)}) \cup {Shown(m, now)}
  BY <1>2, InspectNetworkDoes
<1>4. /\ IsNetwork(m) /\ (~lost => m \in world.networks)
      /\ ~lost \/ ~gained => \A n \in world.networks : n.name = m.name => n = m
  BY <1>1 DEF Listing, Visited
<1>5. Visited'
  BY <1>1, <1>3 DEF Listing, Visited
<1>6. ReadContainers'
  BY <1>3 DEF Listing, ReadContainers
<1>7. CASE read'.networks = read.networks /\ missed' = missed + 1
  <2>1. ReadIsThere'
    BY <1>1, <1>3, <1>7 DEF Listing, ReadIsThere, Deployed
  <2>2. missed' # 0 /\ read.observed["subnets"] # "complete"
    BY <1>1, <1>2, <1>7 DEF Unstarted
  <2>3. ThereIsRead'
    BY <1>1, <1>3, <1>7, <2>2 DEF Listing, ThereIsRead, Deployed
  <2>4. QED
    BY <1>5, <1>6, <2>1, <2>3 DEF Listing
<1>8. ASSUME missed' = missed, NEW now \in Named(world.networks, m.name),
             read'.networks = (read.networks \ {Unread(m)}) \cup {Shown(m, now)}
      PROVE  Listing'
  <2>1. now \in world.networks /\ now.name = m.name
    BY DEF Named
  <2>2. ASSUME ~lost \/ ~gained
        PROVE  now = m /\ Shown(m, now) = m
    BY <1>4, <2>1, <2>2, UnreadIs
  <2>3. ReadIsThere'
    <3>1. SUFFICES ASSUME ~lost
                   PROVE  \A f \in read'.networks : \E n \in world.networks : f = n \/ f = Unread(n)
      BY <1>1, <1>3 DEF Listing, ReadIsThere, Deployed
    <3>2. read'.networks = (read.networks \ {Unread(m)}) \cup {m} /\ m \in world.networks
      BY <1>8, <2>1, <2>2, <3>1
    <3>3. QED
      BY <3>1, <3>2 DEF Listing, ReadIsThere
  <2>4. ThereIsRead'
    <3>1. SUFFICES ASSUME ~gained, read.observed["networks"] = "complete"
                   PROVE  /\ \A n \in world.networks : n \in read'.networks \/ Unread(n) \in read'.networks
                          /\ missed = 0 => world.networks \subseteq read'.networks \cup (todo \ {m})
      <4>1. read.observed["subnets"] # "complete"
        BY <1>1 DEF Unstarted
      <4>2. QED
        BY <1>1, <1>3, <1>8, <4>1 DEF Listing, ThereIsRead, Deployed
    <3>2. read'.networks = (read.networks \ {Unread(m)}) \cup {m} /\ m \in world.networks
      BY <1>8, <2>1, <2>2, <3>1
    <3>3. ASSUME NEW n \in world.networks, n # m
          PROVE  n # Unread(m) /\ Unread(n) # Unread(m)
      <4>1. n.name # m.name
        BY <1>2, <3>2, <3>3 DEF NamesDiffer
      <4>2. Unread(m).name = m.name /\ Unread(n).name = n.name
        BY <1>2, <1>4, UnreadIs
      <4>3. QED
        BY <4>1, <4>2
    <3>4. /\ \A n \in world.networks : n \in read.networks \/ Unread(n) \in read.networks
          /\ missed = 0 => world.networks \subseteq read.networks \cup todo
      BY <1>1, <3>1 DEF Listing, ThereIsRead, Deployed
    <3>5. QED
      BY <3>2, <3>3, <3>4
  <2>5. QED
    BY <1>5, <1>6, <2>3, <2>4 DEF Listing
<1>9. QED
  BY <1>3, <1>7, <1>8

\* No network is left to inspect, so the rows of the inspected are all there is.
LEMMA ListingInspected ==
  ASSUME Typed, Unstarted, Listing, NetworksInspected
  PROVE  Listing'
<1>1. /\ phase = "subnets" /\ phase' = "volumes" /\ todo = {} /\ UNCHANGED <<world, gained, lost, todo, missed>>
  BY DEF NetworksInspected, environment
<1>2. IsRead(read) /\ read.observed \in [Sources -> States] /\ missed \in Nat
  BY DEF Typed, States
<1>3. /\ read'.containers = read.containers /\ read'.networks = read.networks /\ read'.volumes = read.volumes
      /\ read'.observed = Observed({"subnets"}, IF missed > 0 THEN "partial" ELSE "complete")
  BY <1>2, NetworksInspectedDoes
<1>4. \A s \in Sources : read'.observed[s] = IF s = "subnets" THEN IF missed > 0 THEN "partial" ELSE "complete"
                                             ELSE read.observed[s]
  BY <1>2, <1>3, ObservedTyped DEF States
<1>5. Visited' /\ ReadContainers'
  BY <1>1, <1>3 DEF Listing, Visited, ReadContainers
<1>6. ReadIsThere'
  BY <1>1, <1>3 DEF Listing, ReadIsThere, Deployed
<1>7. ThereIsRead'
  <2>1. /\ read'.observed["containers"] = read.observed["containers"]
        /\ read'.observed["volumes"] = read.observed["volumes"]
        /\ read'.observed["networks"] = read.observed["networks"]
        /\ read'.observed["subnets"] = "complete" => missed = 0
    BY <1>2, <1>4, SourcesAre
  <2>2. QED
    BY <1>1, <1>3, <2>1 DEF Listing, ThereIsRead, Deployed
<1>8. QED
  BY <1>5, <1>6, <1>7 DEF Listing

\* The volumes that were listed are there.
LEMMA ListingVolumes ==
  ASSUME Typed, Unstarted, Listing, ListVolumes
  PROVE  Listing'
<1>1. phase = "volumes" /\ phase' = "images" /\ UNCHANGED <<world, gained, lost, todo, missed>>
  BY DEF ListVolumes, environment
<1>2. IsRead(read) /\ read.observed \in [Sources -> States]
  BY DEF Typed, States
<1>3. read'.containers = read.containers /\ read'.networks = read.networks
  BY <1>2, ListVolumesDoes
<1>4. PICK a \in Answers("volumes") : read'.volumes = a.items /\ read'.observed = Observed({"volumes"}, a.state)
  BY <1>2, ListVolumesDoes
<1>5. /\ a.state \in States /\ a.items \subseteq world.volumes
      /\ a.state = "complete" => a.items = world.volumes
  BY AnswersAre DEF States
<1>6. \A s \in Sources : read'.observed[s] = IF s = "volumes" THEN a.state ELSE read.observed[s]
  BY <1>2, <1>4, <1>5, ObservedTyped
<1>7. Visited' /\ ReadContainers'
  BY <1>1, <1>3 DEF Listing, Visited, ReadContainers
<1>8. ReadIsThere'
  BY <1>1, <1>3, <1>4, <1>5 DEF Listing, ReadIsThere, Deployed
<1>9. ThereIsRead'
  <2>1. /\ read'.observed["containers"] = read.observed["containers"] /\ read'.observed["volumes"] = a.state
        /\ read'.observed["networks"] = read.observed["networks"]
        /\ read'.observed["subnets"] = read.observed["subnets"]
    BY <1>6, SourcesAre
  <2>2. QED
    BY <1>1, <1>3, <1>4, <1>5, <2>1 DEF Listing, ThereIsRead, Deployed
<1>10. QED
  BY <1>7, <1>8, <1>9 DEF Listing

\* The images are read of nothing else.
LEMMA ListingImages ==
  ASSUME Typed, Unstarted, Listing, ListImages \/ ImagesInspected \/ \E i \in todo : InspectImage(i)
  PROVE  Listing'
<1>1. /\ phase \in {"images", "inspect"} /\ phase' \in {"inspect", "judge"}
      /\ UNCHANGED <<world, gained, lost>>
  BY DEF ListImages, ImagesInspected, InspectImage, environment
<1>2. IsRead(read) /\ read.observed \in [Sources -> States]
  BY DEF Typed, States
<1>3. /\ read'.containers = read.containers /\ read'.networks = read.networks /\ read'.volumes = read.volumes
      /\ \A s \in Sources \ {"images"} : read'.observed[s] = read.observed[s]
  <2>1. CASE ListImages
    <3>1. PICK a \in Answers("images") : read'.observed = Observed({"images"}, a.state)
      BY <1>2, <2>1, ListImagesDoes
    <3>2. a.state \in States
      BY AnswersAre DEF States
    <3>3. \A s \in Sources : read'.observed[s] = IF s = "images" THEN a.state ELSE read.observed[s]
      BY <1>2, <3>1, <3>2, ObservedTyped
    <3>4. QED
      BY <1>2, <2>1, <3>3, ListImagesDoes
  <2>2. CASE ImagesInspected
    BY <2>2 DEF ImagesInspected
  <2>3. CASE \E i \in todo : InspectImage(i)
    BY <1>2, <2>3, InspectImageDoes
  <2>4. QED
    BY <2>1, <2>2, <2>3
<1>4. Visited' /\ ReadContainers'
  BY <1>1, <1>3 DEF Listing, Visited, ReadContainers
<1>5. ReadIsThere'
  BY <1>1, <1>3 DEF Listing, ReadIsThere, Deployed
<1>6. ThereIsRead'
  <2>1. \A s \in {"containers", "networks", "volumes", "subnets"} : read'.observed[s] = read.observed[s]
    BY <1>3, SourcesAre
  <2>2. QED
    BY <1>1, <1>3, <2>1 DEF Listing, ThereIsRead, Deployed
<1>7. QED
  BY <1>4, <1>5, <1>6 DEF Listing

\* What is added takes nothing away, and nothing is said of what is there once it was.
LEMMA ListingAppears ==
  ASSUME Typed, Listing, Appears
  PROVE  Listing'
<1>1. UNCHANGED <<read, todo, phase, lost, missed>> /\ gained' = TRUE /\ ~Deployed /\ ~Deployed'
  BY DEF Appears, Running, Deployed
<1>2. IsEngine(world)
  BY DEF Typed
<1>3. PICK x \in Newcomers :
        \/ /\ x.list = "containers" /\ world'.containers = world.containers \cup {x.item}
           /\ world'.networks = world.networks /\ world'.volumes = world.volumes
           /\ \A y \in world.containers : y.name # x.item.name
        \/ /\ x.list = "networks" /\ world'.networks = world.networks \cup {x.item}
           /\ world'.containers = world.containers /\ world'.volumes = world.volumes
           /\ \A y \in world.networks : y.name # x.item.name
        \/ /\ x.list = "volumes" /\ world'.volumes = world.volumes \cup {x.item}
           /\ world'.containers = world.containers /\ world'.networks = world.networks
  BY <1>2, AppearsDoes
<1>4. Visited'
  BY <1>1, <1>3 DEF Listing, Visited
<1>5. ReadIsThere'
  BY <1>1, <1>3 DEF Listing, ReadIsThere
<1>6. QED
  BY <1>1, <1>4, <1>5 DEF Listing, ReadContainers, ThereIsRead

\* What is removed adds nothing, and nothing is said of what was read once it was.
LEMMA ListingDisappears ==
  ASSUME Typed, Listing, Disappears
  PROVE  Listing'
<1>1. UNCHANGED <<read, todo, phase, gained, missed>> /\ ~Deployed /\ ~Deployed'
  BY DEF Disappears, Running, Deployed
<1>2. /\ lost' = TRUE /\ ~lost /\ world'.containers \subseteq world.containers
      /\ world'.networks \subseteq world.networks /\ world'.volumes \subseteq world.volumes
  BY DisappearsDoes DEF Typed
<1>3. Visited'
  BY <1>1, <1>2 DEF Listing, Visited
<1>4. ThereIsRead'
  BY <1>1, <1>2 DEF Listing, ThereIsRead
<1>5. QED
  BY <1>1, <1>2, <1>3, <1>4 DEF Listing, ReadIsThere, ReadContainers

\* What `up` makes and removes: read networks and volumes stay, and of containers nothing is said.
LEMMA ListingUp ==
  ASSUME Typed, Listing, Prepare \/ \E s \in plan.services : Converge(s)
  PROVE  Listing'
<1>1. /\ UNCHANGED <<read, todo, gained, lost>> /\ phase' \in {"converge", "end"}
  BY DEF Prepare, Converge
<1>2. world.networks \subseteq world'.networks /\ world.volumes \subseteq world'.volumes
  <2>1. IsEngine(world)
    BY DEF Typed
  <2>2. CASE Prepare
    BY <2>1, <2>2, PrepareDoes
  <2>3. CASE \E s \in plan.services : Converge(s)
    BY <2>1, <2>3, ConvergeDoes
  <2>4. QED
    BY <2>2, <2>3
<1>3. Deployed'
  BY <1>1 DEF Deployed
<1>4. Visited' /\ ThereIsRead'
  BY <1>1, <1>3 DEF Visited, ThereIsRead
<1>5. ReadIsThere' /\ ReadContainers'
  BY <1>1, <1>2, <1>3 DEF Listing, ReadIsThere, ReadContainers
<1>6. QED
  BY <1>4, <1>5 DEF Listing

\* What was read and what is there, at every step.
LEMMA ListingAlways == Spec => []Listing
<1>1. Init => Listing
  <2> SUFFICES ASSUME Init PROVE Listing
    OBVIOUS
  <2>1. Unstarted /\ phase = "probe"
    BY TypedInit DEF Init
  <2>2. QED
    BY <2>1, SourcesAre DEF Unstarted, Listing, Visited, ReadIsThere, ReadContainers, ThereIsRead, NamesDiffer
<1>2. Typed /\ Unstarted /\ Listing /\ [Next]_vars => Listing'
  <2> SUFFICES ASSUME Typed, Unstarted, Listing, [Next]_vars PROVE Listing'
    OBVIOUS
  <2>1. CASE Reads
    BY <2>1, ListingProbe, ListingNetworks, ListingInspect, ListingInspected, ListingVolumes, ListingImages DEF Reads
  <2>2. CASE Judge
    <3>1. UNCHANGED <<world, read, todo, missed, gained, lost>> /\ phase = "judge" /\ phase' = "up"
      BY <2>2 DEF Judge, environment
    <3>2. QED
      BY <3>1 DEF Listing, Visited, ReadIsThere, ReadContainers, ThereIsRead, Deployed
  <2>3. CASE Appears
    BY <2>3, ListingAppears
  <2>4. CASE Disappears
    BY <2>4, ListingDisappears
  <2>5. CASE Prepare \/ \E s \in plan.services : Converge(s)
    BY <2>5, ListingUp
  <2>6. CASE UNCHANGED vars
    BY <2>6 DEF vars, Listing, Visited, ReadIsThere, ReadContainers, ThereIsRead, Deployed
  <2>7. QED
    BY <2>1, <2>2, <2>3, <2>4, <2>5, <2>6, Steps
<1>3. QED
  BY <1>1, <1>2, TypedAlways, PTL DEF Spec

-----------------------------------------------------------------------------
(***************************************************************************)
(* What a finding stands for.                                              *)
(***************************************************************************)

\* A finding, field by field.
LEMMA FindingIs ==
  ASSUME NEW rule, NEW subject, NEW outcome, NEW severity
  PROVE  LET f == Finding(rule, subject, outcome, severity)
         IN  /\ f = [rule |-> rule, subject |-> subject, outcome |-> outcome, severity |-> severity]
             /\ f.rule = rule /\ f.subject = subject /\ f.outcome = outcome /\ f.severity = severity
BY DEF Finding

\* One of a container's name.
LEMMA NameConflictIs ==
  ASSUME NEW in, NEW f \in ContainerNameConflicts(in)
  PROVE  \E s \in FixedNames(in.plan) : \E c \in Named(in.containers, in.plan.svc[s].name) :
           /\ f \in {Finding("container-name", c.name, "no-problem", "info"),
                     Finding("container-name", c.name, "unknown", "warning"),
                     Finding("container-name", c.name, "problem", "blocker")}
           /\ f = Finding("container-name", c.name, "problem", "blocker") =>
                ~OwnService(in, s, c) /\ OwnerOf(in.plan, c) # "unlabelled"
<1>1. PICK s \in FixedNames(in.plan) : \E c \in Named(in.containers, in.plan.svc[s].name) : f = NameFinding(in, s, c)
  BY DEF ContainerNameConflicts
<1>2. PICK c \in Named(in.containers, in.plan.svc[s].name) : f = NameFinding(in, s, c)
  BY <1>1
<1>3. f = IF OwnService(in, s, c) THEN Finding("container-name", c.name, "no-problem", "info")
          ELSE IF OwnerOf(in.plan, c) = "unlabelled" THEN Finding("container-name", c.name, "unknown", "warning")
          ELSE Finding("container-name", c.name, "problem", "blocker")
  BY <1>2 DEF NameFinding
<1>4. Finding("container-name", c.name, "problem", "blocker").severity = "blocker"
  BY FindingIs
<1>5. Finding("container-name", c.name, "no-problem", "info").severity = "info"
  BY FindingIs
<1>6. Finding("container-name", c.name, "unknown", "warning").severity = "warning"
  BY FindingIs
<1>7. QED
  BY <1>3, <1>4, <1>5, <1>6

\* One of a volume's name.
LEMMA VolumeConflictIs ==
  ASSUME NEW in, NEW f \in VolumeNameConflicts(in)
  PROVE  \E v \in MountedVolumes(in.plan) :
           \/ /\ v.external /\ Named(in.volumes, EngineNameOf(v)) = {} /\ ListProves(in, "volumes")
              /\ f = Finding("volume-name", EngineNameOf(v), "problem", "blocker")
           \/ f = Finding("volume-name", EngineNameOf(v), "unknown", "warning")
           \/ \E x \in Named(in.volumes, EngineNameOf(v)) : f = Finding("volume-name", x.name, "problem", "warning")
<1>1. PICK v \in MountedVolumes(in.plan) :
        f \in IF Named(in.volumes, EngineNameOf(v)) = {} THEN AbsentVolume(in, v)
              ELSE UNION {PresentVolume(in, v, x) : x \in Named(in.volumes, EngineNameOf(v))}
  BY DEF VolumeNameConflicts
<1>2. CASE Named(in.volumes, EngineNameOf(v)) = {}
  BY <1>1, <1>2 DEF AbsentVolume
<1>3. CASE Named(in.volumes, EngineNameOf(v)) # {}
  <2>1. PICK x \in Named(in.volumes, EngineNameOf(v)) : f \in PresentVolume(in, v, x)
    BY <1>1, <1>3
  <2>2. f = Finding("volume-name", x.name, "problem", "warning")
    BY <2>1 DEF PresentVolume
  <2>3. QED
    BY <2>2
<1>4. QED
  BY <1>2, <1>3

\* One of a network's name.
LEMMA NetworkConflictIs ==
  ASSUME NEW in, NEW f \in NetworkNameConflicts(in)
  PROVE  \E n \in in.plan.networks :
           \/ /\ n.external /\ Named(in.networks, EngineNameOf(n)) = {} /\ ListProves(in, "networks")
              /\ f = Finding("network-name", EngineNameOf(n), "problem", "blocker")
           \/ f = Finding("network-name", EngineNameOf(n), "unknown", "warning")
           \/ \E x \in Named(in.networks, EngineNameOf(n)) :
                \/ x.swarm /\ x.attachable = "no" /\ f = Finding("network-name", x.name, "problem", "blocker")
                \/ f \in {Finding("network-name", x.name, "unknown", "warning"),
                          Finding("network-name", x.name, "manual-check", "info"),
                          Finding("network-name", x.name, "problem", "warning")}
<1>1. PICK n \in in.plan.networks :
        f \in IF Named(in.networks, EngineNameOf(n)) = {} THEN AbsentNetwork(in, n)
              ELSE UNION {PresentNetwork(in, n, x) : x \in Named(in.networks, EngineNameOf(n))}
  BY DEF NetworkNameConflicts
<1>2. CASE Named(in.networks, EngineNameOf(n)) = {}
  BY <1>1, <1>2 DEF AbsentNetwork
<1>3. CASE Named(in.networks, EngineNameOf(n)) # {}
  <2>1. PICK x \in Named(in.networks, EngineNameOf(n)) : f \in PresentNetwork(in, n, x)
    BY <1>1, <1>3
  <2>2. \/ x.swarm /\ x.attachable = "no" /\ f = Finding("network-name", x.name, "problem", "blocker")
        \/ f \in {Finding("network-name", x.name, "unknown", "warning"),
                  Finding("network-name", x.name, "manual-check", "info"),
                  Finding("network-name", x.name, "problem", "warning")}
    BY <2>1 DEF PresentNetwork
  <2>3. QED
    BY <2>2
<1>4. QED
  BY <1>2, <1>3

\* One of a range.
LEMMA SubnetConflictIs ==
  ASSUME NEW in, NEW f \in SubnetOverlaps(in)
  PROVE  \E n \in in.plan.networks, x \in in.networks :
           \E a \in n.subnets, b \in x.subnets :
             /\ ~Ours(in, x) /\ NetworksOverlap(a, b)
             /\ f = Finding("subnet", a, "problem", "blocker")
<1>1. PICK a \in PlannedSubnets(in.plan) :
        /\ f = Finding("subnet", a, "problem", "blocker")
        /\ \E x \in in.networks : ~Ours(in, x) /\ \E b \in x.subnets : NetworksOverlap(a, b)
  BY DEF SubnetOverlaps
<1>2. PICK n \in in.plan.networks : a \in n.subnets
  BY DEF PlannedSubnets
<1>3. QED
  BY <1>1, <1>2

\* One of whose the containers are.
LEMMA OwnershipIs ==
  ASSUME NEW in, NEW f \in ProjectOwnership(in)
  PROVE  f \in {Finding("ownership", "other-checkout", "problem", "warning"),
                Finding("ownership", "renamed", "manual-check", "info"),
                Finding("ownership", "orphan", "manual-check", "info"),
                Finding("ownership", "unlabelled", "unknown", "warning")}
BY DEF ProjectOwnership

\* Each finding's outcome and severity are among the declared ones.
LEMMA FindingsTyped ==
  ASSUME NEW in, NEW f \in Findings(in)
  PROVE  f \in [rule : {"container-name", "volume-name", "network-name", "subnet", "ownership"},
                subject : {f.subject}, outcome : Outcome, severity : Severity]
<1>1. ASSUME NEW rule \in {"container-name", "volume-name", "network-name", "subnet", "ownership"}, NEW subject,
             NEW outcome \in Outcome, NEW severity \in Severity, f = Finding(rule, subject, outcome, severity)
      PROVE  f \in [rule : {"container-name", "volume-name", "network-name", "subnet", "ownership"},
                    subject : {f.subject}, outcome : Outcome, severity : Severity]
  BY <1>1, FindingIs
<1>2. /\ {"problem", "unknown", "manual-check", "no-problem"} \subseteq Outcome
      /\ {"blocker", "warning", "info"} \subseteq Severity
  BY DEF Outcome, Severity
<1>3. CASE f \in ContainerNameConflicts(in)
  <2>1. PICK c : f \in {Finding("container-name", c.name, "no-problem", "info"),
                        Finding("container-name", c.name, "unknown", "warning"),
                        Finding("container-name", c.name, "problem", "blocker")}
    BY <1>3, NameConflictIs
  <2>2. QED
    BY <1>1, <1>2, <2>1
<1>4. CASE f \in VolumeNameConflicts(in)
  <2>1. PICK subject : \/ f = Finding("volume-name", subject, "problem", "blocker")
                       \/ f = Finding("volume-name", subject, "unknown", "warning")
                       \/ f = Finding("volume-name", subject, "problem", "warning")
    BY <1>4, VolumeConflictIs
  <2>2. QED
    BY <1>1, <1>2, <2>1
<1>5. CASE f \in NetworkNameConflicts(in)
  <2>1. PICK subject : \/ f = Finding("network-name", subject, "problem", "blocker")
                       \/ f = Finding("network-name", subject, "unknown", "warning")
                       \/ f = Finding("network-name", subject, "manual-check", "info")
                       \/ f = Finding("network-name", subject, "problem", "warning")
    BY <1>5, NetworkConflictIs
  <2>2. QED
    BY <1>1, <1>2, <2>1
<1>6. CASE f \in SubnetOverlaps(in)
  <2>1. PICK subject : f = Finding("subnet", subject, "problem", "blocker")
    BY <1>6, SubnetConflictIs
  <2>2. QED
    BY <1>1, <1>2, <2>1
<1>7. CASE f \in ProjectOwnership(in)
  <2>1. PICK subject : \/ f = Finding("ownership", subject, "problem", "warning")
                       \/ f = Finding("ownership", subject, "manual-check", "info")
                       \/ f = Finding("ownership", subject, "unknown", "warning")
    BY <1>7, OwnershipIs
  <2>2. QED
    BY <1>1, <1>2, <2>1
<1>8. QED
  BY <1>3, <1>4, <1>5, <1>6, <1>7 DEF Findings

-----------------------------------------------------------------------------
(***************************************************************************)
(* What was told.                                                          *)
(***************************************************************************)

\* What was told stays what the rules make of what was read, as nothing is read after it.
LEMMA ToldAlways == Spec => []ToldIs
<1>1. Init => ToldIs
  BY DEF Init, ToldIs, Told
<1>2. ToldIs /\ [Next]_vars => ToldIs'
  <2> SUFFICES ASSUME ToldIs, [Next]_vars PROVE ToldIs'
    OBVIOUS
  <2>1. CASE Reads
    BY <2>1, ReadsLeave DEF ToldIs, Told
  <2>2. CASE Judge
    BY <2>2 DEF Judge, environment, ToldIs, Told
  <2>3. CASE Appears
    BY <2>3 DEF Appears, deployment, ToldIs, Told
  <2>4. CASE Disappears
    BY <2>4 DEF Disappears, deployment, ToldIs, Told
  <2>5. CASE Prepare
    BY <2>5 DEF Prepare, ToldIs, Told
  <2>6. CASE \E s \in plan.services : Converge(s)
    BY <2>6 DEF Converge, ToldIs, Told
  <2>7. CASE UNCHANGED vars
    BY <2>7 DEF vars, ToldIs, Told
  <2>8. QED
    BY <2>1, <2>2, <2>3, <2>4, <2>5, <2>6, <2>7, Steps
<1>3. QED
  BY <1>1, <1>2, PTL DEF Spec

\* TypeOK: what each variable is, at every step of every audit.
THEOREM TypeCorrect == Spec => []TypeOK
<1>1. Typed /\ ToldIs => TypeOK
  <2> SUFFICES ASSUME Typed, ToldIs PROVE TypeOK
    OBVIOUS
  <2>1. told.findings \subseteq [rule : {"container-name", "volume-name", "network-name", "subnet", "ownership"},
                                 subject : {f.subject : f \in told.findings}, outcome : Outcome, severity : Severity]
    <3>1. CASE told.findings = {}
      BY <3>1
    <3>2. CASE told.findings = Findings(read)
      <4>1. ASSUME NEW f \in told.findings
            PROVE  f \in [rule : {"container-name", "volume-name", "network-name", "subnet", "ownership"},
                          subject : {g.subject : g \in told.findings}, outcome : Outcome, severity : Severity]
        <5>1. f \in [rule : {"container-name", "volume-name", "network-name", "subnet", "ownership"},
                     subject : {f.subject}, outcome : Outcome, severity : Severity]
          BY <3>2, FindingsTyped
        <5>2. QED
          BY <5>1
      <4>2. QED
        BY <4>1
    <3>3. QED
      BY <3>1, <3>2 DEF ToldIs
  <2>2. QED
    BY <2>1 DEF Typed, TypeOK, Phases
<1>2. QED
  BY <1>1, TypedAlways, ToldAlways, PTL

-----------------------------------------------------------------------------
(***************************************************************************)
(* Somebody else's volumes and networks are told of.                       *)
(***************************************************************************)

\* What `up` found, at every step.
LEMMA UsedAlways == Spec => []UsedIsRead
<1>1. Init => UsedIsRead
  BY DEF Init, UsedIsRead
<1>2. Typed /\ Listing /\ UsedIsRead /\ [Next]_vars => UsedIsRead'
  <2> SUFFICES ASSUME Typed, Listing, UsedIsRead, [Next]_vars PROVE UsedIsRead'
    OBVIOUS
  <2>1. CASE used = {} /\ used' = {}
    BY <2>1 DEF UsedIsRead
  <2>2. CASE Reads
    <3>1. ~Deployed /\ used' = used
      BY <2>2, ReadsLeave DEF Deployed
    <3>2. QED
      BY <2>1, <3>1 DEF Typed
  <2>3. CASE Judge \/ Appears \/ Disappears
    <3>1. ~Deployed /\ used' = used
      BY <2>3 DEF Judge, Appears, Disappears, Running, deployment, Deployed
    <3>2. QED
      BY <2>1, <3>1 DEF Typed
  <2>4. CASE Prepare
    <3>1. UNCHANGED <<plan, read, gained>> /\ phase = "up" /\ engine = "answers" /\ ~Deployed
      BY <2>4 DEF Prepare, Deployed
    <3>2. IsEngine(world) /\ used = {} /\ read.runtime = "answers" /\ \A n \in world.networks : IsNetwork(n)
      BY <3>1 DEF Typed
    <3>3. CASE used' = used
      BY <2>1, <3>2, <3>3
    <3>4. CASE \A u \in used' : FoundThere(u)
      <4>1. SUFFICES ASSUME NEW u \in used'
                     PROVE  /\ read.runtime = "answers" /\ u.x.name = EngineNameOf(u.d)
                            /\ \/ /\ u.list = "volumes" /\ u.d \in MountedVolumes(plan)
                                  /\ ~gained /\ read.observed["volumes"] = "complete" => u.x \in read.volumes
                               \/ /\ u.list = "networks" /\ u.d \in plan.networks
                                  /\ ~gained /\ read.observed["networks"] = "complete" =>
                                       \E f \in read.networks : RowOf(f, u.x)
        BY <3>1 DEF UsedIsRead
      <4>2. CASE /\ u.list = "volumes" /\ u.d \in MountedVolumes(plan)
                 /\ u.x \in world.volumes /\ u.x.name = EngineNameOf(u.d)
        BY <3>1, <3>2, <4>2 DEF Listing, ThereIsRead
      <4>3. CASE /\ u.list = "networks" /\ u.d \in plan.networks
                 /\ u.x \in world.networks /\ u.x.name = EngineNameOf(u.d)
        <5>1. ASSUME ~gained, read.observed["networks"] = "complete"
              PROVE  \E f \in read.networks : RowOf(f, u.x)
          <6>1. u.x \in read.networks \/ Unread(u.x) \in read.networks
            BY <3>1, <4>3, <5>1 DEF Listing, ThereIsRead
          <6>2. RowOf(u.x, u.x) /\ RowOf(Unread(u.x), u.x)
            BY <3>2, <4>3, UnreadIs DEF RowOf
          <6>3. QED
            BY <6>1, <6>2
        <5>2. QED
          BY <3>2, <4>3, <5>1
      <4>4. QED
        BY <3>4, <4>2, <4>3 DEF FoundThere
    <3>5. QED
      BY <2>4, <3>2, <3>3, <3>4, PrepareDoes
  <2>5. CASE \E s \in plan.services : Converge(s)
    BY <2>5 DEF Converge, UsedIsRead
  <2>6. CASE UNCHANGED vars
    BY <2>6 DEF vars, UsedIsRead
  <2>7. QED
    BY <2>2, <2>3, <2>4, <2>5, <2>6, Steps
<1>3. QED
  BY <1>1, <1>2, TypedAlways, ListingAlways, PTL DEF Spec

\* The most pressing outcome is "unknown" only when no problem was stated beside it.
LEMMA MostPressingIs ==
  ASSUME NEW os
  PROVE  /\ "unknown" \in os => MostPressing(os) \in Pressing
         /\ MostPressing(os) = "unknown" <=> "unknown" \in os /\ "problem" \notin os
BY DEF MostPressing, Pressing

\* Nothing found there that is somebody else's goes untold: its own finding names it, or
\* the rule is undecided.
LEMMA ForeignVolumeTold ==
  ASSUME NEW in, NEW v \in MountedVolumes(in.plan), NEW x, x.name = EngineNameOf(v),
         in.observed["volumes"] = "complete" => x \in in.volumes, in.runtime = "answers",
         ~Ours(in, x), ~(v.external /\ x.project = None),
         ListProves(in, "volumes") \/ \A w \in MountedVolumes(in.plan) : ~w.external
  PROVE  \/ \E f \in Findings(in) : f.subject = x.name /\ f.outcome \in Pressing
         \/ RuleOutcomes(in).volume \in Pressing
<1>1. CASE ~ListProves(in, "volumes")
  <2>1. AssessVolumes(in) = "unknown"
    BY <1>1 DEF AssessVolumes
  <2>2. RuleOutcomes(in).volume = MostPressing({f.outcome : f \in VolumeNameConflicts(in)} \cup {AssessVolumes(in)})
    BY DEF RuleOutcomes
  <2>3. QED
    BY <2>1, <2>2, MostPressingIs
<1>2. CASE ListProves(in, "volumes")
  <2>1. x \in Named(in.volumes, EngineNameOf(v))
    BY <1>2 DEF ListProves, Named
  <2>2. Finding("volume-name", x.name, "problem", "warning") \in PresentVolume(in, v, x)
    BY DEF PresentVolume
  <2>3. Finding("volume-name", x.name, "problem", "warning") \in VolumeNameConflicts(in)
    BY <2>1, <2>2 DEF VolumeNameConflicts
  <2>4. /\ Finding("volume-name", x.name, "problem", "warning").subject = x.name
        /\ Finding("volume-name", x.name, "problem", "warning").outcome = "problem"
    BY FindingIs
  <2>5. QED
    BY <2>3, <2>4 DEF Findings, Pressing
<1>3. QED
  BY <1>1, <1>2

\* The same of a network, of which the row suffices.
LEMMA ForeignNetworkTold ==
  ASSUME NEW in, NEW n \in in.plan.networks, NEW x, x.name = EngineNameOf(n),
         in.observed["networks"] = "complete" => \E f \in in.networks : RowOf(f, x), in.runtime = "answers",
         ~Ours(in, x), ~(n.external /\ x.project = None),
         ListProves(in, "networks") \/ \A m \in in.plan.networks : ~m.external
  PROVE  \/ \E f \in Findings(in) : f.subject = x.name /\ f.outcome \in Pressing
         \/ RuleOutcomes(in).network \in Pressing
<1>1. CASE ~ListProves(in, "networks")
  <2>1. AssessNetworks(in) = "unknown"
    BY <1>1 DEF AssessNetworks
  <2>2. RuleOutcomes(in).network = MostPressing({f.outcome : f \in NetworkNameConflicts(in)} \cup {AssessNetworks(in)})
    BY DEF RuleOutcomes
  <2>3. QED
    BY <2>1, <2>2, MostPressingIs
<1>2. CASE ListProves(in, "networks")
  <2>1. PICK r \in in.networks : RowOf(r, x)
    BY <1>2 DEF ListProves
  <2>2. r \in Named(in.networks, EngineNameOf(n)) /\ ~Ours(in, r) /\ ~(n.external /\ r.project = None)
    BY <2>1 DEF RowOf, Named, Ours, SameProject
  <2>3. PICK outcome, severity : /\ outcome \in Pressing
                                 /\ Finding("network-name", r.name, outcome, severity) \in PresentNetwork(in, n, r)
    <3>1. \/ PresentNetwork(in, n, r) = {Finding("network-name", r.name, "problem", "blocker")}
          \/ PresentNetwork(in, n, r) = {Finding("network-name", r.name, "unknown", "warning")}
          \/ PresentNetwork(in, n, r) = {Finding("network-name", r.name, "manual-check", "info")}
          \/ PresentNetwork(in, n, r) = {Finding("network-name", r.name, "problem", "warning")}
      BY <2>2 DEF PresentNetwork
    <3>2. {"problem", "unknown", "manual-check"} \subseteq Pressing
      BY DEF Pressing
    <3>3. QED
      BY <3>1, <3>2
  <2>4. Finding("network-name", r.name, outcome, severity) \in NetworkNameConflicts(in)
    BY <2>2, <2>3 DEF NetworkNameConflicts
  <2>5. /\ Finding("network-name", r.name, outcome, severity).subject = x.name
        /\ Finding("network-name", r.name, outcome, severity).outcome = outcome
    BY <2>1, FindingIs DEF RowOf
  <2>6. QED
    BY <2>3, <2>4, <2>5 DEF Findings
<1>3. QED
  BY <1>1, <1>2

\* ForeignIsTold: the new containers never start silently on somebody else's data, or on a
\* network somebody else made, whatever could be read of the engine.
THEOREM ForeignTold == Spec => []ForeignIsTold
<1>1. Typed /\ ToldIs /\ UsedIsRead => ForeignIsTold
  <2> SUFFICES ASSUME Typed, ToldIs, UsedIsRead, ~gained, ~PartialBesideExternal, NEW u \in used,
                      ~Ours(read, u.x), ~(u.d.external /\ u.x.project = None)
               PROVE  \/ \E f \in told.findings : f.subject = u.x.name /\ f.outcome \in Pressing
                      \/ (IF u.list = "volumes" THEN told.outcomes.volume ELSE told.outcomes.network) \in Pressing
    BY DEF ForeignIsTold
  <2>1. told.findings = Findings(read) /\ told.outcomes = RuleOutcomes(read) /\ read.plan = plan
    BY DEF Typed, ToldIs, Told, Deployed
  <2>2. read.runtime = "answers" /\ u.x.name = EngineNameOf(u.d)
    BY DEF UsedIsRead
  <2>3. CASE u.list = "volumes"
    <3>1. u.d \in MountedVolumes(plan) /\ (read.observed["volumes"] = "complete" => u.x \in read.volumes)
      BY <2>3 DEF UsedIsRead
    <3>2. ListProves(read, "volumes") \/ \A w \in MountedVolumes(plan) : ~w.external
      BY DEF PartialBesideExternal
    <3>3. QED
      BY <2>1, <2>2, <2>3, <3>1, <3>2, ForeignVolumeTold
  <2>4. CASE u.list # "volumes"
    <3>1. u.d \in plan.networks /\ (read.observed["networks"] = "complete" => \E f \in read.networks : RowOf(f, u.x))
      BY <2>4 DEF UsedIsRead
    <3>2. ListProves(read, "networks") \/ \A m \in plan.networks : ~m.external
      BY DEF PartialBesideExternal
    <3>3. QED
      BY <2>1, <2>2, <2>4, <3>1, <3>2, ForeignNetworkTold
  <2>5. QED
    BY <2>3, <2>4
<1>2. QED
  BY <1>1, TypedAlways, ToldAlways, UsedAlways, PTL

-----------------------------------------------------------------------------
(***************************************************************************)
(* What `up` does, against what was read.                                  *)
(***************************************************************************)

Upped == ReadIsUsed /\ Stays /\ MadeOrRead /\ ClosedIsRead /\ Done /\ Finished

\* A service's own container is one the plan releases.
LEMMA OwnIs ==
  ASSUME Typed, NEW s \in plan.services, NEW c, IsContainer(c), Own(c, s)
  PROVE  OwnerOf(plan, c) \in {"other-checkout", "service"} /\ Released(plan, c) /\ ~Removed(c)
<1>1. c.project # None /\ c.project = plan.project /\ ~c.oneOff /\ c.service \in plan.services
  BY DEF Typed, Own, Ours, SameProject
<1>2. c.labelled
  BY <1>1 DEF IsContainer
<1>3. OwnerOf(plan, c) \in {"other-checkout", "service"}
  BY <1>1, <1>2 DEF OwnerOf, SameProject, PlannedService
<1>4. QED
  BY <1>3 DEF Released, Removed

\* A run that was refused left everything as it was.
LEMMA UppedRefused ==
  ASSUME Typed, Listing, Prepare, Refused, up' = [s \in plan.services |-> "failed"], phase' = "end",
         world' = world, used' = used
  PROVE  Upped'
<1>1. UNCHANGED <<plan, read, gained, lost>> /\ phase = "up" /\ ~Deployed /\ Deployed' /\ used = {}
  BY DEF Prepare, Deployed, Typed
<1>2. AllRefused'
  BY <1>1 DEF AllRefused
<1>3. ReadIsUsed' /\ Done' /\ Finished'
  BY <1>1, <1>2 DEF ReadIsUsed, Done, Finished
<1>4. Stays'
  BY <1>1 DEF Stays, Listing, ReadIsThere
<1>5. MadeOrRead' /\ ClosedIsRead'
  BY <1>1 DEF MadeOrRead, ClosedIsRead, Listing, ThereIsRead
<1>6. QED
  BY <1>3, <1>4, <1>5 DEF Upped

\* Before the first service converges: orphans are gone, the rest is there.
LEMMA UppedPrepared ==
  ASSUME Typed, Listing, Prepare, ~Refused, up' = up, phase' = "converge",
         world.volumes \subseteq world'.volumes, world.networks \subseteq world'.networks,
         \A n \in world'.networks \ world.networks : IsNetwork(n) /\ ~n.swarm,
         world'.containers = {c \in world.containers : ~Removed(c)},
         \A v \in MountedVolumes(plan), x \in world.volumes :
           x.name = EngineNameOf(v) => [list |-> "volumes", d |-> v, x |-> x] \in used',
         \A n \in plan.networks, x \in world.networks :
           x.name = EngineNameOf(n) => [list |-> "networks", d |-> n, x |-> x] \in used'
  PROVE  Upped'
<1>1. /\ UNCHANGED <<plan, read, gained, lost>> /\ phase = "up" /\ ~Deployed /\ Deployed'
      /\ up = [s \in plan.services |-> "pending"]
  BY DEF Prepare, Deployed, Typed
<1>2. \A n \in world.networks : IsNetwork(n)
  BY DEF Typed
<1>3. ASSUME NEW v \in MountedVolumes(plan),
             v.external \/ (~lost /\ Named(read.volumes, EngineNameOf(v)) # {})
      PROVE  \E u \in used' : u.d = v
  <2>1. PICK x \in world.volumes : x.name = EngineNameOf(v)
    <3>1. CASE v.external
      BY <3>1 DEF Refused, Existing, Named
    <3>2. CASE ~lost /\ Named(read.volumes, EngineNameOf(v)) # {}
      BY <3>2 DEF Listing, ReadIsThere, Named
    <3>3. QED
      BY <1>3, <3>1, <3>2
  <2>2. [list |-> "volumes", d |-> v, x |-> x] \in used'
    BY <2>1
  <2>3. QED
    BY <2>2
<1>4. ASSUME NEW n \in plan.networks, NEW x \in world.networks, x.name = EngineNameOf(n)
      PROVE  \E u \in used' : u.d = n /\ u.list = "networks"
  <2>1. [list |-> "networks", d |-> n, x |-> x] \in used'
    BY <1>4
  <2>2. QED
    BY <2>1
<1>5. ASSUME NEW n \in plan.networks,
             n.external \/ (~lost /\ Named(read.networks, EngineNameOf(n)) # {})
      PROVE  \E u \in used' : u.d = n /\ u.list = "networks"
  <2>1. CASE n.external
    <3>1. PICK x \in world.networks : x.name = EngineNameOf(n)
      BY <2>1 DEF Refused, Existing, Named
    <3>2. QED
      BY <1>4, <3>1
  <2>2. CASE ~lost /\ Named(read.networks, EngineNameOf(n)) # {}
    <3>1. PICK f \in read.networks : f.name = EngineNameOf(n)
      BY <2>2 DEF Named
    <3>2. PICK x \in world.networks : f = x \/ f = Unread(x)
      BY <2>2 DEF Listing, ReadIsThere
    <3>3. x.name = EngineNameOf(n)
      BY <1>2, <3>1, <3>2, UnreadIs
    <3>4. QED
      BY <1>4, <3>3
  <2>3. QED
    BY <1>5, <2>1, <2>2
<1>6. ASSUME NEW n \in plan.networks, ~lost
      PROVE  \/ \E u \in used' : u.d = n /\ u.list = "networks"
             \/ \A f \in read.networks, a \in n.subnets : \A b \in f.subnets : ~NetworksOverlap(a, b)
  <2>1. CASE \E x \in world.networks : x.name = EngineNameOf(n)
    BY <1>4, <2>1
  <2>2. CASE \A x \in world.networks : x.name # EngineNameOf(n)
    <3>1. \A x \in world.networks, a \in n.subnets : \A b \in x.subnets : ~NetworksOverlap(a, b)
      BY <2>2 DEF Refused, Existing, Named
    <3>2. ASSUME NEW f \in read.networks, NEW a \in n.subnets, NEW b \in f.subnets
          PROVE  ~NetworksOverlap(a, b)
      <4>1. PICK x \in world.networks : f = x \/ f = Unread(x)
        BY <1>6 DEF Listing, ReadIsThere
      <4>2. f = x
        BY <1>2, <3>2, <4>1, UnreadIs
      <4>3. QED
        BY <3>1, <4>2
    <3>3. QED
      BY <3>2
  <2>3. QED
    BY <2>1, <2>2
<1>7. ReadIsUsed'
  BY <1>1, <1>3, <1>5, <1>6 DEF ReadIsUsed
<1>8. Stays'
  <2>1. SUFFICES ASSUME ~lost, NEW c \in read.containers,
                        ~Released(plan, c) \/ \E s \in plan.services : Own(c, s)
                 PROVE  c \in world'.containers
    BY <1>1 DEF Stays, Own
  <2>2. c \in world.containers /\ IsContainer(c)
    BY <1>1, <2>1 DEF Listing, ReadIsThere, ReadContainers
  <2>3. ~Removed(c)
    BY <2>1, <2>2, OwnIs DEF Released, Removed
  <2>4. QED
    BY <2>2, <2>3
<1>9. MadeOrRead' /\ ClosedIsRead'
  BY <1>1 DEF MadeOrRead, ClosedIsRead, Listing, ThereIsRead
<1>10. Done' /\ Finished'
  BY <1>1 DEF Done, Finished
<1>11. QED
  BY <1>7, <1>8, <1>9, <1>10 DEF Upped

\* One service's turn moves only containers of that service.
LEMMA UppedConverge ==
  ASSUME Typed, Listing, Upped, NEW s \in plan.services, Converge(s)
  PROVE  Upped'
<1>1. /\ UNCHANGED <<plan, read, used, gained, lost>> /\ phase = "converge" /\ up[s] = "pending"
      /\ phase' = IF \E t \in plan.services : up'[t] = "pending" THEN "converge" ELSE "end"
  BY DEF Converge
<1>2. Deployed /\ Deployed' /\ ~AllRefused
  BY <1>1 DEF Deployed, AllRefused
<1>3. /\ IsEngine(world) /\ IsPlan(plan) /\ read.plan = plan
      /\ \A c \in world.containers : IsContainer(c)
      /\ \A c \in read.containers : IsContainer(c)
      /\ up \in [plan.services -> {"pending", "kept", "created", "replaced", "failed"}]
  BY DEF Typed, Listing, ReadContainers
<1>4. /\ world'.networks = world.networks /\ world'.volumes = world.volumes
      /\ \/ /\ \E c \in world.containers : Own(c, s) /\ Keeps(c, s)
            /\ up' = [up EXCEPT ![s] = "kept"] /\ world'.containers = world.containers
         \/ /\ \A c \in world.containers : ~(Own(c, s) /\ Keeps(c, s))
            /\ \E c \in Rest(s) : c.name = ContainerNameOf(plan, s)
            /\ up' = [up EXCEPT ![s] = "failed"] /\ world'.containers = Rest(s)
         \/ /\ \A c \in world.containers : ~(Own(c, s) /\ Keeps(c, s))
            /\ \A c \in Rest(s) : c.name # ContainerNameOf(plan, s)
            /\ world'.containers = Rest(s) \cup {Made(s)}
            /\ \/ ClosedNetwork /\ up' = [up EXCEPT ![s] = "failed"]
               \/ /\ ~ClosedNetwork /\ up' = [up EXCEPT ![s] = "created"]
                  /\ \A c \in world.containers : ~Own(c, s)
               \/ /\ ~ClosedNetwork /\ up' = [up EXCEPT ![s] = "replaced"]
                  /\ \E c \in world.containers : Own(c, s)
  BY <1>3, ConvergeDoes
<1>5. /\ Rest(s) \subseteq world'.containers
      /\ world'.containers \subseteq world.containers \cup {Made(s)}
      /\ up'[s] # "pending" /\ \A t \in plan.services : t # s => up'[t] = up[t]
  BY <1>3, <1>4 DEF Rest
<1>6. ReadIsUsed' /\ Finished'
  BY <1>1, <1>2 DEF Upped, ReadIsUsed, Finished
<1>7. ClosedIsRead'
  BY <1>1, <1>2, <1>4 DEF Upped, ClosedIsRead
<1>8. MadeOrRead'
  <2>1. SUFFICES ASSUME ~gained, read.observed["containers"] = "complete", NEW c \in world'.containers
                 PROVE  c \in read.containers \/ \E t \in plan.services : up'[t] # "pending" /\ c = Made(t)
    BY <1>1 DEF MadeOrRead, Made
  <2>2. CASE c = Made(s)
    BY <1>5, <2>2
  <2>3. CASE c \in world.containers
    <3>1. c \in read.containers \/ \E t \in plan.services : up[t] # "pending" /\ c = Made(t)
      BY <1>2, <2>1, <2>3 DEF Upped, MadeOrRead
    <3>2. QED
      BY <1>1, <1>5, <3>1
  <2>4. QED
    BY <1>5, <2>2, <2>3
<1>9. \A c \in read.containers : ~lost /\ (~Released(plan, c) \/ Own(c, s)) => c \in world.containers
  BY <1>1, <1>2 DEF Upped, Stays
<1>10. \A c \in read.containers : ~Released(plan, c) => ~Own(c, s)
  BY <1>3, OwnIs
<1>11. Stays'
  <2>1. SUFFICES ASSUME ~lost, NEW c \in read.containers,
                        ~Released(plan, c) \/ \E t \in plan.services : Own(c, t) /\ up'[t] = "pending"
                 PROVE  c \in world'.containers
    BY <1>1 DEF Stays, Own
  <2>2. ~Own(c, s)
    BY <1>5, <1>10, <2>1 DEF Own
  <2>3. c \in world.containers
    BY <1>2, <1>5, <2>1 DEF Upped, Stays
  <2>4. QED
    BY <1>5, <2>2, <2>3 DEF Rest
<1>12. ASSUME ~gained, read.observed["containers"] = "complete", NEW c \in world.containers, Own(c, s)
       PROVE  c \in read.containers
  <2>1. c \in read.containers \/ \E t \in plan.services : up[t] # "pending" /\ c = Made(t)
    BY <1>2, <1>12 DEF Upped, MadeOrRead
  <2>2. ASSUME NEW t \in plan.services, up[t] # "pending"
        PROVE  c # Made(t)
    BY <1>1, <1>3, <1>12, <2>2, MadeIs DEF Own
  <2>3. QED
    BY <2>1, <2>2
<1>13. Done'
  <2>1. SUFFICES ASSUME NEW t \in plan.services
                 PROVE  /\ up'[t] = "kept" => \E c \in world'.containers : Own(c, t)
                        /\ up'[t] \in {"created", "replaced"} => ~ClosedNetwork
                        /\ ~lost =>
                             /\ up'[t] = "created" => \A c \in read.containers : ~Own(c, t)
                             /\ up'[t] \in {"created", "replaced", "failed"} =>
                                  \A c \in read.containers : ~(Own(c, t) /\ Keeps(c, t))
                             /\ up'[t] \in {"created", "replaced"} =>
                                  \A c \in read.containers : c.name = ContainerNameOf(plan, t) => Released(plan, c)
                        /\ ~gained /\ read.observed["containers"] = "complete" /\ up'[t] \in {"kept", "replaced"} =>
                             \E c \in read.containers : Own(c, t)
    BY <1>1, <1>4 DEF Done, Own, Keeps, ClosedNetwork
  <2>2. CASE t # s
    <3>1. up'[t] = up[t]
      BY <1>5, <2>2
    <3>2. ASSUME NEW c \in world.containers, Own(c, t)
          PROVE  c \in world'.containers
      BY <1>5, <2>2, <3>2 DEF Own, Rest
    <3>3. QED
      BY <1>2, <3>1, <3>2 DEF Upped, Done
  <2>3. CASE t = s
    <3>1. CASE /\ \E c \in world.containers : Own(c, s) /\ Keeps(c, s)
               /\ up' = [up EXCEPT ![s] = "kept"] /\ world'.containers = world.containers
      <4>1. up'[s] = "kept"
        BY <1>3, <3>1
      <4>2. QED
        BY <1>12, <2>3, <3>1, <4>1
    <3>2. CASE /\ \A c \in world.containers : ~(Own(c, s) /\ Keeps(c, s))
               /\ up' = [up EXCEPT ![s] = "failed"]
      <4>1. up'[s] = "failed"
        BY <1>3, <3>2
      <4>2. QED
        BY <1>9, <2>3, <3>2, <4>1
    <3>3. CASE /\ \A c \in world.containers : ~(Own(c, s) /\ Keeps(c, s))
               /\ \A c \in Rest(s) : c.name # ContainerNameOf(plan, s)
               /\ ~ClosedNetwork
               /\ \/ /\ up' = [up EXCEPT ![s] = "created"]
                     /\ \A c \in world.containers : ~Own(c, s)
                  \/ /\ up' = [up EXCEPT ![s] = "replaced"]
                     /\ \E c \in world.containers : Own(c, s)
      <4>1. \/ up'[s] = "created" /\ \A c \in world.containers : ~Own(c, s)
            \/ up'[s] = "replaced" /\ \E c \in world.containers : Own(c, s)
        BY <1>3, <3>3
      <4>2. ASSUME ~lost, NEW c \in read.containers, c.name = ContainerNameOf(plan, s)
            PROVE  Released(plan, c)
        BY <1>9, <1>10, <3>3, <4>2 DEF Rest
      <4>3. QED
        BY <1>9, <1>12, <2>3, <3>3, <4>1, <4>2
    <3>4. QED
      BY <1>4, <3>1, <3>2, <3>3
  <2>4. QED
    BY <2>2, <2>3
<1>14. QED
  BY <1>6, <1>7, <1>8, <1>11, <1>13 DEF Upped

\* What `up` did against what was read, at every step.
LEMMA UppedAlways == Spec => []Upped
<1>1. ~Deployed => Upped
  BY DEF Upped, ReadIsUsed, Stays, MadeOrRead, ClosedIsRead, Done, Finished, Deployed
<1>2. Init => Upped
  BY <1>1 DEF Init, Deployed
<1>3. Typed /\ Listing /\ Upped /\ [Next]_vars => Upped'
  <2> SUFFICES ASSUME Typed, Listing, Upped, [Next]_vars PROVE Upped'
    OBVIOUS
  <2>1. ~Deployed' => Upped'
    BY DEF Upped, ReadIsUsed, Stays, MadeOrRead, ClosedIsRead, Done, Finished, Deployed
  <2>2. CASE Reads
    <3>1. ~Deployed'
      BY <2>2, ReadsLeave DEF Deployed
    <3>2. QED
      BY <2>1, <3>1
  <2>3. CASE Judge \/ Appears \/ Disappears
    <3>1. ~Deployed'
      BY <2>3 DEF Judge, Appears, Disappears, Running, Deployed
    <3>2. QED
      BY <2>1, <3>1
  <2>4. CASE Prepare
    <3>1. IsEngine(world)
      BY DEF Typed
    <3>2. QED
      BY <2>4, <3>1, PrepareDoes, UppedRefused, UppedPrepared
  <2>5. CASE \E s \in plan.services : Converge(s)
    BY <2>5, UppedConverge
  <2>6. CASE UNCHANGED vars
    BY <2>6 DEF vars, Upped, ReadIsUsed, Stays, MadeOrRead, ClosedIsRead, Done, Finished, Deployed, AllRefused, Own,
                Keeps, Made, ClosedNetwork
  <2>7. QED
    BY <2>2, <2>3, <2>4, <2>5, <2>6, Steps
<1>4. QED
  BY <1>2, <1>3, TypedAlways, ListingAlways, PTL DEF Spec

-----------------------------------------------------------------------------
(***************************************************************************)
(* The rows of the change list.                                            *)
(***************************************************************************)

\* What the row of a service says when this container has its name.
RowWord(in, s, c) ==
  IF OwnService(in, s, c)
  THEN IF Action(in.plan, c) = "kept" THEN "kept" ELSE "replaced"
  ELSE IF OwnerOf(in.plan, c) = "other-checkout" /\ c.service = s THEN "taken over"
  ELSE IF OwnerOf(in.plan, c) = "unlabelled" THEN "created if ours"
  ELSE "not created"

\* The row of a service is that of the container which has its name; there is at most one.
LEMMA RowIs ==
  ASSUME NEW in, NEW s, in.runtime # "silent", NamesDiffer(in.containers)
  PROVE  \/ /\ Named(in.containers, ContainerNameOf(in.plan, s)) = {}
            /\ ContainerRow(in, s) = "created"
         \/ \E c \in Named(in.containers, ContainerNameOf(in.plan, s)) : ContainerRow(in, s) = RowWord(in, s, c)
<1> DEFINE found == Named(in.containers, ContainerNameOf(in.plan, s))
<1>1. CASE found = {}
  BY <1>1 DEF ContainerRow
<1>2. CASE found # {}
  <2> DEFINE rows == {RowWord(in, s, c) : c \in found}
  <2>1. ContainerRow(in, s) = CHOOSE row \in rows : TRUE
    BY <1>2 DEF ContainerRow, RowWord
  <2>2. \E row \in rows : TRUE
    BY <1>2
  <2> HIDE DEF found
  <2>3. ContainerRow(in, s) \in rows
    BY <2>1, <2>2
  <2>4. QED
    BY <2>3 DEF found
<1>3. QED
  BY <1>1, <1>2

\* What the rules take for a service's own container is what Compose takes for one.
LEMMA OwnServiceIs ==
  ASSUME Typed, NEW s \in plan.services, NEW c, IsContainer(c)
  PROVE  /\ OwnService(read, s, c) => Own(c, s)
         /\ OwnerOf(plan, c) = "other-checkout" /\ c.service = s => Own(c, s)
         /\ OwnService(read, s, c) /\ Action(plan, c) = "kept" => Keeps(c, s)
<1>1. read.plan = plan
  BY DEF Typed
<1>2. ASSUME OwnerOf(plan, c) \in {"service", "other-checkout"}
      PROVE  c.project # None /\ c.project = plan.project /\ ~c.oneOff
  BY <1>2 DEF OwnerOf, SameProject
<1>3. OwnService(read, s, c) => Own(c, s)
  BY <1>1, <1>2 DEF OwnService, Own, Ours, SameProject, IsContainer
<1>4. OwnerOf(plan, c) = "other-checkout" /\ c.service = s => Own(c, s)
  BY <1>1, <1>2 DEF Own, Ours, SameProject
<1>5. ASSUME OwnService(read, s, c), Action(plan, c) = "kept"
      PROVE  Keeps(c, s)
  <2>1. OwnerOf(plan, c) = "service" /\ c.service = s
    BY <1>1, <1>3, <1>5 DEF OwnService, Own
  <2>2. ComposeAction(plan, c) = "kept"
    BY <1>5, <2>1 DEF Action
  <2>3. QED
    BY <2>1, <2>2 DEF ComposeAction, Keeps
<1>6. QED
  BY <1>3, <1>4, <1>5

\* A name that a container keeps which the plan does not release is not to be had.
LEMMA TakenFails ==
  ASSUME Typed, Listing, Upped, phase = "end", ~lost, ~OwnUnderAnotherName, NEW s \in plan.services,
         NEW c \in read.containers, c.name = ContainerNameOf(plan, s), ~Released(plan, c)
  PROVE  up[s] = "failed"
<1>1. Deployed
  BY DEF Deployed
<1>2. CASE AllRefused
  BY <1>2 DEF AllRefused
<1>3. CASE ~AllRefused
  <2>1. up[s] \in {"kept", "created", "replaced", "failed"}
    BY DEF Typed, Upped, Finished
  <2>2. up[s] \notin {"created", "replaced"}
    BY <1>1, <1>3 DEF Upped, Done
  <2>3. up[s] # "kept"
    <3>1. SUFFICES ASSUME up[s] = "kept" PROVE FALSE
      OBVIOUS
    <3>2. PICK d \in world.containers : Own(d, s)
      BY <1>1, <1>3, <3>1 DEF Upped, Done
    <3>3. OwnerOf(plan, d) \in {"other-checkout", "service"} /\ Released(plan, d) /\ d.service = s
      BY <3>2, OwnIs DEF Typed, Own
    <3>4. d.name = ContainerNameOf(plan, s)
      BY <3>3 DEF OwnUnderAnotherName
    <3>5. c \in world.containers
      BY <1>1 DEF Upped, Stays
    <3>6. c = d
      BY <3>4, <3>5 DEF Typed, NamesDiffer
    <3>7. QED
      BY <3>3, <3>6
  <2>4. QED
    BY <2>1, <2>2, <2>3
<1>4. QED
  BY <1>2, <1>3

\* The rows of the containers.
LEMMA ContainerRowsReal ==
  ASSUME Typed, Listing, Upped, phase = "end", ~gained, ~lost, ~ReleasedName, ~OwnUnderAnotherName,
         NEW s \in plan.services
  PROVE  LET row == ContainerRow(read, s)
         IN  /\ row = "kept" => up[s] \in {"kept", "failed"}
             /\ row = "created" /\ ListProves(read, "containers") => up[s] \in {"created", "failed"}
             /\ row \in {"replaced", "taken over"} => up[s] # "created"
             /\ row = "not created" => up[s] = "failed"
<1>1. Deployed /\ read.runtime = "answers" /\ read.plan = plan
  BY DEF Deployed, Typed
<1>2. NamesDiffer(read.containers) /\ \A c \in read.containers : IsContainer(c)
  BY DEF Listing, ReadContainers
<1>3. up[s] \in {"kept", "created", "replaced", "failed"}
  BY DEF Typed, Upped, Finished
<1>4. CASE /\ Named(read.containers, ContainerNameOf(plan, s)) = {}
           /\ ContainerRow(read, s) = "created"
  <2>1. ASSUME ListProves(read, "containers")
        PROVE  up[s] \in {"created", "failed"}
    <3>1. read.observed["containers"] = "complete"
      BY <1>1, <2>1 DEF ListProves
    <3>2. ASSUME NEW c \in read.containers
          PROVE  ~Own(c, s)
      <4>1. SUFFICES ASSUME Own(c, s) PROVE FALSE
        OBVIOUS
      <4>2. OwnerOf(plan, c) \in {"other-checkout", "service"} /\ c.service = s
        BY <1>2, <4>1, OwnIs DEF Own
      <4>3. c.name = ContainerNameOf(plan, s)
        BY <4>2 DEF OwnUnderAnotherName
      <4>4. QED
        BY <1>4, <4>3 DEF Named
    <3>3. CASE AllRefused
      BY <3>3 DEF AllRefused
    <3>4. CASE ~AllRefused
      BY <1>1, <1>3, <3>1, <3>2, <3>4 DEF Upped, Done
    <3>5. QED
      BY <3>3, <3>4
  <2>2. QED
    BY <1>4, <2>1
<1>5. ASSUME NEW c \in Named(read.containers, ContainerNameOf(plan, s)), ContainerRow(read, s) = RowWord(read, s, c)
      PROVE  /\ ContainerRow(read, s) = "kept" => up[s] \in {"kept", "failed"}
             /\ ContainerRow(read, s) # "created"
             /\ ContainerRow(read, s) \in {"replaced", "taken over"} => up[s] # "created"
             /\ ContainerRow(read, s) = "not created" => up[s] = "failed"
  <2>1. c \in read.containers /\ c.name = ContainerNameOf(plan, s) /\ IsContainer(c)
    BY <1>2 DEF Named
  <2>2. ASSUME RowWord(read, s, c) = "kept"
        PROVE  up[s] \in {"kept", "failed"}
    <3>1. OwnService(read, s, c) /\ Action(plan, c) = "kept"
      BY <1>1, <2>2 DEF RowWord
    <3>2. Own(c, s) /\ Keeps(c, s)
      BY <2>1, <3>1, OwnServiceIs
    <3>3. AllRefused \/ up[s] \notin {"created", "replaced", "failed"}
      BY <1>1, <2>1, <3>2 DEF Upped, Done
    <3>4. QED
      BY <1>3, <3>3 DEF AllRefused
  <2>3. RowWord(read, s, c) # "created"
    BY DEF RowWord
  <2>4. ASSUME RowWord(read, s, c) \in {"replaced", "taken over"}
        PROVE  up[s] # "created"
    <3>1. OwnService(read, s, c) \/ (OwnerOf(plan, c) = "other-checkout" /\ c.service = s)
      BY <1>1, <2>4 DEF RowWord
    <3>2. Own(c, s)
      BY <2>1, <3>1, OwnServiceIs
    <3>3. AllRefused \/ up[s] # "created"
      BY <1>1, <2>1, <3>2 DEF Upped, Done
    <3>4. QED
      BY <3>3 DEF AllRefused
  <2>5. ASSUME RowWord(read, s, c) = "not created"
        PROVE  up[s] = "failed"
    <3>1. ~OwnService(read, s, c)
      BY <2>5 DEF RowWord
    <3>2. ~Released(plan, c)
      BY <2>1, <3>1 DEF ReleasedName
    <3>3. QED
      BY <2>1, <3>2, TakenFails
  <2>6. QED
    BY <1>5, <2>2, <2>3, <2>4, <2>5
<1>6. QED
  BY <1>1, <1>2, <1>4, <1>5, RowIs

\* The rows of the volumes.
LEMMA VolumeRowsReal ==
  ASSUME Typed, UsedIsRead, Upped, phase = "end", ~gained, ~lost, NEW v \in MountedVolumes(plan)
  PROVE  LET row == VolumeRow(read, v)
         IN  /\ row = "missing" => \A s \in plan.services : up[s] = "failed"
             /\ row = "created" => \A u \in used : u.d # v
             /\ row \in {"reused", "external", "reused, not ours"} /\ used # {} => \E u \in used : u.d = v
<1> DEFINE found == Named(read.volumes, EngineNameOf(v))
<1>1. Deployed /\ read.runtime = "answers" /\ IsPlan(plan)
  BY DEF Deployed, Typed
<1>2. v \notin plan.networks
  BY <1>1 DEF IsPlan, MountedVolumes
<1>3. ASSUME found = {}, read.observed["volumes"] = "complete"
      PROVE  \A u \in used : u.d # v
  <2>1. SUFFICES ASSUME NEW u \in used, u.d = v PROVE FALSE
    OBVIOUS
  <2>2. u.x \in read.volumes /\ u.x.name = EngineNameOf(v)
    BY <1>2, <1>3, <2>1 DEF UsedIsRead
  <2>3. QED
    BY <1>3, <2>2 DEF Named
<1>4. CASE VolumeRow(read, v) = "missing"
  <2>1. v.external /\ found = {} /\ read.observed["volumes"] = "complete"
    BY <1>1, <1>4 DEF VolumeRow, ListProves
  <2>2. AllRefused
    BY <1>1, <1>3, <2>1 DEF Upped, ReadIsUsed
  <2>3. QED
    BY <1>4, <2>2 DEF AllRefused
<1>5. CASE VolumeRow(read, v) = "created"
  <2>1. found = {} /\ read.observed["volumes"] = "complete"
    BY <1>1, <1>5 DEF VolumeRow, ListProves
  <2>2. QED
    BY <1>3, <1>5, <2>1
<1>6. CASE VolumeRow(read, v) \in {"reused", "external", "reused, not ours"} /\ used # {}
  <2>1. found # {}
    BY <1>6 DEF VolumeRow
  <2>2. ~AllRefused
    BY <1>6 DEF AllRefused
  <2>3. QED
    BY <1>1, <1>6, <2>1, <2>2 DEF Upped, ReadIsUsed
<1>7. QED
  BY <1>4, <1>5, <1>6

\* The rows of the networks.
LEMMA NetworkRowsReal ==
  ASSUME Typed, UsedIsRead, Upped, phase = "end", ~gained, ~lost, NEW n \in plan.networks
  PROVE  LET row == NetworkRow(read, n)
         IN  /\ row = "missing" => \A s \in plan.services : up[s] = "failed"
             /\ row = "created" => \A u \in used : u.d # n
             /\ row \in {"reused", "joined", "reused, not ours"} /\ used # {} => \E u \in used : u.d = n
<1> DEFINE found == Named(read.networks, EngineNameOf(n))
<1>1. Deployed /\ read.runtime = "answers" /\ IsPlan(plan)
  BY DEF Deployed, Typed
<1>2. n \notin MountedVolumes(plan)
  BY <1>1 DEF IsPlan, MountedVolumes
<1>3. ASSUME found = {}, read.observed["networks"] = "complete"
      PROVE  \A u \in used : u.d # n
  <2>1. SUFFICES ASSUME NEW u \in used, u.d = n PROVE FALSE
    OBVIOUS
  <2>2. PICK f \in read.networks : RowOf(f, u.x)
    BY <1>2, <1>3, <2>1 DEF UsedIsRead
  <2>3. f.name = EngineNameOf(n)
    BY <2>1, <2>2 DEF UsedIsRead, RowOf
  <2>4. QED
    BY <1>3, <2>2, <2>3 DEF Named
<1>4. CASE NetworkRow(read, n) = "missing"
  <2>1. n.external /\ found = {} /\ read.observed["networks"] = "complete"
    BY <1>1, <1>4 DEF NetworkRow, ListProves
  <2>2. AllRefused
    BY <1>1, <1>3, <2>1 DEF Upped, ReadIsUsed
  <2>3. QED
    BY <1>4, <2>2 DEF AllRefused
<1>5. CASE NetworkRow(read, n) = "created"
  <2>1. found = {} /\ read.observed["networks"] = "complete"
    BY <1>1, <1>5 DEF NetworkRow, ListProves
  <2>2. QED
    BY <1>3, <1>5, <2>1
<1>6. CASE NetworkRow(read, n) \in {"reused", "joined", "reused, not ours"} /\ used # {}
  <2>1. found # {}
    BY <1>6 DEF NetworkRow
  <2>2. ~AllRefused
    BY <1>6 DEF AllRefused
  <2>3. QED
    BY <1>1, <1>6, <2>1, <2>2 DEF Upped, ReadIsUsed
<1>7. QED
  BY <1>4, <1>5, <1>6

\* RowsAreWhatUpDoes: the change list says what `up` will do to each container, volume and
\* network of the plan, and that is what it does.
THEOREM RowsReal == Spec => []RowsAreWhatUpDoes
<1>1. Typed /\ Listing /\ UsedIsRead /\ Upped => RowsAreWhatUpDoes
  <2> SUFFICES ASSUME Typed, Listing, UsedIsRead, Upped, phase = "end", ~gained, ~lost, ~ReleasedName,
                      ~OwnUnderAnotherName
               PROVE  RowsAreWhatUpDoes
    BY DEF RowsAreWhatUpDoes
  <2>1. \A s \in plan.services :
          LET row == ContainerRow(read, s)
          IN  /\ row = "kept" => up[s] \in {"kept", "failed"}
              /\ row = "created" /\ ListProves(read, "containers") => up[s] \in {"created", "failed"}
              /\ row \in {"replaced", "taken over"} => up[s] # "created"
              /\ row = "not created" => up[s] = "failed"
    BY ContainerRowsReal
  <2>2. \A v \in MountedVolumes(plan) :
          LET row == VolumeRow(read, v)
          IN  /\ row = "missing" => \A s \in plan.services : up[s] = "failed"
              /\ row = "created" => \A u \in used : u.d # v
              /\ row \in {"reused", "external", "reused, not ours"} /\ used # {} => \E u \in used : u.d = v
    BY VolumeRowsReal
  <2>3. \A n \in plan.networks :
          LET row == NetworkRow(read, n)
          IN  /\ row = "missing" => \A s \in plan.services : up[s] = "failed"
              /\ row = "created" => \A u \in used : u.d # n
              /\ row \in {"reused", "joined", "reused, not ours"} /\ used # {} => \E u \in used : u.d = n
    BY NetworkRowsReal
  <2>4. QED
    BY <2>1, <2>2, <2>3 DEF RowsAreWhatUpDoes
<1>2. QED
  BY <1>1, TypedAlways, ListingAlways, UsedAlways, UppedAlways, PTL

-----------------------------------------------------------------------------
(***************************************************************************)
(* Blockers.                                                               *)
(***************************************************************************)

\* BlockerIsReal: a name or a range that is reported to block the deployment does, as long
\* as nothing is removed meanwhile.
THEOREM BlockersReal == Spec => []BlockerIsReal
<1>1. Typed /\ Listing /\ ToldIs /\ UsedIsRead /\ Upped => BlockerIsReal
  <2> SUFFICES ASSUME Typed, Listing, ToldIs, UsedIsRead, Upped, phase = "end", ~lost, ~ReleasedName, ~JoinedByName,
                      ~OwnUnderAnotherName, ~KeptBesideClosed, \A s \in plan.services : up[s] # "failed",
                      NEW f \in told.findings, f.severity = "blocker"
               PROVE  f.rule \in {"volume-name", "network-name"} /\ gained
    BY DEF BlockerIsReal
  <2>1. Deployed /\ read.runtime = "answers" /\ IsPlan(plan) /\ read.plan = plan /\ f \in Findings(read)
    BY DEF Deployed, Typed, ToldIs, Told
  <2>2. PICK s \in plan.services : up[s] # "failed"
    BY <2>1 DEF IsPlan
  <2>3. ~AllRefused
    BY <2>2 DEF AllRefused
  <2>4. f \notin ContainerNameConflicts(read)
    <3>1. SUFFICES ASSUME f \in ContainerNameConflicts(read) PROVE FALSE
      OBVIOUS
    <3>2. PICK t \in FixedNames(plan) : \E c \in Named(read.containers, plan.svc[t].name) :
            /\ f \in {Finding("container-name", c.name, "no-problem", "info"),
                      Finding("container-name", c.name, "unknown", "warning"),
                      Finding("container-name", c.name, "problem", "blocker")}
            /\ f = Finding("container-name", c.name, "problem", "blocker") => ~OwnService(read, t, c)
      BY <2>1, <3>1, NameConflictIs
    <3>3. PICK c \in Named(read.containers, plan.svc[t].name) :
            /\ f \in {Finding("container-name", c.name, "no-problem", "info"),
                      Finding("container-name", c.name, "unknown", "warning"),
                      Finding("container-name", c.name, "problem", "blocker")}
            /\ f = Finding("container-name", c.name, "problem", "blocker") => ~OwnService(read, t, c)
      BY <3>2
    <3>4. f = Finding("container-name", c.name, "problem", "blocker")
      BY <3>3, FindingIs
    <3>5. t \in plan.services /\ c \in read.containers /\ c.name = ContainerNameOf(plan, t) /\ ~OwnService(read, t, c)
      BY <3>3, <3>4 DEF FixedNames, Named, ContainerNameOf
    <3>6. ~Released(plan, c)
      BY <3>5 DEF ReleasedName
    <3>7. QED
      BY <3>5, <3>6, TakenFails
  <2>5. ASSUME f \in VolumeNameConflicts(read)
        PROVE  f.rule = "volume-name" /\ gained
    <3>1. PICK v \in MountedVolumes(plan) :
            \/ /\ v.external /\ Named(read.volumes, EngineNameOf(v)) = {} /\ ListProves(read, "volumes")
               /\ f = Finding("volume-name", EngineNameOf(v), "problem", "blocker")
            \/ f = Finding("volume-name", EngineNameOf(v), "unknown", "warning")
            \/ \E x \in Named(read.volumes, EngineNameOf(v)) : f = Finding("volume-name", x.name, "problem", "warning")
      BY <2>1, <2>5, VolumeConflictIs
    <3>2. /\ v.external /\ Named(read.volumes, EngineNameOf(v)) = {} /\ ListProves(read, "volumes")
          /\ f = Finding("volume-name", EngineNameOf(v), "problem", "blocker")
      BY <3>1, FindingIs
    <3>3. PICK u \in used : u.d = v
      BY <2>1, <2>3, <3>2 DEF Upped, ReadIsUsed
    <3>4. read.observed["volumes"] = "complete" /\ v \notin plan.networks
      BY <2>1, <3>2 DEF ListProves, IsPlan, MountedVolumes
    <3>5. gained
      BY <3>2, <3>3, <3>4 DEF UsedIsRead, Named
    <3>6. QED
      BY <3>2, <3>5, FindingIs
  <2>6. ASSUME f \in NetworkNameConflicts(read)
        PROVE  f.rule = "network-name" /\ gained
    <3>1. PICK n \in plan.networks :
            \/ /\ n.external /\ Named(read.networks, EngineNameOf(n)) = {} /\ ListProves(read, "networks")
               /\ f = Finding("network-name", EngineNameOf(n), "problem", "blocker")
            \/ f = Finding("network-name", EngineNameOf(n), "unknown", "warning")
            \/ \E x \in Named(read.networks, EngineNameOf(n)) :
                 \/ x.swarm /\ x.attachable = "no" /\ f = Finding("network-name", x.name, "problem", "blocker")
                 \/ f \in {Finding("network-name", x.name, "unknown", "warning"),
                           Finding("network-name", x.name, "manual-check", "info"),
                           Finding("network-name", x.name, "problem", "warning")}
      BY <2>1, <2>6, NetworkConflictIs
    <3>2. CASE /\ n.external /\ Named(read.networks, EngineNameOf(n)) = {} /\ ListProves(read, "networks")
               /\ f = Finding("network-name", EngineNameOf(n), "problem", "blocker")
      <4>1. PICK u \in used : u.d = n
        BY <2>1, <2>3, <3>2 DEF Upped, ReadIsUsed
      <4>2. read.observed["networks"] = "complete" /\ n \notin MountedVolumes(plan)
        BY <2>1, <3>2 DEF ListProves, IsPlan, MountedVolumes
      <4>3. gained
        <5>1. SUFFICES ASSUME ~gained PROVE FALSE
          OBVIOUS
        <5>2. PICK r \in read.networks : RowOf(r, u.x)
          BY <4>1, <4>2, <5>1 DEF UsedIsRead
        <5>3. r.name = EngineNameOf(n)
          BY <4>1, <5>2 DEF UsedIsRead, RowOf
        <5>4. QED
          BY <3>2, <5>2, <5>3 DEF Named
      <4>4. QED
        BY <3>2, <4>3, FindingIs
    <3>3. ASSUME NEW x \in Named(read.networks, EngineNameOf(n)), x.swarm, x.attachable = "no"
          PROVE  FALSE
      <4>1. x \in read.networks /\ x.name = EngineNameOf(n)
        BY DEF Named
      <4>2. PICK w \in world.networks : x = w \/ x = Unread(w)
        BY <4>1 DEF Listing, ReadIsThere
      <4>3. IsNetwork(w)
        BY DEF Typed
      <4>4. x = w
        BY <3>3, <4>2, <4>3, UnreadIs
      <4>5. ClosedNetwork
        BY <3>3, <4>1, <4>4 DEF ClosedNetwork
      <4>6. up[s] \notin {"created", "replaced"}
        BY <2>1, <2>3, <4>5 DEF Upped, Done
      <4>7. up[s] = "kept"
        BY <2>2, <4>6 DEF Typed, Upped, Finished
      <4>8. \E m \in plan.networks : \E g \in Existing("networks", m) : g.swarm /\ g.attachable = "no"
        BY <3>3, <4>1, <4>4 DEF Existing, Named
      <4>9. QED
        BY <4>7, <4>8 DEF KeptBesideClosed
    <3>4. QED
      BY <3>1, <3>2, <3>3, FindingIs
  <2>7. f \notin SubnetOverlaps(read)
    <3>1. SUFFICES ASSUME f \in SubnetOverlaps(read) PROVE FALSE
      OBVIOUS
    <3>2. PICK n \in plan.networks, x \in read.networks :
            \E a \in n.subnets, b \in x.subnets :
              /\ ~Ours(read, x) /\ NetworksOverlap(a, b)
              /\ f = Finding("subnet", a, "problem", "blocker")
      BY <2>1, <3>1, SubnetConflictIs
    <3>3. n.subnets # {} /\ \E a \in n.subnets, b \in x.subnets : NetworksOverlap(a, b)
      BY <3>2
    <3>4. \A u \in used : ~(u.d = n /\ u.list = "networks")
      BY <3>3 DEF JoinedByName
    <3>5. \A a \in n.subnets : \A b \in x.subnets : ~NetworksOverlap(a, b)
      BY <2>1, <2>3, <3>4 DEF Upped, ReadIsUsed
    <3>6. QED
      BY <3>3, <3>5
  <2>8. f \notin ProjectOwnership(read)
    BY OwnershipIs, FindingIs
  <2>9. QED
    BY <2>1, <2>4, <2>5, <2>6, <2>7, <2>8 DEF Findings
<1>2. QED
  BY <1>1, TypedAlways, ListingAlways, ToldAlways, UsedAlways, UppedAlways, PTL

-----------------------------------------------------------------------------
(***************************************************************************)
(* A clear answer.                                                         *)
(***************************************************************************)

\* An outcome that is not "unknown", without a finding that is a problem, means that the
\* rule's verdict was not "unknown" either.
LEMMA DecidedIs ==
  ASSUME NEW fs, NEW verdict, \A f \in fs : f.outcome \in {"no-problem", "manual-check"},
         MostPressing({f.outcome : f \in fs} \cup {verdict}) # "unknown"
  PROVE  verdict # "unknown"
<1>1. SUFFICES ASSUME verdict = "unknown" PROVE FALSE
  OBVIOUS
<1>2. "unknown" \in {f.outcome : f \in fs} \cup {verdict} /\ "problem" \notin {f.outcome : f \in fs} \cup {verdict}
  BY <1>1
<1>3. QED
  BY <1>2, MostPressingIs

\* What a clear answer says of the lists.
ClearOf ==
  /\ Clear /\ NamesApart /\ ~gained /\ ~lost /\ ~PartialBesideExternal /\ ~RangeOfOurs

\* Then no verdict was "unknown" and every finding is harmless, whatever rule it is of.
LEMMA ClearDecided ==
  ASSUME Typed, ToldIs, Told, Clear
  PROVE  /\ \A f \in Findings(read) : f.outcome \in {"no-problem", "manual-check"}
         /\ AssessOwnership(read) # "unknown" /\ AssessNetworks(read) # "unknown" /\ AssessSubnets(read) # "unknown"
<1>1. told.findings = Findings(read) /\ told.outcomes = RuleOutcomes(read)
  BY DEF ToldIs
<1>2. \A f \in Findings(read) : f.outcome \in {"no-problem", "manual-check"}
  BY <1>1 DEF Clear
<1>3. RuleOutcomes(read) =
        [container |-> MostPressing({f.outcome : f \in ContainerNameConflicts(read)} \cup {AssessContainerNames(read)}),
         volume    |-> MostPressing({f.outcome : f \in VolumeNameConflicts(read)} \cup {AssessVolumes(read)}),
         network   |-> MostPressing({f.outcome : f \in NetworkNameConflicts(read)} \cup {AssessNetworks(read)}),
         subnet    |-> MostPressing({f.outcome : f \in SubnetOverlaps(read)} \cup {AssessSubnets(read)}),
         ownership |-> MostPressing({f.outcome : f \in ProjectOwnership(read)} \cup {AssessOwnership(read)}),
         architecture |-> AssessArchitecture(read)]
  BY DEF RuleOutcomes
<1>4. {"network", "subnet", "ownership"} \subseteq DOMAIN told.outcomes \ {"architecture"}
  BY <1>1, <1>3
<1>5. /\ told.outcomes["network"] # "unknown" /\ told.outcomes["subnet"] # "unknown"
      /\ told.outcomes["ownership"] # "unknown"
  BY <1>4 DEF Clear
<1>6. /\ MostPressing({f.outcome : f \in NetworkNameConflicts(read)} \cup {AssessNetworks(read)}) # "unknown"
      /\ MostPressing({f.outcome : f \in SubnetOverlaps(read)} \cup {AssessSubnets(read)}) # "unknown"
      /\ MostPressing({f.outcome : f \in ProjectOwnership(read)} \cup {AssessOwnership(read)}) # "unknown"
  BY <1>1, <1>3, <1>5
<1>7. AssessNetworks(read) # "unknown"
  BY <1>2, <1>6, DecidedIs DEF Findings
<1>8. AssessSubnets(read) # "unknown"
  BY <1>2, <1>6, DecidedIs DEF Findings
<1>9. AssessOwnership(read) # "unknown"
  BY <1>2, <1>6, DecidedIs DEF Findings
<1>10. QED
  BY <1>2, <1>7, <1>8, <1>9

\* Then nothing that is needed is missing, and no range that is needed is taken.
LEMMA ClearNotRefused ==
  ASSUME Typed, Listing, ToldIs, Told, ~Deployed, engine = "answers", ClearOf
  PROVE  ~Refused
<1>1. /\ \A f \in Findings(read) : f.outcome \in {"no-problem", "manual-check"}
      /\ AssessSubnets(read) # "unknown"
  BY ClearDecided DEF ClearOf
<1>2. read.runtime = "answers" /\ read.plan = plan /\ \A n \in world.networks : IsNetwork(n)
  BY DEF Typed, Told
<1>3. \A v \in MountedVolumes(plan) : v.external => Existing("volumes", v) # {}
  <2>1. SUFFICES ASSUME NEW v \in MountedVolumes(plan), v.external, Existing("volumes", v) = {} PROVE FALSE
    OBVIOUS
  <2>2. ListProves(read, "volumes")
    BY <2>1 DEF ClearOf, PartialBesideExternal
  <2>3. Named(read.volumes, EngineNameOf(v)) = {}
    BY <2>1 DEF ClearOf, Listing, ReadIsThere, Existing, Named
  <2>4. Finding("volume-name", EngineNameOf(v), "problem", "blocker") \in VolumeNameConflicts(read)
    BY <1>2, <2>1, <2>2, <2>3 DEF VolumeNameConflicts, AbsentVolume
  <2>5. QED
    BY <1>1, <2>4, FindingIs DEF Findings
<1>4. \A n \in plan.networks : n.external => Existing("networks", n) # {}
  <2>1. SUFFICES ASSUME NEW n \in plan.networks, n.external, Existing("networks", n) = {} PROVE FALSE
    OBVIOUS
  <2>2. ListProves(read, "networks")
    BY <2>1 DEF ClearOf, PartialBesideExternal
  <2>3. Named(read.networks, EngineNameOf(n)) = {}
    <3>1. SUFFICES ASSUME NEW f \in read.networks, f.name = EngineNameOf(n) PROVE FALSE
      BY DEF Named
    <3>2. PICK x \in world.networks : f = x \/ f = Unread(x)
      BY DEF ClearOf, Listing, ReadIsThere
    <3>3. x.name = EngineNameOf(n)
      BY <1>2, <3>1, <3>2, UnreadIs
    <3>4. QED
      BY <2>1, <3>3 DEF Existing, Named
  <2>4. Finding("network-name", EngineNameOf(n), "problem", "blocker") \in NetworkNameConflicts(read)
    BY <1>2, <2>1, <2>2, <2>3 DEF NetworkNameConflicts, AbsentNetwork
  <2>5. QED
    BY <1>1, <2>4, FindingIs DEF Findings
<1>5. ASSUME NEW n \in plan.networks, Existing("networks", n) = {}, NEW f \in world.networks, NEW a \in n.subnets,
             NEW b \in f.subnets, NetworksOverlap(a, b)
      PROVE  FALSE
  <2>1. a \in PlannedSubnets(plan)
    BY DEF PlannedSubnets
  <2>2. ListProves(read, "networks") /\ ListProves(read, "subnets")
    BY <1>1, <1>2, <2>1 DEF AssessSubnets
  <2>3. f \in read.networks
    BY <1>2, <2>2 DEF ClearOf, Listing, ThereIsRead, ListProves
  <2>4. Ours(read, f)
    <3>1. SUFFICES ASSUME ~Ours(read, f) PROVE FALSE
      OBVIOUS
    <3>2. Finding("subnet", a, "problem", "blocker") \in SubnetOverlaps(read)
      BY <1>2, <1>5, <2>1, <2>3, <3>1 DEF SubnetOverlaps
    <3>3. QED
      BY <1>1, <3>2, FindingIs DEF Findings
  <2>5. f.name # EngineNameOf(n)
    BY <1>5 DEF Existing, Named
  <2>6. RangeOfOurs
    BY <1>5, <2>3, <2>4, <2>5 DEF RangeOfOurs
  <2>7. QED
    BY <2>6 DEF ClearOf
<1>6. QED
  BY <1>3, <1>4, <1>5 DEF Refused

\* No network of the plan turns a container away.
LEMMA ClearNotClosed ==
  ASSUME Typed, ToldIs, Upped, Told, Deployed, ClearOf
  PROVE  ~ClosedNetwork
<1>1. SUFFICES ASSUME NEW n \in plan.networks, NEW x \in world.networks, x.name = EngineNameOf(n), x.swarm,
                      x.attachable = "no"
               PROVE  FALSE
  BY DEF ClosedNetwork
<1>2. /\ \A f \in Findings(read) : f.outcome \in {"no-problem", "manual-check"}
      /\ AssessNetworks(read) # "unknown"
  BY ClearDecided DEF ClearOf
<1>3. read.runtime = "answers" /\ read.plan = plan /\ IsNetwork(x)
  BY DEF Typed, Deployed
<1>4. ListProves(read, "networks")
  BY <1>2, <1>3 DEF AssessNetworks, ClearOf, PartialBesideExternal
<1>5. x \in read.networks \/ Unread(x) \in read.networks
  BY <1>1, <1>3, <1>4 DEF ClearOf, Upped, ClosedIsRead, ListProves
<1>6. PICK r \in read.networks : r.name = x.name /\ r.swarm /\ r.attachable \in {"no", ""}
  BY <1>1, <1>3, <1>5, UnreadIs
<1>7. r \in Named(read.networks, EngineNameOf(n))
  BY <1>1, <1>6 DEF Named
<1>8. \/ PresentNetwork(read, n, r) = {Finding("network-name", r.name, "problem", "blocker")}
      \/ PresentNetwork(read, n, r) = {Finding("network-name", r.name, "unknown", "warning")}
  BY <1>6 DEF PresentNetwork
<1>9. PresentNetwork(read, n, r) \subseteq NetworkNameConflicts(read)
  BY <1>3, <1>7 DEF NetworkNameConflicts
<1>10. QED
  BY <1>2, <1>8, <1>9, FindingIs DEF Findings

\* The name of a service is its own or free.
LEMMA ClearNotTaken ==
  ASSUME Typed, Listing, ToldIs, Upped, Told, Deployed, ClearOf, NEW s \in plan.services, up[s] = "pending",
         NEW c \in Rest(s), c.name = ContainerNameOf(plan, s)
  PROVE  FALSE
<1>1. /\ \A f \in Findings(read) : f.outcome \in {"no-problem", "manual-check"}
      /\ AssessOwnership(read) # "unknown"
  BY ClearDecided DEF ClearOf
<1>2. read.runtime = "answers" /\ read.plan = plan /\ IsPlan(plan)
  BY DEF Typed, Deployed
<1>3. c \in world.containers /\ ~Own(c, s)
  BY DEF Rest
<1>4. c \in read.containers
  <2>1. read.observed["containers"] = "complete"
    BY <1>1, <1>2 DEF AssessOwnership, ListProves
  <2>2. c \in read.containers \/ \E t \in plan.services : up[t] # "pending" /\ c = Made(t)
    BY <1>3, <2>1 DEF ClearOf, Upped, MadeOrRead
  <2>3. ASSUME NEW t \in plan.services, up[t] # "pending"
        PROVE  c # Made(t)
    <3>1. Made(t).name = ContainerNameOf(plan, t)
      BY <1>2, MadeIs
    <3>2. ContainerNameOf(plan, s) # ContainerNameOf(plan, t)
      BY <2>3 DEF ClearOf, NamesApart
    <3>3. QED
      BY <3>1, <3>2
  <2>4. QED
    BY <2>2, <2>3
<1>5. IsContainer(c) /\ NamesDiffer(read.containers)
  BY <1>4 DEF Listing, ReadContainers
<1>6. ContainerRow(read, s) = RowWord(read, s, c)
  <2>1. c \in Named(read.containers, ContainerNameOf(plan, s))
    BY <1>4 DEF Named
  <2>2. PICK d \in Named(read.containers, ContainerNameOf(plan, s)) : ContainerRow(read, s) = RowWord(read, s, d)
    BY <1>2, <1>5, <2>1, RowIs
  <2>3. d = c
    BY <1>5, <2>1, <2>2 DEF Named, NamesDiffer
  <2>4. QED
    BY <2>2, <2>3
<1>7. RowWord(read, s, c) # "not created"
  BY <1>6 DEF ClearOf, Clear
<1>8. ~OwnService(read, s, c) /\ ~(OwnerOf(plan, c) = "other-checkout" /\ c.service = s)
  BY <1>3, <1>5, OwnServiceIs
<1>9. OwnerOf(plan, c) = "unlabelled"
  BY <1>2, <1>7, <1>8 DEF RowWord
<1>10. Finding("ownership", "unlabelled", "unknown", "warning") \in ProjectOwnership(read)
  BY <1>2, <1>4, <1>9 DEF ProjectOwnership
<1>11. QED
  BY <1>1, <1>10, FindingIs DEF Findings

\* ClearIsReal: when everything was read well enough to be settled in the plan's favour,
\* every service comes up, unless something is put in its way or removed meanwhile.
THEOREM ClearReal == Spec => []ClearIsReal
<1>1. Typed /\ ~Deployed => ClearIsReal
  <2> SUFFICES ASSUME Typed, ~Deployed PROVE \A s \in plan.services : up[s] # "failed"
    BY DEF ClearIsReal
  <2>1. QED
    BY DEF Typed
<1>2. Init => ClearIsReal
  BY DEF Init, ClearIsReal, Told
<1>3. Typed /\ Typed' /\ Listing /\ ToldIs /\ Upped /\ ClearIsReal /\ [Next]_vars => ClearIsReal'
  <2> SUFFICES ASSUME Typed, Typed', Listing, ToldIs, Upped, ClearIsReal, [Next]_vars PROVE ClearIsReal'
    OBVIOUS
  <2>1. ~Deployed' => ClearIsReal'
    BY DEF Typed, Deployed, ClearIsReal
  <2>2. CASE Reads
    BY <2>1, <2>2, ReadsLeave DEF Deployed
  <2>3. CASE Judge \/ Appears \/ Disappears
    <3>1. ~Deployed'
      BY <2>3 DEF Judge, Appears, Disappears, Running, Deployed
    <3>2. QED
      BY <2>1, <3>1
  <2>4. CASE Prepare
    <3>1. UNCHANGED <<plan, read, told, gained, lost>> /\ phase = "up" /\ engine = "answers"
      BY <2>4 DEF Prepare
    <3>2. ~Deployed /\ Told
      BY <3>1 DEF Deployed, Told
    <3>3. SUFFICES ASSUME ClearOf PROVE \A s \in plan.services : up'[s] # "failed"
      BY <3>1 DEF ClearIsReal, ClearOf, Clear, NamesApart, PartialBesideExternal, RangeOfOurs
    <3>4. ~Refused
      BY <3>1, <3>2, <3>3, ClearNotRefused
    <3>5. up' = up
      BY <2>4, <3>4, PrepareDoes DEF Typed
    <3>6. QED
      BY <3>2, <3>5 DEF Typed
  <2>5. CASE \E s \in plan.services : Converge(s)
    <3>1. PICK s \in plan.services : Converge(s)
      BY <2>5
    <3>2. UNCHANGED <<plan, read, told, gained, lost>> /\ phase = "converge" /\ up[s] = "pending"
      BY <3>1 DEF Converge
    <3>3. Deployed /\ Told
      BY <3>2 DEF Deployed, Told
    <3>4. SUFFICES ASSUME ClearOf PROVE \A t \in plan.services : up'[t] # "failed"
      BY <3>2 DEF ClearIsReal, ClearOf, Clear, NamesApart, PartialBesideExternal, RangeOfOurs
    <3>5. \A t \in plan.services : up[t] # "failed"
      BY <3>3, <3>4 DEF ClearIsReal, ClearOf
    <3>6. ~ClosedNetwork
      BY <3>3, <3>4, ClearNotClosed
    <3>7. \A c \in Rest(s) : c.name # ContainerNameOf(plan, s)
      BY <3>2, <3>3, <3>4, ClearNotTaken
    <3>8. up' = [up EXCEPT ![s] = "kept"] \/ up' = [up EXCEPT ![s] = "created"] \/ up' = [up EXCEPT ![s] = "replaced"]
      BY <3>1, <3>6, <3>7, ConvergeDoes DEF Typed
    <3>9. QED
      BY <3>5, <3>8 DEF Typed
  <2>6. CASE UNCHANGED vars
    BY <2>6 DEF vars, ClearIsReal, Told, Clear, NamesApart, PartialBesideExternal, RangeOfOurs
  <2>7. QED
    BY <2>2, <2>3, <2>4, <2>5, <2>6, Steps
<1>4. QED
  BY <1>2, <1>3, TypedAlways, ListingAlways, ToldAlways, UppedAlways, PTL DEF Spec
=============================================================================

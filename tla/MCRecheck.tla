------------------------------ MODULE MCRecheck ------------------------------
(***************************************************************************)
(* Two services, one of which needs the other or sits in a profile; an     *)
(* edit of a requirement, of an environment value, of a dependency; the    *)
(* commands that select services, activate the profile or remove orphans.  *)
(***************************************************************************)
EXTENDS Recheck, TLC

CONSTANTS web, db, debug, i1, i2, v1, v2, shop, here

Service(image, needs, profile, values) ==
  [image |-> image, needs |-> needs, profile |-> profile, values |-> values]

Both(w, d) == [name |-> shop, services |-> [s \in {web, db} |-> IF s = web THEN w ELSE d]]

SomeFiles ==
  {Both(Service(i1, {db}, None, v1), Service(i1, {}, None, v1)),
   Both(Service(i1, {db}, None, v1), Service(i2, {}, None, v1)),
   Both(Service(i1, {db}, None, v2), Service(i1, {}, None, v1)),
   Both(Service(i1, {}, None, v1), Service(i1, {}, debug, v1)),
   Broken}

Command(services, profiles, project, removeOrphans) ==
  [services |-> services, profiles |-> profiles, project |-> project, removeOrphans |-> removeOrphans,
   forceRecreate |-> FALSE, noRecreate |-> FALSE]

SomeCommands ==
  {Command({}, {}, None, FALSE), Command({web}, {}, None, FALSE), Command({}, {debug}, shop, FALSE)}

OrphanCommands == {Command({}, {}, None, o) : o \in BOOLEAN}

\* A container of a service the files no longer have.
Orphan ==
  [labelled |-> TRUE, project |-> shop, service |-> "gone", dir |-> here, oneOff |-> FALSE, hash |-> None]

NoContainers == {}

Orphans == {Orphan}

Symmetry == Permutations(Engines)
=============================================================================

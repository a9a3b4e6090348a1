------------------------------ MODULE Ownership ------------------------------
(***************************************************************************)
(* Whose an existing container is, and what the planned `up` does to it:   *)
(* app/witness/ownership.go.                                               *)
(*                                                                         *)
(* A container is seen through what the engine lists: the labels Compose   *)
(* wrote on it (project, service, working_dir, one-off, config hash), each *)
(* None when absent, and whether labels were reported at all.  The plan is *)
(* the planned run: its project, directory, services and `up` options.     *)
(***************************************************************************)

CONSTANT None       \* an empty label, directory or hash

SameProject(plan, c) == c.project # None /\ c.project = plan.project

SameDirectory(plan, dir)      == plan.dir # None /\ dir # None /\ plan.dir = dir
DifferentDirectory(plan, dir) == plan.dir # None /\ dir # None /\ plan.dir # dir

\* A container without a service label is given the benefit of the doubt.
PlannedService(plan, service) == service = None \/ service \in plan.services

OwnerOf(plan, c) ==
  IF ~c.labelled /\ c.project = None /\ c.service = None THEN "unlabelled"
  ELSE IF c.project = None THEN "unmanaged"
  ELSE IF SameProject(plan, c) THEN
    IF c.oneOff THEN "one-off"
    ELSE IF DifferentDirectory(plan, c.dir) THEN "other-checkout"
    ELSE IF ~PlannedService(plan, c.service) THEN "orphan"
    ELSE "service"
  ELSE IF SameDirectory(plan, c.dir) THEN "renamed"
  ELSE "foreign"

\* What the tool holds `up` to release before it starts the plan's containers.
Released(plan, c) ==
  \/ OwnerOf(plan, c) \in {"other-checkout", "service"}
  \/ OwnerOf(plan, c) = "orphan" /\ plan.removeOrphans

\* Mutant: --force-recreate is forgotten.
ComposeActionUnforced(plan, c) ==
  IF plan.noRecreate THEN "kept"
  ELSE IF c.service \notin DOMAIN plan.hashes \/ c.hash = None THEN "either"
  ELSE IF plan.hashes[c.service] = c.hash THEN "kept"
  ELSE "recreated"

\* Keep or recreate, by the configuration hash; "either" when it cannot be compared.
ComposeAction(plan, c) ==
  IF plan.forceRecreate THEN "recreated"
  ELSE IF plan.noRecreate THEN "kept"
  ELSE IF c.service \notin DOMAIN plan.hashes \/ c.hash = None THEN "either"
  ELSE IF plan.hashes[c.service] = c.hash THEN "kept"
  ELSE "recreated"

\* The action words of ownerOf.
Action(plan, c) ==
  LET kind == OwnerOf(plan, c)
  IN  IF kind = "service" THEN ComposeAction(plan, c)
      ELSE IF kind = "other-checkout" THEN "taken over"
      ELSE IF kind = "orphan" /\ plan.removeOrphans THEN "removed"
      ELSE "left"
=============================================================================

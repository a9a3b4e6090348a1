------------------------------- MODULE Recheck -------------------------------
(***************************************************************************)
(* A preflight and, later, `--recheck` of its report before deploying:     *)
(* app/audit/plan.go, provenance.go and recheck.go.                        *)
(*                                                                         *)
(* The audit reads the plan's files several times (once to resolve them,   *)
(* once for the configuration hashes), observes the host, and stamps its   *)
(* report with the plan's digest, the engine's ID and the second it ended. *)
(* The recheck resolves the plan again and compares.  Meanwhile files are  *)
(* edited, the engine is reinstalled, the tool is updated, Compose comes   *)
(* and goes, and the host's clock ticks and is set.                        *)
(*                                                                         *)
(* A digest is a hash taken for injective: it is the record it hashes.     *)
(* Bounds: one report, one recheck, after which nothing happens; MaxClock, *)
(* MaxChanges and MaxEvents.                                               *)
(***************************************************************************)
EXTENDS Integers, FiniteSets

CONSTANTS
  None,            \* no value; an engine that does not identify itself
  Broken,          \* files that are not a Compose file
  Remote,          \* an engine on another machine
  Files,           \* what the plan's files can hold
  Engines,         \* the IDs of the engines on this host
  Commands,        \* what an engineer types (CommandsTyped)
  Containers,      \* the containers on the host, as Ownership sees them
  Dir,             \* the project's directory
  Second,          \* ticks in a second, the resolution of the report's times
  MaxAge,          \* --max-age
  MaxSpan,         \* maxObservationSpan
  MaxClock,        \* bound: the last tick of the clock
  MaxChanges,      \* bound: changes of the host
  MaxEvents        \* bound: ticks that pass and changes of the host together

Own == INSTANCE Ownership

ASSUME TimesAreCounts ==
  /\ Second \in Nat \ {0}
  /\ {MaxAge, MaxSpan, MaxClock, MaxChanges, MaxEvents} \subseteq Nat
  /\ Second - 1 <= MaxClock       \* the first tick is any of its second

\* A command carries the options of `up`.
ASSUME CommandsTyped ==
  \A c \in Commands : {c.removeOrphans, c.forceRecreate, c.noRecreate} \subseteq BOOLEAN

VARIABLES
  files, engine, compose, build,  \* the plan's files, the local engine, is Compose here, the rules of this build
  clock, elapsed,                 \* the host's clock; the time that really passed
  changes,                        \* how often the host changed
  pc, command,                    \* the invocation that runs, and what was typed
  plan, startedAt, seen,          \* Auditor: plan, startedAt, the observations' times
  id, timely,                     \* the engine's ID as observed; are the clocks synchronized
  report,                         \* the report.json that is held
  now, verdict                    \* Recheck: when it was called; how it came out

host == <<files, engine, compose, build, changes>>
time == <<clock, elapsed>>
audit == <<plan, startedAt, seen, id, timely>>
vars == <<host, time, pc, command, audit, report, now, verdict>>

-----------------------------------------------------------------------------
(***************************************************************************)
(* Resolving a plan.                                                       *)
(***************************************************************************)

\* The services `docker compose config` prints: those of no profile, or of an active one.
Active(f, profiles) == {s \in DOMAIN f.services : f.services[s].profile \in profiles \cup {None}}

\* Environment values, inline or from env_file, have no place in the manifest.
Requirements(f, names) ==
  [s \in names |-> [image |-> f.services[s].image, needs |-> f.services[s].needs]]

\* selectServices: the named services and everything they depend on.
Wanted(services, named) ==
  LET all    == (UNION {services[s].needs : s \in DOMAIN services}) \cup (DOMAIN services) \cup named
      closed == {T \in SUBSET all : named \subseteq T /\ \A s \in T \cap DOMAIN services : services[s].needs \subseteq T}
  IN  IF named = {} THEN DOMAIN services ELSE {s \in all : \A T \in closed : s \in T}

\* The manifest of the planned run: by Compose, or by the built-in parser, which knows no profiles.
Manifest(f, cmd, byCompose) ==
  LET services == Requirements(f, IF byCompose THEN Active(f, cmd.profiles) ELSE DOMAIN f.services)
      started  == Wanted(services, cmd.services)
  IN  [name |-> f.name, missing |-> started \ DOMAIN services,
       services |-> [s \in started \cap DOMAIN services |-> services[s]]]

Project(f, cmd) == IF cmd.project = None THEN f.name ELSE cmd.project

\* Mutant: the plan is hashed by what the command selects, not by what it resolves to.
PlanDigestByCommand(f, cmd, manifest) ==
  [project |-> Project(f, cmd), profiles |-> cmd.profiles, started |-> DOMAIN manifest.services]

PlanDigest(f, cmd, manifest) ==
  [manifest |-> [name |-> manifest.name, services |-> manifest.services],
   project |-> Project(f, cmd), profiles |-> cmd.profiles, started |-> DOMAIN manifest.services]

\* A plan Compose rejects, that is not a Compose file, that runs elsewhere, or
\* that only Compose could resolve, stops the run.
Refused(answers) ==
  \/ engine = Remote
  \/ files = Broken
  \/ IF compose THEN ~answers ELSE command.profiles # {}
  \/ Manifest(files, command, compose).missing # {}

\* The launch plan without its configuration hashes, in Ownership's terms.
Resolved ==
  LET manifest == Manifest(files, command, compose)
  IN  [digest |-> PlanDigest(files, command, manifest),
       project |-> Project(files, command), dir |-> Dir, services |-> DOMAIN manifest.services,
       hashes |-> <<>>, removeOrphans |-> command.removeOrphans,
       forceRecreate |-> command.forceRecreate, noRecreate |-> command.noRecreate,
       byCompose |-> compose, files |-> files, resolvedAt |-> clock]

\* `docker compose config --hash`: Compose hashes the whole service, values included.
ConfigHashes(f) == [s \in DOMAIN f.services |-> f.services[s]]

-----------------------------------------------------------------------------
(***************************************************************************)
(* The audit.                                                              *)
(***************************************************************************)

Stamp(t) == t - (t % Second)

Prepare(cmd) ==
  /\ pc = "idle" /\ report = None /\ verdict = "none"
  /\ pc' = "resolve" /\ command' = cmd /\ startedAt' = clock
  /\ UNCHANGED <<host, time, plan, seen, id, timely, report, now, verdict>>

\* Mutant: a refused plan does not stop the run.
ResolveUnchecked ==
  /\ pc = "resolve" /\ pc' = "hash"
  /\ \E answers \in BOOLEAN : plan' = IF Refused(answers) THEN plan ELSE Resolved
  /\ UNCHANGED <<host, time, command, startedAt, seen, id, timely, report, now, verdict>>

Resolve ==
  /\ pc = "resolve"
  /\ \E answers \in BOOLEAN :
       IF Refused(answers) THEN pc' = "idle" /\ UNCHANGED plan
       ELSE pc' = "hash" /\ plan' = Resolved
  /\ UNCHANGED <<host, time, command, startedAt, seen, id, timely, report, now, verdict>>

\* The hashes are another run of Compose, over the files as they are by then; the
\* plan is only now stamped as resolved.
Hash ==
  /\ pc = "hash"
  /\ \E answers \in BOOLEAN :
       plan' = [plan EXCEPT !.hashes = IF plan.byCompose /\ answers /\ files # Broken THEN ConfigHashes(files) ELSE <<>>,
                            !.resolvedAt = Stamp(clock)]
  /\ pc' = "ports"
  /\ UNCHANGED <<host, time, command, startedAt, seen, id, timely, report, now, verdict>>

ReadPorts ==
  /\ pc = "ports"
  /\ seen' = {Stamp(clock)}
  /\ pc' = "engine"
  /\ UNCHANGED <<host, time, command, plan, startedAt, id, timely, report, now, verdict>>

\* The engine may not identify itself; its clock and timedatectl are asked too.
InspectEngine ==
  /\ pc = "engine"
  /\ id' \in {engine, None} /\ timely' \in BOOLEAN
  /\ seen' = seen \cup {Stamp(clock)}
  /\ pc' = "finish"
  /\ UNCHANGED <<host, time, command, plan, startedAt, report, now, verdict>>

\* Mutant: the times are compared with a run of full resolution.
OutsideStrictly(at, finished) == at < startedAt \/ at > finished

Outside(at, finished) == at < startedAt - Second \/ at > finished + Second

TimeChecks(finished) ==
  \/ finished < startedAt
  \/ \E at \in seen \cup {plan.resolvedAt} : Outside(at, finished)
  \/ ~timely
  \/ \E from, until \in seen : until - from > MaxSpan

\* What the report says `up` does to each container; hashes are those it compared.
Announced(hashes) == [c \in Containers |-> Own!Action([plan EXCEPT !.hashes = hashes], c)]

\* The audit's process ends with its report.  files, command, timely, at, drift and took record what
\* really happened: what the audit read, when it ended, how far the clock was off by
\* then, and how long it took by the clock.
Finish ==
  /\ pc = "finish"
  /\ report' = [digest |-> plan.digest, engine |-> id, finished |-> Stamp(clock), rules |-> build,
                checks |-> TimeChecks(clock), announced |-> Announced(plan.hashes),
                byCompose |-> plan.byCompose, files |-> plan.files, command |-> command,
                timely |-> timely, at |-> elapsed, drift |-> clock - elapsed, took |-> clock - startedAt]
  /\ pc' = "idle"
  /\ plan' = None /\ startedAt' = 0 /\ seen' = {} /\ id' = None /\ timely' = TRUE
  /\ UNCHANGED <<host, time, command, now, verdict>>

-----------------------------------------------------------------------------
(***************************************************************************)
(* The recheck.                                                            *)
(***************************************************************************)

\* The report is read and the clock looked at before the plan is resolved again.
BeginRecheck(cmd) ==
  /\ pc = "idle" /\ verdict = "none"
  /\ IF report = None THEN pc' = "idle" /\ verdict' = "error" ELSE pc' = "again" /\ UNCHANGED verdict
  /\ command' = cmd
  /\ now' = [clock |-> clock, at |-> elapsed, drift |-> clock - elapsed, by |-> changes]
  /\ UNCHANGED <<host, time, audit, report>>

ResolveAgain ==
  /\ pc = "again"
  /\ \E answers \in BOOLEAN :
       IF Refused(answers) THEN pc' = "idle" /\ verdict' = "error" /\ UNCHANGED plan
       ELSE pc' = "judge" /\ plan' = Resolved /\ UNCHANGED verdict
  /\ UNCHANGED <<host, time, command, startedAt, seen, id, timely, report, now>>

EngineHeld(answered) == report.engine # None /\ answered # None /\ answered = report.engine

Younger(age) == IF age < Second THEN Second ELSE age

\* Mutant: the age that is compared is the one that is shown, in whole seconds.
AgeHeldShown == now.clock >= report.finished /\ Stamp(Younger(now.clock - report.finished)) <= MaxAge

AgeHeld == now.clock >= report.finished /\ Younger(now.clock - report.finished) <= MaxAge

Judge ==
  /\ pc = "judge"
  /\ id' \in {engine, None}
  /\ verdict' = IF /\ plan.digest = report.digest
                   /\ EngineHeld(id')
                   /\ AgeHeld
                   /\ report.rules = build
                   /\ ~report.checks
                THEN "confirmed" ELSE "rerun"
  /\ pc' = "idle"
  /\ UNCHANGED <<host, time, command, plan, startedAt, seen, timely, report, now>>

-----------------------------------------------------------------------------
(***************************************************************************)
(* The host.                                                               *)
(***************************************************************************)

Change ==
  /\ verdict = "none"
  /\ changes < MaxChanges /\ elapsed + changes < MaxEvents
  /\ changes' = changes + 1
  /\ \/ files' \in Files \ {files} /\ UNCHANGED <<engine, compose, build>>
     \/ engine' \in (Engines \cup {Remote}) \ {engine} /\ UNCHANGED <<files, compose, build>>
     \/ compose' = ~compose /\ UNCHANGED <<files, engine, build>>
     \/ build' = build + 1 /\ UNCHANGED <<files, engine, compose>>
  /\ UNCHANGED <<time, pc, command, audit, report, now, verdict>>

Tick ==
  /\ verdict = "none"
  /\ clock < MaxClock /\ elapsed + changes < MaxEvents
  /\ clock' = clock + 1 /\ elapsed' = elapsed + 1
  /\ UNCHANGED <<host, pc, command, audit, report, now, verdict>>

SetClock ==
  /\ verdict = "none"
  /\ changes < MaxChanges /\ elapsed + changes < MaxEvents
  /\ changes' = changes + 1
  /\ clock' \in (0 .. MaxClock) \ {clock}
  /\ UNCHANGED <<files, engine, compose, build, elapsed, pc, command, audit, report, now, verdict>>

Init ==
  /\ files \in Files /\ engine \in Engines /\ compose \in BOOLEAN /\ build = 1
  /\ clock \in 0 .. Second - 1 /\ elapsed = 0 /\ changes = 0
  /\ pc = "idle" /\ command \in Commands
  /\ plan = None /\ startedAt = 0 /\ seen = {} /\ id = None /\ timely = TRUE
  /\ report = None /\ now = None /\ verdict = "none"

Next ==
  \/ \E cmd \in Commands : Prepare(cmd) \/ BeginRecheck(cmd)
  \/ Resolve \/ Hash \/ ReadPorts \/ InspectEngine \/ Finish
  \/ ResolveAgain \/ Judge
  \/ Change \/ Tick \/ SetClock

Spec == Init /\ [][Next]_vars

-----------------------------------------------------------------------------
(***************************************************************************)
(* Properties.                                                             *)
(***************************************************************************)

\* What a plan, a report and the recheck's look at the clock are made of.
Resolvable == (Files \ {Broken}) \X Commands \X BOOLEAN

Plans ==
  [digest : {PlanDigest(r[1], r[2], Manifest(r[1], r[2], r[3])) : r \in Resolvable},
   project : {Project(r[1], r[2]) : r \in Resolvable}, dir : {Dir},
   services : {DOMAIN Manifest(r[1], r[2], r[3]).services : r \in Resolvable},
   hashes : {<<>>} \cup {ConfigHashes(f) : f \in Files \ {Broken}},
   removeOrphans : BOOLEAN, forceRecreate : BOOLEAN, noRecreate : BOOLEAN,
   byCompose : BOOLEAN, files : Files \ {Broken}, resolvedAt : 0 .. MaxClock]

Actions == {"kept", "recreated", "either", "taken over", "removed", "left"}

Reports ==
  [digest : {PlanDigest(r[1], r[2], Manifest(r[1], r[2], r[3])) : r \in Resolvable},
   engine : Engines \cup {Remote, None}, finished : 0 .. MaxClock, rules : Nat, checks : BOOLEAN,
   announced : [Containers -> Actions], byCompose : BOOLEAN, files : Files \ {Broken}, command : Commands,
   timely : BOOLEAN, at : 0 .. MaxEvents, drift : Int, took : Int]

Looks == [clock : 0 .. MaxClock, at : 0 .. MaxEvents, drift : Int, by : 0 .. MaxChanges]

ASSUME NoneIsNoValue == None \notin Plans \cup Reports \cup Looks

\* Type correctness.
TypeOK ==
  /\ files \in Files /\ engine \in Engines \cup {Remote} /\ compose \in BOOLEAN /\ build \in Nat
  /\ clock \in 0 .. MaxClock /\ elapsed \in 0 .. MaxEvents /\ changes \in 0 .. MaxChanges
  /\ pc \in {"idle", "resolve", "hash", "ports", "engine", "finish", "again", "judge"}
  /\ command \in Commands
  /\ plan \in Plans \cup {None} /\ report \in Reports \cup {None} /\ now \in Looks \cup {None}
  /\ startedAt \in 0 .. MaxClock /\ seen \subseteq 0 .. MaxClock
  /\ id \in Engines \cup {Remote, None} /\ timely \in BOOLEAN
  /\ verdict \in {"none", "confirmed", "rerun", "error"}
  /\ pc \in {"hash", "ports", "engine", "finish", "judge"} => plan # None
  /\ pc \in {"again", "judge"} => now # None /\ report # None

\* What `up` would run.
Runs(f, cmd) == [project |-> Project(f, cmd), services |-> Manifest(f, cmd, TRUE).services]

\* A confirmed report was made about the run that follows: the same services of the
\* same project with the same requirements, on the same engine, when nothing changed
\* since the recheck began and Compose resolved both plans.
ConfirmedIsTheRun ==
  verdict = "confirmed" /\ changes = now.by /\ plan.byCompose /\ report.byCompose =>
    /\ Runs(files, command) = Runs(report.files, report.command)
    /\ report.engine = engine

\* A confirmed report is no older than --max-age: the time that passed between the end
\* of the audit and the recheck exceeds it by no more than the clock was set back.
ConfirmedIsFresh ==
  verdict = "confirmed" => now.at - report.at <= MaxAge + (report.drift - now.drift)

\* The gate does not refuse for nothing: with the host unchanged, its clocks and its
\* engine answering and the command typed again, only an audit or a wait that was too
\* long (to within the second of the recorded times) asks for a new preflight.
UnchangedIsConfirmed ==
  verdict = "rerun" /\ changes = 0 /\ command = report.command /\ report.timely /\ id # None /\ report.engine # None =>
    \/ now.at - report.at + Second > MaxAge
    \/ report.took + Second > MaxSpan

\* A confirmed report announced what `up` does to each container of the host.
ConfirmedActsTheSame ==
  verdict = "confirmed" /\ changes = now.by =>
    \A c \in Containers : report.announced[c] \in {"either", Announced(ConfigHashes(files))[c]}
=============================================================================

--------------------------- MODULE Recheck_proofs ---------------------------
(***************************************************************************)
(* Whatever the files, commands, engines and times: a confirmed report is  *)
(* about the run that follows, and is fresh; and an unchanged host is not  *)
(* refused for nothing.                                                    *)
(*                                                                         *)
(* The inductive invariant says of each step of the two processes what it  *)
(* has established so far: a report is stamped no later than the clock     *)
(* read when it was written, its digest is that of the plan the audit      *)
(* resolved, and the recheck compares a plan resolved since it began.      *)
(* For the last property it says in addition that what the recheck has met *)
(* so far, on a host where nothing changed, is what the audit met.         *)
(***************************************************************************)
EXTENDS Recheck, TLAPS

DigestOf(f, cmd, byCompose) == PlanDigest(f, cmd, Manifest(f, cmd, byCompose))

PlanSound(cmd) ==
  /\ {"digest", "byCompose", "files", "resolvedAt"} \subseteq DOMAIN plan
  /\ plan.byCompose \in BOOLEAN
  /\ plan.digest = DigestOf(plan.files, cmd, plan.byCompose)

ReportSound ==
  /\ report.finished \in Int /\ report.at \in Int /\ report.drift \in Int
  /\ report.finished <= report.at + report.drift
  /\ report.byCompose \in BOOLEAN
  /\ report.digest = DigestOf(report.files, report.command, report.byCompose)

NowSound ==
  /\ now.clock \in Int /\ now.at \in Int /\ now.drift \in Int /\ now.by \in Int
  /\ now.clock = now.at + now.drift
  /\ now.by <= changes

\* The inductive invariant.
Held ==
  /\ clock \in Int /\ elapsed \in Int /\ changes \in Int /\ compose \in BOOLEAN
  /\ report # None => ReportSound
  /\ pc \in {"hash", "ports", "engine", "finish", "judge"} => PlanSound(command)
  /\ pc \in {"again", "judge"} => NowSound /\ ReportSound
  /\ pc = "judge" /\ changes = now.by => plan.files = files
  /\ pc # "idle" => verdict = "none"
  /\ ConfirmedIsFresh
  /\ ConfirmedIsTheRun

\* A recorded time is no later than the time it records (audit/provenance.go stamp).
LEMMA StampTruncates ==
  ASSUME NEW t \in Int
  PROVE  Stamp(t) \in Int /\ Stamp(t) <= t
<1>1. Second \in Int /\ Second > 0
  BY TimesAreCounts
<1>2. t % Second \in 0 .. Second - 1
  BY <1>1
<1> QED
  BY <1>2 DEF Stamp

\* The run a digest of a plan resolved by Compose tells (audit/plan.go PlanDigest).
RunOf(digest) == [project |-> digest.project, services |-> digest.manifest.services]

\* Equal digests tell equal runs.
LEMMA DigestTellsRun ==
  \A f, c : Runs(f, c) = RunOf(DigestOf(f, c, TRUE))
<1> SUFFICES ASSUME NEW f, NEW c PROVE Runs(f, c) = RunOf(DigestOf(f, c, TRUE))
  OBVIOUS
<1> DEFINE m == Manifest(f, c, TRUE)
<1>1. DigestOf(f, c, TRUE) = PlanDigest(f, c, m) /\ Runs(f, c) = [project |-> Project(f, c), services |-> m.services]
  BY DEF DigestOf, Runs
<1> HIDE DEF m
<1>2. /\ PlanDigest(f, c, m).project = Project(f, c)
      /\ PlanDigest(f, c, m).manifest.services = m.services
  BY DEF PlanDigest
<1> QED
  BY <1>1, <1>2 DEF RunOf

\* Before anything ran there is no report and no verdict.
LEMMA HeldAtFirst == Init => Held
<1> SUFFICES ASSUME Init PROVE Held
  OBVIOUS
<1>1. Second \in Int
  BY TimesAreCounts
<1> QED
  BY <1>1 DEF Init, Held, ConfirmedIsFresh, ConfirmedIsTheRun

\* Every step of the audit, of the recheck and of the host preserves the invariant.
LEMMA HeldKept == Held /\ [Next]_vars => Held'
<1> SUFFICES ASSUME Held, [Next]_vars PROVE Held'
  OBVIOUS
<1> USE DEF host, time, audit
<1>1. ASSUME NEW cmd \in Commands, Prepare(cmd) PROVE Held'
  BY <1>1 DEF Prepare, Held, ReportSound, ConfirmedIsFresh, ConfirmedIsTheRun
<1>2. ASSUME NEW cmd \in Commands, BeginRecheck(cmd) PROVE Held'
  BY <1>2 DEF BeginRecheck, Held, ReportSound, NowSound, ConfirmedIsFresh, ConfirmedIsTheRun
<1>3. ASSUME Resolve PROVE Held'
  BY <1>3 DEF Resolve, Resolved, DigestOf, Held, PlanSound, ReportSound, ConfirmedIsFresh, ConfirmedIsTheRun
<1>4. ASSUME Hash PROVE Held'
  BY <1>4 DEF Hash, Held, PlanSound, ReportSound, ConfirmedIsFresh, ConfirmedIsTheRun
<1>5. ASSUME ReadPorts \/ InspectEngine PROVE Held'
  BY <1>5 DEF ReadPorts, InspectEngine, Held, PlanSound, ReportSound, ConfirmedIsFresh, ConfirmedIsTheRun
<1>6. ASSUME Finish PROVE Held'
  BY <1>6, StampTruncates DEF Finish, Held, PlanSound, ReportSound, ConfirmedIsFresh, ConfirmedIsTheRun
<1>7. ASSUME ResolveAgain PROVE Held'
  BY <1>7 DEF ResolveAgain, Resolved, DigestOf, Held, PlanSound, ReportSound, NowSound, ConfirmedIsFresh, ConfirmedIsTheRun
<1>8. ASSUME Judge PROVE Held'
  <2>1. ReportSound /\ NowSound /\ PlanSound(command) /\ UNCHANGED <<report, now, plan, command, files, engine, changes>>
    BY <1>8 DEF Judge, Held
  <2>2. ConfirmedIsFresh'
    <3>1. Second \in Int /\ MaxAge \in Int
      BY TimesAreCounts
    <3> QED
      BY <1>8, <2>1, <3>1 DEF Judge, AgeHeld, Younger, ReportSound, NowSound, ConfirmedIsFresh
  <2>3. ConfirmedIsTheRun'
    <3> SUFFICES ASSUME verdict' = "confirmed", changes = now.by, plan.byCompose, report.byCompose
                 PROVE  Runs(files, command) = Runs(report.files, report.command) /\ report.engine = engine
      BY <2>1 DEF ConfirmedIsTheRun
    <3>1. plan.byCompose = TRUE /\ report.byCompose = TRUE
      BY <2>1 DEF PlanSound, ReportSound
    <3>2. plan.files = files /\ plan.digest = report.digest /\ report.engine = engine
      BY <1>8, <2>1 DEF Judge, Held, EngineHeld
    <3>3. DigestOf(files, command, TRUE) = DigestOf(report.files, report.command, TRUE)
      BY <2>1, <3>1, <3>2 DEF PlanSound, ReportSound
    <3>4. Runs(files, command) = Runs(report.files, report.command)
      BY <3>3, DigestTellsRun
    <3> QED
      BY <3>2, <3>4
  <2> QED
    BY <1>8, <2>1, <2>2, <2>3 DEF Judge, Held, ReportSound
<1>9. ASSUME Change \/ SetClock PROVE Held'
  <2>1. MaxClock \in Int
    BY TimesAreCounts
  <2>2. changes' = changes + 1 /\ verdict = "none" /\ UNCHANGED <<elapsed, pc, command, plan, report, now, verdict>>
    BY <1>9 DEF Change, SetClock
  <2>3. clock' \in Int
    BY <1>9, <2>1 DEF Change, SetClock, Held
  <2>4. compose' \in BOOLEAN
    <3>1. CASE UNCHANGED compose
      BY <3>1 DEF Held
    <3>2. CASE compose' = ~compose
      BY <3>2
    <3> QED
      BY <1>9, <3>1, <3>2 DEF Change, SetClock
  <2> QED
    BY <2>2, <2>3, <2>4 DEF Held, PlanSound, ReportSound, NowSound, ConfirmedIsFresh, ConfirmedIsTheRun
<1>10. ASSUME Tick PROVE Held'
  BY <1>10 DEF Tick, Held, PlanSound, ReportSound, NowSound, ConfirmedIsFresh, ConfirmedIsTheRun
<1>11. ASSUME UNCHANGED vars PROVE Held'
  BY <1>11 DEF vars, Held, PlanSound, ReportSound, NowSound, ConfirmedIsFresh, ConfirmedIsTheRun
<1> QED
  BY <1>1, <1>2, <1>3, <1>4, <1>5, <1>6, <1>7, <1>8, <1>9, <1>10, <1>11 DEF Next

\* A report is confirmed only for the run it was made about (audit/recheck.go Recheck).
THEOREM ConfirmedRun == Spec => []ConfirmedIsTheRun
<1>1. Held => ConfirmedIsTheRun
  BY DEF Held
<1> QED
  BY <1>1, HeldAtFirst, HeldKept, PTL DEF Spec

\* A confirmed report is no older than --max-age, however coarse its times
\* (audit/recheck.go Recheck, provenance.go stamp).
THEOREM ConfirmedFresh == Spec => []ConfirmedIsFresh
<1>1. Held => ConfirmedIsFresh
  BY DEF Held
<1> QED
  BY <1>1, HeldAtFirst, HeldKept, PTL DEF Spec
-----------------------------------------------------------------------------
(***************************************************************************)
(* The gate is not closed for nothing.  While the host is unchanged the    *)
(* clock runs with the time that passes, so the times that are compared    *)
(* differ from the real ones by less than a second, and what the recheck   *)
(* resolves and observes is what the audit did.                            *)
(***************************************************************************)

Auditing == {"hash", "ports", "engine", "finish"}

\* The times an audit recorded so far are within the second of its own time.
AuditSteady ==
  /\ pc \in Auditing \cup {"resolve"} => startedAt \in Int /\ startedAt <= clock
  /\ pc \in {"ports", "engine", "finish"} =>
       plan.resolvedAt \in Int /\ startedAt < plan.resolvedAt + Second /\ plan.resolvedAt <= clock
  /\ pc \in {"engine", "finish"} =>
       \A t \in seen : t \in Int /\ startedAt < t + Second /\ t <= clock
  /\ pc = "finish" => id \in {engine, None}
  /\ pc \in Auditing \cup {"judge"} => plan.files = files /\ plan.byCompose = compose

\* What a report of the unchanged host says, and how its times relate to the real ones.
ReportSteady ==
  /\ report.files = files /\ report.byCompose = compose
  /\ report.engine \in {engine, None} /\ report.rules = build
  /\ report.at <= elapsed /\ report.drift = clock - elapsed
  /\ report.finished + Second > report.at + report.drift
  /\ report.checks /\ report.timely => report.took + Second > MaxSpan

NowSteady == now.drift = clock - elapsed /\ report.at <= now.at

\* The strengthening the property needs on top of Held.
Steady ==
  changes = 0 =>
    /\ AuditSteady
    /\ report # None => ReportSteady
    /\ pc \in {"again", "judge"} => NowSteady /\ ReportSteady

Patient == changes \in Nat /\ Steady /\ UnchangedIsConfirmed

\* A recorded time is less than a second from the time it records.
LEMMA StampIsClose ==
  ASSUME NEW t \in Int
  PROVE  Stamp(t) \in Int /\ Stamp(t) <= t /\ t < Stamp(t) + Second
<1>1. Second \in Int /\ Second > 0
  BY TimesAreCounts
<1>2. t % Second \in 0 .. Second - 1
  BY <1>1
<1> QED
  BY <1>1, <1>2 DEF Stamp

\* The host starts unchanged, with nothing recorded.
LEMMA PatientAtFirst == Init => Patient
BY DEF Init, Patient, Steady, AuditSteady, Auditing, UnchangedIsConfirmed

\* An unchanged host fails no check of the audit's times but that on its length.
LEMMA ChecksAreFair ==
  ASSUME Held, AuditSteady, pc = "finish", TimeChecks(clock), timely
  PROVE  clock - startedAt + Second > MaxSpan
<1>1. Second \in Int /\ Second > 0 /\ MaxSpan \in Int /\ clock \in Int
  BY TimesAreCounts DEF Held
<1>2. startedAt \in Int /\ startedAt <= clock
  BY DEF AuditSteady, Auditing
<1>3. \A t \in seen \cup {plan.resolvedAt} : t \in Int /\ startedAt < t + Second /\ t <= clock
  BY DEF AuditSteady
<1>4. \A t \in seen \cup {plan.resolvedAt} : ~Outside(t, clock)
  BY <1>1, <1>2, <1>3 DEF Outside
<1>5. PICK from \in seen, until \in seen : until - from > MaxSpan
  BY <1>1, <1>2, <1>4 DEF TimeChecks
<1> QED
  BY <1>1, <1>2, <1>3, <1>5

\* An unchanged host fails no comparison but that of a report's age.
LEMMA JudgedFairly ==
  ASSUME Held, Patient, Judge,
         verdict' = "rerun", changes = 0, command = report.command, report.timely, id' # None, report.engine # None
  PROVE  now.at - report.at + Second > MaxAge \/ report.took + Second > MaxSpan
<1>1. /\ ReportSound /\ NowSound /\ PlanSound(command)
      /\ ReportSteady /\ NowSteady /\ plan.files = files /\ plan.byCompose = compose
  BY DEF Judge, Held, Patient, Steady, AuditSteady
<1>2. plan.digest = report.digest
  BY <1>1 DEF PlanSound, ReportSound, ReportSteady
<1>3. EngineHeld(id')
  BY <1>1 DEF Judge, ReportSteady, EngineHeld
<1>4. ~AgeHeld \/ report.checks
  BY <1>1, <1>2, <1>3 DEF Judge, ReportSteady
<1>5. ASSUME ~AgeHeld PROVE now.at - report.at + Second > MaxAge
  <2>1. Second \in Int /\ Second > 0 /\ MaxAge \in Int
    BY TimesAreCounts
  <2>2. /\ now.clock \in Int /\ now.at \in Int /\ report.at \in Int /\ report.finished \in Int /\ report.drift \in Int
        /\ now.clock = now.at + report.drift /\ report.at <= now.at
        /\ report.finished <= report.at + report.drift /\ report.finished + Second > report.at + report.drift
    BY <1>1 DEF ReportSound, NowSound, ReportSteady, NowSteady
  <2>3. Younger(now.clock - report.finished) > MaxAge
    BY <1>5, <2>1, <2>2 DEF AgeHeld, Younger
  <2> QED
    BY <2>1, <2>2, <2>3 DEF Younger
<1> QED
  BY <1>1, <1>4, <1>5 DEF ReportSteady

\* Every step preserves it: a change of the host ends what it says.
LEMMA PatientKept == Held /\ Patient /\ [Next]_vars => Patient'
<1> SUFFICES ASSUME Held, Patient, [Next]_vars PROVE Patient'
  OBVIOUS
<1> USE DEF host, time, audit, Auditing
<1>1. ASSUME NEW cmd \in Commands, Prepare(cmd) PROVE Patient'
  BY <1>1 DEF Prepare, Held, Patient, Steady, AuditSteady, ReportSteady, UnchangedIsConfirmed
<1>2. ASSUME NEW cmd \in Commands, BeginRecheck(cmd) PROVE Patient'
  BY <1>2 DEF BeginRecheck, Held, ReportSound, Patient, Steady, AuditSteady, ReportSteady, NowSteady, UnchangedIsConfirmed
<1>3. ASSUME Resolve PROVE Patient'
  BY <1>3 DEF Resolve, Resolved, Held, Patient, Steady, AuditSteady, ReportSteady, UnchangedIsConfirmed
<1>4. ASSUME Hash PROVE Patient'
  <2> DEFINE hashes(answers) == IF plan.byCompose /\ answers /\ files # Broken THEN ConfigHashes(files) ELSE <<>>
  <2>1. PICK answers \in BOOLEAN : plan' = [plan EXCEPT !.hashes = hashes(answers), !.resolvedAt = Stamp(clock)]
    BY <1>4, Zenon DEF Hash
  <2>2. plan'.resolvedAt = Stamp(clock) /\ plan'.files = plan.files /\ plan'.byCompose = plan.byCompose
    BY <1>4, <2>1 DEF Hash, Held, PlanSound
  <2>3. Stamp(clock) \in Int /\ Stamp(clock) <= clock /\ clock < Stamp(clock) + Second
    BY StampIsClose DEF Held
  <2>4. changes = 0 => AuditSteady'
    BY <1>4, <2>2, <2>3, TimesAreCounts DEF Hash, Held, Patient, Steady, AuditSteady
  <2> QED
    BY <1>4, <2>4 DEF Hash, Patient, Steady, ReportSteady, UnchangedIsConfirmed
<1>5. ASSUME ReadPorts \/ InspectEngine PROVE Patient'
  <2>1. clock \in Int /\ Stamp(clock) \in Int /\ Stamp(clock) <= clock /\ clock < Stamp(clock) + Second
    BY StampIsClose DEF Held
  <2>2. startedAt' = startedAt /\ plan' = plan /\ UNCHANGED <<clock, files, compose, engine, changes, build, elapsed, report, now, verdict>>
    BY <1>5 DEF ReadPorts, InspectEngine
  <2>3. CASE ReadPorts
    <3>1. seen' = {Stamp(clock)} /\ pc = "ports" /\ pc' = "engine"
      BY <2>3 DEF ReadPorts
    <3>2. changes = 0 => AuditSteady'
      BY <2>1, <2>2, <3>1, TimesAreCounts DEF Patient, Steady, AuditSteady
    <3> QED
      BY <1>5, <2>2, <3>1, <3>2 DEF Patient, Steady, ReportSteady, UnchangedIsConfirmed, Held
  <2>4. CASE InspectEngine
    <3>1. seen' = seen \cup {Stamp(clock)} /\ pc = "engine" /\ pc' = "finish" /\ id' \in {engine, None}
      BY <2>4 DEF InspectEngine
    <3>2. changes = 0 => AuditSteady'
      BY <2>1, <2>2, <3>1, TimesAreCounts DEF Patient, Steady, AuditSteady
    <3> QED
      BY <1>5, <2>2, <3>1, <3>2 DEF Patient, Steady, ReportSteady, UnchangedIsConfirmed, Held
  <2> QED
    BY <1>5, <2>3, <2>4
<1>6. ASSUME Finish PROVE Patient'
  BY <1>6, StampIsClose, ChecksAreFair
     DEF Finish, Held, Patient, Steady, AuditSteady, ReportSteady, UnchangedIsConfirmed
<1>7. ASSUME ResolveAgain PROVE Patient'
  BY <1>7 DEF ResolveAgain, Resolved, Held, Patient, Steady, AuditSteady, ReportSteady, NowSteady, UnchangedIsConfirmed
<1>8. ASSUME Judge PROVE Patient'
  <2>1. UnchangedIsConfirmed'
    BY <1>8, JudgedFairly DEF Judge, UnchangedIsConfirmed
  <2> QED
    BY <1>8, <2>1 DEF Judge, Patient, Steady, AuditSteady, ReportSteady
<1>9. ASSUME Change \/ SetClock PROVE Patient'
  BY <1>9 DEF Change, SetClock, Patient, Steady, UnchangedIsConfirmed
<1>10. ASSUME Tick PROVE Patient'
  BY <1>10 DEF Tick, Held, ReportSound, NowSound, Patient, Steady, AuditSteady, ReportSteady, NowSteady, UnchangedIsConfirmed
<1>11. ASSUME UNCHANGED vars PROVE Patient'
  BY <1>11 DEF vars, Patient, Steady, AuditSteady, ReportSteady, NowSteady, UnchangedIsConfirmed
<1> QED
  BY <1>1, <1>2, <1>3, <1>4, <1>5, <1>6, <1>7, <1>8, <1>9, <1>10, <1>11 DEF Next

\* On an unchanged host only an audit or a wait that was too long asks for a new
\* preflight, to within a second (audit/recheck.go Recheck, provenance.go).
THEOREM UnchangedConfirmed == Spec => []UnchangedIsConfirmed
<1>1. Patient => UnchangedIsConfirmed
  BY DEF Patient
<1> QED
  BY <1>1, HeldAtFirst, HeldKept, PatientAtFirst, PatientKept, PTL DEF Spec
-----------------------------------------------------------------------------

\* What the change list says of a container is one of its words (witness/ownership.go).
LEMMA ActionIsAWord ==
  ASSUME NEW p, NEW c
  PROVE  Own!Action(p, c) \in Actions
BY DEF Own!Action, Own!ComposeAction, Actions

\* A resolved plan is well formed: it was resolved from files that are a Compose file.
LEMMA ResolvedIsAPlan ==
  ASSUME TypeOK, NEW answers, ~Refused(answers)
  PROVE  Resolved \in Plans /\ Resolved # None
<1>1. files \in Files \ {Broken} /\ command \in Commands /\ compose \in BOOLEAN /\ clock \in 0 .. MaxClock
  BY DEF TypeOK, Refused
<1>2. <<files, command, compose>> \in Resolvable
  BY <1>1 DEF Resolvable
<1> DEFINE r == <<files, command, compose>>
<1>3. r[1] = files /\ r[2] = command /\ r[3] = compose
  OBVIOUS
<1>4. /\ PlanDigest(files, command, Manifest(files, command, compose)) \in
           {PlanDigest(q[1], q[2], Manifest(q[1], q[2], q[3])) : q \in Resolvable}
      /\ Project(files, command) \in {Project(q[1], q[2]) : q \in Resolvable}
      /\ DOMAIN Manifest(files, command, compose).services \in
           {DOMAIN Manifest(q[1], q[2], q[3]).services : q \in Resolvable}
  BY <1>2, <1>3
<1>5. {command.removeOrphans, command.forceRecreate, command.noRecreate} \subseteq BOOLEAN
  BY <1>1, CommandsTyped
<1> HIDE DEF r
<1>6. Resolved \in Plans
  BY <1>1, <1>4, <1>5 DEF Resolved, Plans
<1> QED
  BY <1>6, NoneIsNoValue

\* The state a run starts in is well formed.
LEMMA TypedAtFirst == Init => TypeOK
<1>1. Second \in Nat \ {0} /\ MaxClock \in Nat /\ MaxEvents \in Nat /\ MaxChanges \in Nat /\ Second - 1 <= MaxClock
  BY TimesAreCounts
<1> QED
  BY <1>1 DEF Init, TypeOK

\* Every step keeps it well formed.
LEMMA TypedKept == TypeOK /\ [Next]_vars => TypeOK'
<1> SUFFICES ASSUME TypeOK, [Next]_vars PROVE TypeOK'
  OBVIOUS
<1> USE DEF host, time, audit
<1>0. /\ Second \in Nat \ {0} /\ {MaxAge, MaxSpan, MaxClock, MaxChanges, MaxEvents} \subseteq Nat
      /\ clock \in 0 .. MaxClock /\ Stamp(clock) \in 0 .. MaxClock
  <2>1. Second \in Nat \ {0} /\ {MaxAge, MaxSpan, MaxClock, MaxChanges, MaxEvents} \subseteq Nat /\ clock \in 0 .. MaxClock
    BY TimesAreCounts DEF TypeOK
  <2>2. Stamp(clock) \in Int /\ Stamp(clock) <= clock
    BY <2>1, StampTruncates
  <2>3. Stamp(clock) >= 0
    BY <2>1 DEF Stamp
  <2> QED
    BY <2>1, <2>2, <2>3
<1>1. ASSUME NEW cmd \in Commands, Prepare(cmd) PROVE TypeOK'
  BY <1>1 DEF Prepare, TypeOK
<1>2. ASSUME NEW cmd \in Commands, BeginRecheck(cmd) PROVE TypeOK'
  <2>1. now' \in Looks
    BY <1>0, <1>2 DEF BeginRecheck, TypeOK, Looks
  <2> QED
    BY <1>2, <2>1, NoneIsNoValue DEF BeginRecheck, TypeOK
<1>3. ASSUME Resolve PROVE TypeOK'
  <2>1. PICK answers \in BOOLEAN :
          IF Refused(answers) THEN pc' = "idle" /\ UNCHANGED plan ELSE pc' = "hash" /\ plan' = Resolved
    BY <1>3, Zenon DEF Resolve
  <2>2. \/ plan' = plan /\ pc' = "idle"
        \/ plan' \in Plans /\ plan' # None /\ pc' = "hash"
    BY <2>1, ResolvedIsAPlan
  <2> QED
    BY <1>3, <2>2 DEF Resolve, TypeOK
<1>4. ASSUME Hash PROVE TypeOK'
  <2>1. plan \in Plans
    BY <1>4 DEF Hash, TypeOK
  <2>2. PICK answers \in BOOLEAN :
          plan' = [plan EXCEPT !.hashes = IF plan.byCompose /\ answers /\ files # Broken THEN ConfigHashes(files) ELSE <<>>,
                               !.resolvedAt = Stamp(clock)]
    BY <1>4, Zenon DEF Hash
  <2> DEFINE hashes == IF plan.byCompose /\ answers /\ files # Broken THEN ConfigHashes(files) ELSE <<>>
  <2>3. hashes \in {<<>>} \cup {ConfigHashes(f) : f \in Files \ {Broken}}
    BY DEF TypeOK
  <2>4. plan' = [plan EXCEPT !.hashes = hashes, !.resolvedAt = Stamp(clock)]
    BY <2>2
  <2> HIDE DEF hashes
  <2>5. plan' \in Plans
    BY <1>0, <2>1, <2>3, <2>4 DEF Plans
  <2> QED
    BY <1>4, <2>5, NoneIsNoValue DEF Hash, TypeOK
<1>5. ASSUME ReadPorts PROVE TypeOK'
  BY <1>0, <1>5 DEF ReadPorts, TypeOK
<1>6. ASSUME InspectEngine PROVE TypeOK'
  BY <1>0, <1>6 DEF InspectEngine, TypeOK
<1>7. ASSUME Finish PROVE TypeOK'
  <2>1. plan \in Plans
    BY <1>7 DEF Finish, TypeOK
  <2>2. Announced(plan.hashes) \in [Containers -> Actions]
    BY ActionIsAWord DEF Announced
  <2>3. TimeChecks(clock) \in BOOLEAN
    BY DEF TimeChecks
  <2>4. clock - elapsed \in Int /\ clock - startedAt \in Int
    BY <1>0 DEF TypeOK
  <2>5. report' \in Reports
    BY <1>0, <1>7, <2>1, <2>2, <2>3, <2>4 DEF Finish, TypeOK, Plans, Reports
  <2> QED
    BY <1>0, <1>7, <2>5 DEF Finish, TypeOK
<1>8. ASSUME ResolveAgain PROVE TypeOK'
  <2>1. PICK answers \in BOOLEAN :
          IF Refused(answers) THEN pc' = "idle" /\ verdict' = "error" /\ UNCHANGED plan
          ELSE pc' = "judge" /\ plan' = Resolved /\ UNCHANGED verdict
    BY <1>8, Zenon DEF ResolveAgain
  <2>2. \/ plan' = plan /\ pc' = "idle" /\ verdict' = "error"
        \/ plan' \in Plans /\ plan' # None /\ pc' = "judge" /\ verdict' = verdict
    BY <2>1, ResolvedIsAPlan
  <2> QED
    BY <1>8, <2>2 DEF ResolveAgain, TypeOK
<1>9. ASSUME Judge PROVE TypeOK'
  BY <1>9 DEF Judge, TypeOK
<1>10. ASSUME Change PROVE TypeOK'
  <2>1. compose' \in BOOLEAN
    <3>1. CASE UNCHANGED compose
      BY <3>1 DEF TypeOK
    <3>2. CASE compose' = ~compose
      BY <3>2
    <3> QED
      BY <1>10, <3>1, <3>2 DEF Change
  <2>2. files' \in Files /\ engine' \in Engines \cup {Remote} /\ build' \in Nat
    BY <1>10 DEF Change, TypeOK
  <2>3. changes' \in 0 .. MaxChanges /\ UNCHANGED <<time, pc, command, audit, report, now, verdict>>
    BY <1>0, <1>10 DEF Change, TypeOK
  <2> QED
    BY <2>1, <2>2, <2>3 DEF TypeOK
<1>11. ASSUME Tick PROVE TypeOK'
  <2>1. clock' \in 0 .. MaxClock /\ elapsed' \in 0 .. MaxEvents
    BY <1>0, <1>11 DEF Tick, TypeOK
  <2> QED
    BY <1>11, <2>1 DEF Tick, TypeOK
<1>12. ASSUME SetClock PROVE TypeOK'
  BY <1>0, <1>12 DEF SetClock, TypeOK
<1>13. ASSUME UNCHANGED vars PROVE TypeOK'
  BY <1>13 DEF vars, TypeOK
<1> QED
  BY <1>1, <1>2, <1>3, <1>4, <1>5, <1>6, <1>7, <1>8, <1>9, <1>10, <1>11, <1>12, <1>13 DEF Next

\* Whatever the files and commands, an audit ends with a well-formed report and a
\* recheck judges by one (audit/plan.go, provenance.go, recheck.go).
THEOREM Typed == Spec => []TypeOK
BY TypedAtFirst, TypedKept, PTL DEF Spec
=============================================================================

------------------------------ MODULE AuditRun ------------------------------
(***************************************************************************)
(* One run of the program, from its configuration to its exit status:      *)
(* main.go runCLI, audit/audit.go Run, run/run.go OutputAllowExit,         *)
(* audit/network.go, redact/redact.go and the writers of report/.          *)
(*                                                                         *)
(* A section runs allowlisted programs as child processes, one at a time,  *)
(* each under a deadline.  What it makes of their output is not modelled:  *)
(* it may stop after any of them and end in any status its code can set.   *)
(* Bounds: MaxRuns runs into one output directory, MaxContacts requests    *)
(* to the OSV API and registries dialled by a run.                         *)
(***************************************************************************)
EXTENDS Integers, Sequences, FiniteSets, SequencesExt

CONSTANTS
  None,
  Configs,         \* what can be asked for (ConfigsTyped)
  Programs,        \* the programs each section runs, in order; "plan" is Prepare's
  NetworkPrograms, \* those the allowlist marks as reaching the network
  Tables,          \* the CSV files of a report, in the order they are written
  MaxRuns, MaxContacts

Sections == {"system", "updates", "vulnerabilities", "ports", "services", "witness"}

\* The sections whose code calls Fail.
CanFail == {"updates", "vulnerabilities", "ports", "services"}

Paths == {"osv-api", "distro-feeds", "registry-egress"}

ASSUME ConfigsTyped ==
  Configs \subseteq [sections : Seq(Sections), preflight : BOOLEAN, stdout : BOOLEAN, csv : BOOLEAN,
                     json : BOOLEAN, online : BOOLEAN, egress : BOOLEAN, upload : BOOLEAN]

\* The witness section is run by a preflight alone (config.go, resolveMode and Load).
ASSUME WitnessIsPreflight == \A c \in Configs : "witness" \in ToSet(c.sections) => c.preflight

ASSUME ProgramsTyped == Programs \in [Sections \cup {"plan"} -> Seq(STRING)]

ASSUME TablesTyped == Tables \in Seq(STRING)

ASSUME BoundsTyped == MaxRuns \in Nat \ {0} /\ MaxContacts \in Nat

Entries  == [program : STRING, outcome : {"ok", "failed", "timeout", "missing"}]
Children == [program : STRING, process : {"running", "exited", "killed"}, pipe : BOOLEAN, expired : BOOLEAN]
Reports  == [commands : Seq(Entries), network : [Paths -> Nat], redacted : BOOLEAN]

ASSUME NoneIsNone == None \notin Sections /\ None \notin Children /\ None \notin Reports

VARIABLES
  run, cfg, pc,            \* which run, what was asked, where it is
  section, todo, programs, \* the section that runs, those after it, its programs left
  rows,                    \* summary.csv: a status for every section that ended
  child,                   \* the child process, or None
  journal,                 \* Runner.journal
  contacts,                \* osvRequests and len(egressTargets)
  launched, reached,       \* what really happened: children exec was asked for, contacts made
  report,                  \* the report: its commands, network record, and is it redacted
  left,                    \* the files still to be written
  out,                     \* what each output holds: whose it is, is it whole, is it redacted
  sent,                    \* the uploads that arrived
  exit

collecting == <<section, todo, programs, rows, child, journal, contacts, launched, reached>>
writing == <<report, left, out, sent>>
vars == <<run, cfg, pc, collecting, writing, exit>>

-----------------------------------------------------------------------------
(***************************************************************************)
(* Running one program (run.go).                                           *)
(***************************************************************************)

Entry(program, outcome) == [program |-> program, outcome |-> outcome]

\* A package manager's reader does not ask for a program the run may not launch.
Skip ==
  /\ pc \in {"prepare", "sections"} /\ child = None /\ programs # <<>>
  /\ Head(programs) \in NetworkPrograms /\ ~cfg.online
  /\ programs' = Tail(programs)
  /\ UNCHANGED <<run, cfg, pc, section, todo, rows, child, journal, contacts, launched, reached, writing, exit>>

\* Missing before it is started, not startable after all, or started.  OutputAllowExit
\* also refuses what is not on the allowlist or not permitted, which no collector asks for.
Launch ==
  /\ pc \in {"prepare", "sections"} /\ child = None /\ programs # <<>>
  /\ Head(programs) \in NetworkPrograms => cfg.online
  /\ LET p == Head(programs)
     IN  \/ journal' = Append(journal, Entry(p, "missing")) /\ UNCHANGED <<child, launched, reached>>
         \/ /\ journal' = Append(journal, Entry(p, "failed"))
            /\ launched' = Append(launched, p) /\ UNCHANGED <<child, reached>>
         \/ /\ child' = [program |-> p, process |-> "running", pipe |-> TRUE, expired |-> FALSE]
            /\ launched' = Append(launched, p)
            /\ reached' = IF p \in NetworkPrograms THEN [reached EXCEPT !["distro-feeds"] = @ + 1] ELSE reached
            /\ UNCHANGED journal
  /\ programs' = Tail(programs)
  /\ UNCHANGED <<run, cfg, pc, section, todo, rows, contacts, writing, exit>>

\* The process ends; a descendant may still hold its output.
ProcessExits ==
  /\ child # None /\ child.process = "running"
  /\ \E held \in BOOLEAN : child' = [child EXCEPT !.process = "exited", !.pipe = held]
  /\ UNCHANGED <<run, cfg, pc, section, todo, programs, rows, journal, contacts, launched, reached, writing, exit>>

DescendantEnds ==
  /\ child # None /\ child.process # "running" /\ child.pipe
  /\ child' = [child EXCEPT !.pipe = FALSE]
  /\ UNCHANGED <<run, cfg, pc, section, todo, programs, rows, journal, contacts, launched, reached, writing, exit>>

\* Mutant: the command is run without the deadline's context.
DeadlineUnbound ==
  /\ child # None /\ ~child.expired
  /\ child' = [child EXCEPT !.expired = TRUE]
  /\ UNCHANGED <<run, cfg, pc, section, todo, programs, rows, journal, contacts, launched, reached, writing, exit>>

\* The deadline kills the process, not what it started.
Deadline ==
  /\ child # None /\ ~child.expired
  /\ IF child.process = "running"
     THEN \E held \in BOOLEAN : child' = [child EXCEPT !.process = "killed", !.pipe = held, !.expired = TRUE]
     ELSE child' = [child EXCEPT !.expired = TRUE]
  /\ UNCHANGED <<run, cfg, pc, section, todo, programs, rows, journal, contacts, launched, reached, writing, exit>>

Outcomes(c) == IF c.expired THEN {"timeout"} ELSE {"ok", "failed"}

\* Mutant: a command that was killed is not recorded.
WaitSilently ==
  /\ child # None /\ child.process # "running" /\ ~child.pipe
  /\ \E o \in Outcomes(child) : journal' = IF o = "timeout" THEN journal ELSE Append(journal, Entry(child.program, o))
  /\ child' = None
  /\ UNCHANGED <<run, cfg, pc, section, todo, programs, rows, contacts, launched, reached, writing, exit>>

\* cmd.Run returns when the process has ended and its output is closed.
Wait ==
  /\ child # None /\ child.process # "running" /\ ~child.pipe
  /\ \E o \in Outcomes(child) : journal' = Append(journal, Entry(child.program, o))
  /\ child' = None
  /\ UNCHANGED <<run, cfg, pc, section, todo, programs, rows, contacts, launched, reached, writing, exit>>

-----------------------------------------------------------------------------
(***************************************************************************)
(* The sections (audit.go).                                                *)
(***************************************************************************)

ToPrepare(c) == IF c.preflight THEN Programs["plan"] ELSE <<>>

\* Mutant: a refused plan ends the run with no exit status.
PreparedQuietly ==
  /\ pc = "prepare" /\ child = None
  /\ pc' = "sections" \/ (cfg.preflight /\ pc' = "exited")
  /\ programs' = <<>>
  /\ UNCHANGED <<run, cfg, section, todo, rows, child, journal, contacts, launched, reached, writing, exit>>

\* Prepare ends: a host audit has nothing to prepare, a plan may be refused.
Prepared ==
  /\ pc = "prepare" /\ child = None
  /\ \/ pc' = "sections" /\ UNCHANGED exit
     \/ cfg.preflight /\ pc' = "exited" /\ exit' = "usage"
  /\ programs' = <<>>
  /\ UNCHANGED <<run, cfg, section, todo, rows, child, journal, contacts, launched, reached, writing>>

BeginSection ==
  /\ pc = "sections" /\ section = None /\ todo # <<>>
  /\ section' = Head(todo) /\ todo' = Tail(todo)
  /\ programs' = Programs[Head(todo)]
  /\ UNCHANGED <<run, cfg, pc, rows, child, journal, contacts, launched, reached, writing, exit>>

\* A request is counted before it is sent, and may reach nobody.
Contact(path) ==
  /\ contacts[path] < MaxContacts
  /\ contacts' = [contacts EXCEPT ![path] = @ + 1]
  /\ \E arrives \in BOOLEAN : reached' = IF arrives THEN [reached EXCEPT ![path] = @ + 1] ELSE reached
  /\ UNCHANGED <<run, cfg, pc, section, todo, programs, rows, child, journal, launched, writing, exit>>

AskOSV == pc = "sections" /\ section = "vulnerabilities" /\ child = None /\ cfg.online /\ Contact("osv-api")

DialRegistry == pc = "sections" /\ section = "witness" /\ child = None /\ cfg.egress /\ Contact("registry-egress")

EndSection ==
  /\ pc = "sections" /\ section # None /\ child = None
  /\ \E status \in {"ok", "partial"} \cup (IF section \in CanFail THEN {"failed"} ELSE {}) :
       rows' = Append(rows, [section |-> section, status |-> status])
  /\ section' = None /\ programs' = <<>>
  /\ UNCHANGED <<run, cfg, pc, todo, child, journal, contacts, launched, reached, writing, exit>>

\* Mutant: a program that failed is not counted as a contact.
FeedContactsOk(commands) ==
  Cardinality({i \in DOMAIN commands : commands[i].program \in NetworkPrograms /\ commands[i].outcome = "ok"})

FeedContacts(commands) ==
  Cardinality({i \in DOMAIN commands : /\ commands[i].program \in NetworkPrograms
                                       /\ commands[i].outcome \notin {"refused", "missing"}})

NetworkRecord(commands) ==
  [path \in Paths |-> IF path = "distro-feeds" THEN FeedContacts(commands) ELSE contacts[path]]

\* The end of Run: the witness row of a host audit, the journal, the network record.
Seal ==
  /\ pc = "sections" /\ section = None /\ todo = <<>>
  /\ rows' = IF cfg.preflight THEN rows ELSE Append(rows, [section |-> "witness", status |-> "not-applicable"])
  /\ report' = [commands |-> journal, network |-> NetworkRecord(journal), redacted |-> FALSE]
  /\ pc' = "redact"
  /\ UNCHANGED <<run, cfg, section, todo, programs, child, journal, contacts, launched, reached, left, out, sent, exit>>

-----------------------------------------------------------------------------
(***************************************************************************)
(* The report leaves (main.go, report/).                                   *)
(***************************************************************************)

\* The files of a report in the order they are written.
Outputs(c) ==
  IF c.stdout THEN <<"stdout">>
  ELSE (IF c.csv THEN Tables ELSE <<>>) \o (IF c.json THEN <<"report.json">> ELSE <<>>)

Redact ==
  /\ pc = "redact"
  /\ report' = [report EXCEPT !.redacted = TRUE]
  /\ left' = Outputs(cfg) /\ pc' = "write"
  /\ UNCHANGED <<run, cfg, collecting, out, sent, exit>>

Written(whole) == [run |-> run, whole |-> whole, redacted |-> report.redacted]

\* Mutant: a file that could not be written is left out.
WriteFilePastErrors ==
  /\ pc = "write" /\ left # <<>>
  /\ \E held \in {Written(TRUE), Written(FALSE), out[Head(left)]} : out' = [out EXCEPT ![Head(left)] = held]
  /\ left' = Tail(left)
  /\ UNCHANGED <<run, cfg, pc, collecting, report, sent, exit>>

\* One file: written whole; or opened, truncated and not finished; or not opened at all.
WriteFile ==
  /\ pc = "write" /\ left # <<>>
  /\ \/ /\ out' = [out EXCEPT ![Head(left)] = Written(TRUE)]
        /\ left' = Tail(left) /\ UNCHANGED <<pc, exit>>
     \/ /\ \E held \in {Written(FALSE), out[Head(left)]} : out' = [out EXCEPT ![Head(left)] = held]
        /\ pc' = "exited" /\ exit' = "usage" /\ UNCHANGED left
  /\ UNCHANGED <<run, cfg, collecting, report, sent>>

\* The contract is rendered before report.json is written, and for an upload of a CSV
\* run; rendering may fail on text that is not UTF-8.
CannotRender ==
  /\ pc = "write"
  /\ \/ left # <<>> /\ Head(left) \in {"report.json", "stdout"} /\ cfg.json
     \/ left = <<>> /\ ~cfg.json /\ cfg.upload
  /\ pc' = "exited" /\ exit' = "usage"
  /\ UNCHANGED <<run, cfg, collecting, writing>>

StatusCode == IF \E r \in ToSet(rows) : r.status = "failed" THEN "section" ELSE "ok"

Finish ==
  /\ pc = "write" /\ left = <<>> /\ ~cfg.upload
  /\ pc' = "exited" /\ exit' = StatusCode
  /\ UNCHANGED <<run, cfg, collecting, writing>>

\* Mutant: an upload whose answer is lost is sent again.
UploadAgain ==
  /\ pc = "write" /\ left = <<>> /\ cfg.upload
  /\ sent' = Append(sent, [run |-> run, redacted |-> report.redacted])
  /\ \/ pc' = "exited" /\ exit' \in {StatusCode, "upload"}
     \/ Len(sent) < MaxContacts /\ UNCHANGED <<pc, exit>>
  /\ UNCHANGED <<run, cfg, collecting, report, left, out>>

\* One POST: accepted and answered; not accepted, not reached or redirected; or
\* accepted with the answer lost.
Upload ==
  /\ pc = "write" /\ left = <<>> /\ cfg.upload
  /\ \/ sent' = Append(sent, [run |-> run, redacted |-> report.redacted]) /\ exit' \in {StatusCode, "upload"}
     \/ UNCHANGED sent /\ exit' = "upload"
  /\ pc' = "exited"
  /\ UNCHANGED <<run, cfg, collecting, report, left, out>>

-----------------------------------------------------------------------------

\* Interrupted: a file may be half written or the upload under way, a child is left behind.
Interrupt ==
  /\ pc # "exited"
  /\ pc' = "exited" /\ exit' = "killed"
  /\ IF pc = "write" /\ left # <<>>
     THEN \E held \in {Written(FALSE), out[Head(left)]} : out' = [out EXCEPT ![Head(left)] = held]
     ELSE UNCHANGED out
  /\ \/ UNCHANGED sent
     \/ pc = "write" /\ left = <<>> /\ cfg.upload /\ sent' = Append(sent, [run |-> run, redacted |-> report.redacted])
  /\ child' = None
  /\ UNCHANGED <<run, cfg, section, todo, programs, rows, journal, contacts, launched, reached, report, left>>

Fresh(c) ==
  /\ cfg' = c /\ pc' = "prepare" /\ exit' = "none"
  /\ section' = None /\ todo' = c.sections /\ programs' = ToPrepare(c)
  /\ rows' = <<>> /\ child' = None /\ journal' = <<>> /\ launched' = <<>>
  /\ contacts' = [path \in Paths |-> 0] /\ reached' = [path \in Paths |-> 0]
  /\ report' = None /\ left' = <<>>

\* Another run, into the same directory.
RunAgain ==
  /\ pc = "exited" /\ run < MaxRuns
  /\ run' = run + 1
  /\ \E c \in Configs : Fresh(c)
  /\ UNCHANGED <<out, sent>>

AllOutputs == ToSet(Tables) \cup {"report.json", "stdout"}

Init ==
  /\ run = 1 /\ cfg \in Configs /\ pc = "prepare" /\ exit = "none"
  /\ section = None /\ todo = cfg.sections /\ programs = ToPrepare(cfg)
  /\ rows = <<>> /\ child = None /\ journal = <<>> /\ launched = <<>>
  /\ contacts = [path \in Paths |-> 0] /\ reached = [path \in Paths |-> 0]
  /\ report = None /\ left = <<>> /\ sent = <<>>
  /\ out = [f \in AllOutputs |-> [run |-> 0, whole |-> FALSE, redacted |-> TRUE]]

Running == Launch \/ Skip \/ Wait
Collecting == Prepared \/ BeginSection \/ AskOSV \/ DialRegistry \/ EndSection \/ Seal
Delivering == Redact \/ WriteFile \/ CannotRender \/ Finish \/ Upload

Next ==
  \/ Running \/ Collecting \/ Delivering
  \/ ProcessExits \/ DescendantEnds \/ Deadline
  \/ Interrupt \/ RunAgain

\* The program itself does not stall, and time passes: a deadline comes.
Fairness == WF_vars(Running \/ Collecting \/ Delivering) /\ WF_vars(Deadline)

Spec == Init /\ [][Next]_vars /\ Fairness

\* Nothing a program starts holds its output for ever.
SpecDescendantsEnd == Spec /\ WF_vars(DescendantEnds)

-----------------------------------------------------------------------------
(***************************************************************************)
(* Properties.                                                             *)
(***************************************************************************)

\* Type correctness: what there is of a section, a child process and a report is
\* there in the phases of a run that it belongs to.
TypeOK ==
  /\ run \in 1 .. MaxRuns /\ cfg \in Configs
  /\ pc \in {"prepare", "sections", "redact", "write", "exited"}
  /\ exit \in {"none", "ok", "section", "usage", "upload", "killed"} /\ (exit = "none" <=> pc # "exited")
  /\ section \in Sections \cup {None} /\ (pc \in {"prepare", "redact", "write"} => section = None)
  /\ todo \in Seq(Sections) /\ programs \in Seq(STRING)
  /\ rows \in Seq([section : Sections, status : {"ok", "partial", "failed", "not-applicable"}])
  /\ child \in Children \cup {None}
  /\ child # None => pc \in {"prepare", "sections"} /\ (child.process = "running" => child.pipe)
  /\ journal \in Seq(Entries) /\ launched \in Seq(STRING)
  /\ contacts \in [Paths -> 0 .. MaxContacts] /\ reached \in [Paths -> Nat]
  /\ report \in Reports \cup {None} /\ (pc \in {"redact", "write"} => report # None)
  /\ left \in Seq(AllOutputs)
  /\ out \in [AllOutputs -> [run : 0 .. MaxRuns, whole : BOOLEAN, redacted : BOOLEAN]]
  /\ sent \in Seq([run : 1 .. MaxRuns, redacted : BOOLEAN])

\* The exit status tells what was delivered: 0, 1 and 3 that every output asked for is
\* this run's, whole, however the directory was left by an earlier run; 0 and 1 that an
\* upload asked for arrived and whether a section failed; 2 that nothing was sent.
ExitIsTrue ==
  LET arrived == \E s \in ToSet(sent) : s.run = run
      failed  == \E r \in ToSet(rows) : r.status = "failed"
  IN  /\ exit \in {"ok", "section", "upload"} =>
           \A f \in ToSet(Outputs(cfg)) : out[f].run = run /\ out[f].whole
      /\ exit \in {"ok", "section"} => (cfg.upload <=> arrived) /\ (exit = "section" <=> failed)
      /\ exit = "upload" => cfg.upload
      /\ exit \in {"none", "usage"} => ~arrived

\* Whatever is in a file or was sent went through the redaction sweep, and a report is
\* sent once at most.
OnlyRedactedLeaves ==
  /\ \A f \in AllOutputs : out[f].redacted
  /\ \A i \in DOMAIN sent : sent[i].redacted /\ \A j \in DOMAIN sent : sent[i].run = sent[j].run => i = j

\* network.csv tells every contact that was made, also one made by a program that then
\* failed or was killed, and none without its flag.
NetworkIsTold ==
  report # None =>
    /\ \A path \in Paths : reached[path] <= report.network[path]
    /\ report.network["osv-api"] + report.network["distro-feeds"] > 0 => cfg.online
    /\ report.network["registry-egress"] > 0 => cfg.egress /\ cfg.preflight

\* The rows of programs that were started, and how many there are up to the i-th row.
Tried(commands) == {i \in DOMAIN commands : commands[i].outcome # "missing"}
TriedUpTo(commands, i) == Cardinality({j \in Tried(commands) : j <= i})

\* commands.csv lists every program that was launched, in order, and none that was not.
JournalIsWhole ==
  report # None =>
    /\ Len(launched) = Cardinality(Tried(report.commands))
    /\ \A i \in Tried(report.commands) : launched[TriedUpTo(report.commands, i)] = report.commands[i].program

\* A run ends.
RunEnds == pc # "exited" ~> pc = "exited"

\* A command that hit its deadline is done with.
DeadlineEndsCommand == child # None /\ child.expired ~> child = None
=============================================================================

--------------------------- MODULE AuditRun_proofs ---------------------------
(***************************************************************************)
(* Whatever is asked for, whatever programs a section runs and however     *)
(* often the directory is used: the exit status tells what was delivered,  *)
(* nothing leaves before the redaction, network.csv tells every contact    *)
(* and commands.csv every program that was launched.                       *)
(*                                                                         *)
(* Four inductive invariants.  Idle: between two sections no child runs,   *)
(* so the journal that is sealed is complete.  NetInv: a contact is        *)
(* counted, or it is that of the child which is still waited for, and      *)
(* what is counted was allowed.  Kept: the journal has what was launched,  *)
(* but for that child.  OutInv: a file that is no longer left to write is  *)
(* this run's, and nothing of a run that has not ended was sent.           *)
(***************************************************************************)
EXTENDS AuditRun, FiniteSetTheorems, TLAPS

-----------------------------------------------------------------------------
(***************************************************************************)
(* Sequences and counts.                                                   *)
(***************************************************************************)

\* A sequence that gains at most one element keeps its type.
LEMMA AppendIn ==
  ASSUME NEW S, NEW s \in Seq(S), NEW e \in S, NEW t, t = s \/ t = Append(s, e)
  PROVE  t \in Seq(S)
  OBVIOUS

\* Appending adds one element.
LEMMA ToSetAppend ==
  ASSUME NEW S, NEW s \in Seq(S), NEW e \in S
  PROVE  ToSet(Append(s, e)) = ToSet(s) \cup {e}
<1> DEFINE t == Append(s, e)
<1>1. Len(s) \in Nat /\ DOMAIN s = 1 .. Len(s) /\ DOMAIN t = 1 .. Len(s) + 1
  OBVIOUS
<1>2. t[Len(s) + 1] = e /\ \A i \in 1 .. Len(s) : t[i] = s[i]
  OBVIOUS
<1> QED
  BY <1>1, <1>2 DEF ToSet

\* The head and the tail of a sequence hold what it holds.
LEMMA ToSetHeadTail ==
  ASSUME NEW S, NEW s \in Seq(S), s # <<>>
  PROVE  /\ Head(s) \in S /\ Tail(s) \in Seq(S)
         /\ ToSet(s) = {Head(s)} \cup ToSet(Tail(s))
<1>1. Head(s) \in S /\ Tail(s) \in Seq(S)
  OBVIOUS
<1>2. Len(s) \in Nat /\ Len(s) > 0 /\ Len(Tail(s)) = Len(s) - 1 /\ Head(s) = s[1]
  OBVIOUS
<1>3. \A i \in 1 .. Len(s) - 1 : Tail(s)[i] = s[i + 1]
  OBVIOUS
<1>4. ToSet(s) \subseteq {Head(s)} \cup ToSet(Tail(s))
  <2> SUFFICES ASSUME NEW i \in 1 .. Len(s), i # 1 PROVE s[i] \in ToSet(Tail(s))
    BY <1>2 DEF ToSet
  <2>1. i - 1 \in 1 .. Len(s) - 1
    BY <1>2
  <2>2. Tail(s)[i - 1] = s[i]
    BY <2>1, <1>2, <1>3
  <2>3. DOMAIN Tail(s) = 1 .. Len(s) - 1
    BY <1>1, <1>2
  <2> QED
    BY <2>1, <2>2, <2>3 DEF ToSet
<1>5. {Head(s)} \cup ToSet(Tail(s)) \subseteq ToSet(s)
  BY <1>1, <1>2, <1>3 DEF ToSet
<1> QED
  BY <1>1, <1>4, <1>5

Counted(s) == {i \in DOMAIN s : /\ s[i].program \in NetworkPrograms
                                /\ s[i].outcome \notin {"refused", "missing"}}

\* The count of the feeds' contacts is a number, and none are counted of an empty journal.
LEMMA CountType ==
  ASSUME NEW s \in Seq(Entries)
  PROVE  IsFiniteSet(Counted(s)) /\ FeedContacts(s) = Cardinality(Counted(s)) /\ FeedContacts(s) \in Nat
<1>1. IsFiniteSet(1 .. Len(s))
  BY FS_Interval
<1>2. IsFiniteSet(Counted(s))
  BY <1>1, FS_Subset, Counted(s) \subseteq 1 .. Len(s) DEF Counted
<1>3. FeedContacts(s) = Cardinality(Counted(s))
  BY DEF FeedContacts, Counted
<1> QED
  BY <1>2, <1>3, FS_CardinalityType

\* Nothing is counted of an empty journal.
LEMMA CountEmpty == FeedContacts(<<>>) = 0
<1>1. {i \in DOMAIN <<>> : /\ <<>>[i].program \in NetworkPrograms
                          /\ <<>>[i].outcome \notin {"refused", "missing"}} = {}
  OBVIOUS
<1> QED
  BY <1>1, FS_EmptySet DEF FeedContacts

\* A row more counts one more exactly when its program reaches the network and ran
\* (audit/network.go networkRecord).
LEMMA CountAppend ==
  ASSUME NEW s \in Seq(Entries), NEW e \in Entries
  PROVE  FeedContacts(Append(s, e)) =
           FeedContacts(s) + (IF e.program \in NetworkPrograms /\ e.outcome # "missing" THEN 1 ELSE 0)
<1> DEFINE t == Append(s, e)
           n == Len(s) + 1
<1>1. t \in Seq(Entries) /\ Len(t) = n /\ t[n] = e /\ \A i \in 1 .. Len(s) : t[i] = s[i]
  OBVIOUS
<1>2. DOMAIN s = 1 .. Len(s) /\ DOMAIN t = 1 .. n /\ Len(s) \in Nat
  BY <1>1
<1>3. n \notin Counted(s)
  BY <1>2 DEF Counted
<1>c. /\ IsFiniteSet(Counted(s)) /\ FeedContacts(s) = Cardinality(Counted(s)) /\ FeedContacts(s) \in Nat
      /\ IsFiniteSet(Counted(t)) /\ FeedContacts(t) = Cardinality(Counted(t)) /\ FeedContacts(t) \in Nat
  <2> HIDE DEF t
  <2> QED
    BY <1>1, CountType
<1>4. e.outcome # "refused"
  BY DEF Entries
<1>5. CASE e.program \in NetworkPrograms /\ e.outcome # "missing"
  <2>1. Counted(t) = Counted(s) \cup {n}
    BY <1>1, <1>2, <1>4, <1>5 DEF Counted
  <2> QED
    BY <2>1, <1>3, <1>5, <1>c, FS_AddElement
<1>6. CASE ~(e.program \in NetworkPrograms /\ e.outcome # "missing")
  <2>1. Counted(t) = Counted(s)
    BY <1>1, <1>2, <1>6 DEF Counted
  <2> QED
    BY <2>1, <1>6, <1>c
<1> QED
  BY <1>5, <1>6

-----------------------------------------------------------------------------
(***************************************************************************)
(* Types.                                                                  *)
(***************************************************************************)

\* What can be asked for, field by field.
LEMMA ConfigFields ==
  ASSUME NEW c \in Configs
  PROVE  /\ c.sections \in Seq(Sections) /\ c.preflight \in BOOLEAN /\ c.stdout \in BOOLEAN /\ c.csv \in BOOLEAN
         /\ c.json \in BOOLEAN /\ c.online \in BOOLEAN /\ c.egress \in BOOLEAN /\ c.upload \in BOOLEAN
  BY ConfigsTyped

\* The files that are to be written are among those that there can be.
LEMMA OutputsTyped ==
  ASSUME NEW c \in Configs
  PROVE  Outputs(c) \in Seq(AllOutputs)
<1>1. Tables \in Seq(AllOutputs)
  <2>1. \A i \in 1 .. Len(Tables) : Tables[i] \in AllOutputs
    BY TablesTyped DEF AllOutputs, ToSet
  <2> QED
    BY <2>1, TablesTyped
<1>2. <<>> \in Seq(AllOutputs) /\ <<"report.json">> \in Seq(AllOutputs) /\ <<"stdout">> \in Seq(AllOutputs)
  BY DEF AllOutputs
<1> QED
  BY <1>1, <1>2 DEF Outputs

\* The programs of a section, and those of Prepare.
LEMMA ProgramsOf ==
  /\ \A s \in Sections : Programs[s] \in Seq(STRING)
  /\ \A c \in Configs : ToPrepare(c) \in Seq(STRING)
<1>1. \A s \in Sections \cup {"plan"} : Programs[s] \in Seq(STRING)
  BY ProgramsTyped
<1>2. <<>> \in Seq(STRING)
  OBVIOUS
<1> QED
  BY <1>1, <1>2 DEF ToPrepare

\* What a file is given is an entry of `out'.
LEMMA WrittenTyped ==
  ASSUME TypeOK, pc = "write", NEW w \in BOOLEAN
  PROVE  Written(w) \in [run : 0 .. MaxRuns, whole : BOOLEAN, redacted : BOOLEAN]
<1>1. report.redacted \in BOOLEAN
  BY DEF TypeOK, Reports
<1>2. run \in 0 .. MaxRuns
  BY BoundsTyped DEF TypeOK
<1> QED
  BY <1>1, <1>2 DEF Written

\* A contact is counted up to its bound, whether it arrives or not.
LEMMA ContactTyped ==
  ASSUME TypeOK, NEW path \in Paths, Contact(path)
  PROVE  contacts' \in [Paths -> 0 .. MaxContacts] /\ reached' \in [Paths -> Nat]
<1>1. contacts[path] + 1 \in 0 .. MaxContacts /\ reached[path] + 1 \in Nat
  BY BoundsTyped DEF TypeOK, Contact
<1> QED
  BY <1>1 DEF TypeOK, Contact

\* At the beginning of a run nothing has been collected.
LEMMA InitTyped == Init => TypeOK
<1> SUFFICES ASSUME Init PROVE TypeOK
  OBVIOUS
<1>1. todo \in Seq(Sections) /\ programs \in Seq(STRING)
  BY ConfigFields, ProgramsOf DEF Init
<1>2. contacts \in [Paths -> 0 .. MaxContacts] /\ reached \in [Paths -> Nat]
  BY BoundsTyped DEF Init
<1>3. out \in [AllOutputs -> [run : 0 .. MaxRuns, whole : BOOLEAN, redacted : BOOLEAN]]
  BY BoundsTyped DEF Init
<1> QED
  BY <1>1, <1>2, <1>3, BoundsTyped DEF Init, TypeOK

\* Between two sections nothing runs.
Idle == pc = "sections" /\ section = None => child = None /\ programs = <<>>

\* Every step keeps the types.
LEMMA StepTyped == TypeOK /\ Idle /\ [Next]_vars => TypeOK'
<1> SUFFICES ASSUME TypeOK, Idle, [Next]_vars PROVE TypeOK'
  OBVIOUS
<1> USE DEF TypeOK
<1>1. CASE Launch
  <2>1. Head(programs) \in STRING /\ Tail(programs) \in Seq(STRING)
    BY <1>1 DEF Launch
  <2>2. \A o \in {"missing", "failed"} : Append(journal, Entry(Head(programs), o)) \in Seq(Entries)
    BY <2>1 DEF Entry, Entries
  <2>3. [program |-> Head(programs), process |-> "running", pipe |-> TRUE, expired |-> FALSE] \in Children
    BY <2>1 DEF Children
  <2>4. [reached EXCEPT !["distro-feeds"] = @ + 1] \in [Paths -> Nat]
    BY DEF Paths
  <2>5. Append(launched, Head(programs)) \in Seq(STRING)
    BY <2>1
  <2>6. child' \in Children \cup {None} /\ (child' # None => (child'.process = "running" => child'.pipe))
    <3>1. child' = None \/ child' = [program |-> Head(programs), process |-> "running", pipe |-> TRUE, expired |-> FALSE]
      BY <1>1 DEF Launch
    <3>2. CASE child' = None
      BY <3>2
    <3>3. CASE child' = [program |-> Head(programs), process |-> "running", pipe |-> TRUE, expired |-> FALSE]
      BY <2>3, <3>3
    <3> QED
      BY <3>1, <3>2, <3>3
  <2>9. journal' \in Seq(Entries)
    BY <1>1, <2>2 DEF Launch
  <2>10. launched' \in Seq(STRING) /\ reached' \in [Paths -> Nat]
    BY <1>1, <2>4, <2>5 DEF Launch
  <2>7. programs' \in Seq(STRING) /\ pc \in {"prepare", "sections"}
    BY <1>1, <2>1 DEF Launch
  <2>8. UNCHANGED <<run, cfg, pc, section, todo, rows, contacts, report, left, out, sent, exit>>
    BY <1>1 DEF Launch, writing
  <2> QED
    BY <2>6, <2>7, <2>8, <2>9, <2>10
<1>2. CASE Skip
  BY <1>2 DEF Skip, writing
<1>3. CASE Wait
  <2>1. child \in Children /\ child.program \in STRING
    BY <1>3 DEF Wait, Children
  <2>2. \A o \in Outcomes(child) : Append(journal, Entry(child.program, o)) \in Seq(Entries)
    BY <2>1 DEF Outcomes, Entry, Entries
  <2> QED
    BY <1>3, <2>2 DEF Wait, writing
<1>4. CASE Prepared
  BY <1>4 DEF Prepared, writing
<1>5. CASE BeginSection
  BY <1>5, ProgramsOf DEF BeginSection, writing
<1>6. CASE AskOSV
  BY <1>6, ContactTyped DEF AskOSV, Contact, Paths, writing
<1>7. CASE DialRegistry
  BY <1>7, ContactTyped DEF DialRegistry, Contact, Paths, writing
<1>8. CASE EndSection
  BY <1>8 DEF EndSection, writing
<1>9. CASE Seal
  <2>1. FeedContacts(journal) \in Nat
    BY CountType
  <2>2. NetworkRecord(journal) \in [Paths -> Nat]
    BY <2>1 DEF NetworkRecord, Paths
  <2>3. report' \in Reports
    BY <1>9, <2>2 DEF Seal, Reports
  <2>4. rows' \in Seq([section : Sections, status : {"ok", "partial", "failed", "not-applicable"}])
    <3> DEFINE Rows == [section : Sections, status : {"ok", "partial", "failed", "not-applicable"}]
               row == [section |-> "witness", status |-> "not-applicable"]
    <3>1. row \in Rows
      BY DEF Sections
    <3>2. rows \in Seq(Rows) /\ (rows' = rows \/ rows' = Append(rows, row))
      BY <1>9 DEF Seal
    <3> HIDE DEF Rows, row
    <3>3. rows' \in Seq(Rows)
      BY <3>1, <3>2, AppendIn
    <3> QED
      BY <3>3 DEF Rows
  <2> QED
    <3>1. report' # None
      BY <2>3, NoneIsNone
    <3>2. /\ pc' = "redact" /\ pc = "sections" /\ section = None
          /\ UNCHANGED <<run, cfg, section, todo, programs, child, journal, contacts, launched, reached, left, out, sent, exit>>
      BY <1>9 DEF Seal
    <3>3. child = None
      BY <1>9 DEF Seal, Idle
    <3> QED
      BY <2>3, <2>4, <3>1, <3>2, <3>3
<1>10. CASE Redact
  <2>1. report' \in Reports
    BY <1>10 DEF Redact, Reports
  <2> QED
    BY <1>10, <2>1, OutputsTyped, NoneIsNone DEF Redact, collecting
<1>11. CASE WriteFile
  <2>1. Head(left) \in AllOutputs /\ Tail(left) \in Seq(AllOutputs)
    BY <1>11 DEF WriteFile
  <2>2. /\ Written(TRUE) \in [run : 0 .. MaxRuns, whole : BOOLEAN, redacted : BOOLEAN]
        /\ Written(FALSE) \in [run : 0 .. MaxRuns, whole : BOOLEAN, redacted : BOOLEAN]
    BY <1>11, WrittenTyped DEF WriteFile
  <2>3. out' \in [AllOutputs -> [run : 0 .. MaxRuns, whole : BOOLEAN, redacted : BOOLEAN]]
    BY <1>11, <2>1, <2>2 DEF WriteFile
  <2> QED
    BY <1>11, <2>1, <2>3 DEF WriteFile, collecting
<1>12. CASE CannotRender
  BY <1>12 DEF CannotRender, collecting, writing
<1>13. CASE Finish
  BY <1>13 DEF Finish, StatusCode, collecting, writing
<1>14. CASE Upload
  <2>1. Append(sent, [run |-> run, redacted |-> report.redacted]) \in Seq([run : 1 .. MaxRuns, redacted : BOOLEAN])
    BY <1>14 DEF Upload, Reports
  <2> QED
    BY <1>14, <2>1 DEF Upload, StatusCode, collecting
<1>15. CASE ProcessExits
  <2>1. child' \in Children /\ child'.process = "exited"
    BY <1>15 DEF ProcessExits, Children
  <2> QED
    BY <1>15, <2>1 DEF ProcessExits, writing
<1>16. CASE DescendantEnds
  <2>1. child' \in Children /\ child'.process # "running"
    BY <1>16 DEF DescendantEnds, Children
  <2> QED
    BY <1>16, <2>1 DEF DescendantEnds, writing
<1>17. CASE Deadline
  <2>1. child' \in Children /\ child'.process # "running"
    BY <1>17 DEF Deadline, Children
  <2> QED
    BY <1>17, <2>1 DEF Deadline, writing
<1>18. CASE Interrupt
  <2>1. out' \in [AllOutputs -> [run : 0 .. MaxRuns, whole : BOOLEAN, redacted : BOOLEAN]]
    <3>1. CASE pc = "write" /\ left # <<>>
      <4>1. Head(left) \in AllOutputs
        BY <3>1
      <4>2. Written(FALSE) \in [run : 0 .. MaxRuns, whole : BOOLEAN, redacted : BOOLEAN]
        BY <3>1, WrittenTyped
      <4> QED
        BY <1>18, <3>1, <4>1, <4>2 DEF Interrupt
    <3> QED
      BY <1>18, <3>1 DEF Interrupt
  <2>2. sent' \in Seq([run : 1 .. MaxRuns, redacted : BOOLEAN])
    <3>1. CASE pc = "write"
      <4>1. Append(sent, [run |-> run, redacted |-> report.redacted]) \in Seq([run : 1 .. MaxRuns, redacted : BOOLEAN])
        BY <3>1 DEF Reports
      <4> QED
        BY <1>18, <4>1 DEF Interrupt
    <3> QED
      BY <1>18, <3>1 DEF Interrupt
  <2> QED
    BY <1>18, <2>1, <2>2 DEF Interrupt
<1>19. CASE RunAgain
  <2> PICK c \in Configs : Fresh(c)
    BY <1>19 DEF RunAgain
  <2>1. todo' \in Seq(Sections) /\ programs' \in Seq(STRING)
    BY ConfigFields, ProgramsOf DEF Fresh
  <2>2. contacts' \in [Paths -> 0 .. MaxContacts] /\ reached' \in [Paths -> Nat]
    BY BoundsTyped DEF Fresh
  <2>3. run' \in 1 .. MaxRuns
    BY <1>19, BoundsTyped DEF RunAgain
  <2> QED
    BY <1>19, <2>1, <2>2, <2>3 DEF RunAgain, Fresh
<1>20. CASE UNCHANGED vars
  BY <1>20 DEF vars, collecting, writing
<1> QED
  BY <1>1, <1>2, <1>3, <1>4, <1>5, <1>6, <1>7, <1>8, <1>9, <1>10, <1>11, <1>12, <1>13, <1>14,
     <1>15, <1>16, <1>17, <1>18, <1>19, <1>20 DEF Next, Running, Collecting, Delivering

\* A program runs for Prepare or for a section.
LEMMA StepIdle == TypeOK /\ Idle /\ [Next]_vars => Idle'
<1> SUFFICES ASSUME TypeOK, Idle, [Next]_vars PROVE Idle'
  OBVIOUS
<1>1. CASE Launch \/ Skip \/ Wait \/ ProcessExits \/ DescendantEnds \/ Deadline
  BY <1>1 DEF Idle, Launch, Skip, Wait, ProcessExits, DescendantEnds, Deadline
<1>2. CASE Prepared \/ BeginSection \/ EndSection \/ Seal
  BY <1>2, NoneIsNone DEF TypeOK, Idle, Prepared, BeginSection, EndSection, Seal
<1>3. CASE AskOSV \/ DialRegistry
  BY <1>3 DEF Idle, AskOSV, DialRegistry, Contact
<1>4. CASE Redact \/ WriteFile \/ CannotRender \/ Finish \/ Upload \/ Interrupt \/ RunAgain
  BY <1>4 DEF Idle, Redact, WriteFile, CannotRender, Finish, Upload, Interrupt, RunAgain, Fresh, collecting
<1>5. CASE UNCHANGED vars
  BY <1>5 DEF Idle, vars, collecting
<1> QED
  BY <1>1, <1>2, <1>3, <1>4, <1>5 DEF Next, Running, Collecting, Delivering

\* A run's state is one that its phase allows (main.go runCLI, audit.go Run).
THEOREM Typed == Spec => []TypeOK
<1>1. Init => Idle
  BY DEF Init, Idle
<1> QED
  BY <1>1, InitTyped, StepTyped, StepIdle, PTL DEF Spec

-----------------------------------------------------------------------------
(***************************************************************************)
(* The network record.  While the run collects, a contact is counted, or   *)
(* its program has not been waited for yet.                                *)
(***************************************************************************)

Pending == IF child # None /\ child.program \in NetworkPrograms THEN 1 ELSE 0

Collects == pc \in {"prepare", "sections"}

\* What was reached is counted.
Counts ==
  Collects =>
    /\ report = None
    /\ reached["osv-api"] <= contacts["osv-api"]
    /\ reached["registry-egress"] <= contacts["registry-egress"]
    /\ reached["distro-feeds"] <= FeedContacts(journal) + Pending

\* What was counted was allowed.
Allowed ==
  Collects =>
    /\ contacts["osv-api"] > 0 \/ FeedContacts(journal) > 0 \/ Pending > 0 => cfg.online
    /\ contacts["registry-egress"] > 0 => cfg.egress /\ cfg.preflight
    /\ "witness" \in ToSet(todo) \/ section = "witness" => cfg.preflight

NetInv == Counts /\ Allowed /\ NetworkIsTold

\* Every step keeps the record whole.
LEMMA StepNet == TypeOK /\ Idle /\ NetInv /\ [Next]_vars => NetInv'
<1> SUFFICES ASSUME TypeOK, Idle, NetInv, [Next]_vars PROVE NetInv'
  OBVIOUS
<1>t. /\ journal \in Seq(Entries) /\ FeedContacts(journal) \in Nat /\ Pending \in {0, 1}
      /\ \A path \in Paths : contacts[path] \in Nat /\ reached[path] \in Nat
      /\ contacts["osv-api"] \in Nat /\ contacts["registry-egress"] \in Nat
      /\ reached["osv-api"] \in Nat /\ reached["registry-egress"] \in Nat /\ reached["distro-feeds"] \in Nat
  BY CountType, BoundsTyped DEF TypeOK, Pending, Paths
<1>1. CASE Launch
  <2> DEFINE p == Head(programs)
  <2>1. /\ Collects /\ child = None /\ p \in STRING /\ (p \in NetworkPrograms => cfg.online)
        /\ UNCHANGED <<cfg, pc, section, todo, contacts, report>>
    BY <1>1 DEF Launch, TypeOK, Collects, writing
  <2>2. report' = None /\ NetworkIsTold' /\ Pending = 0
    BY <2>1 DEF NetInv, Counts, NetworkIsTold, Pending
  <2>3. CASE journal' = Append(journal, Entry(p, "missing")) /\ UNCHANGED <<child, launched, reached>>
    <3>1. Entry(p, "missing") \in Entries /\ Entry(p, "missing").outcome = "missing"
      BY <2>1 DEF Entry, Entries
    <3>2. FeedContacts(journal') = FeedContacts(journal)
      BY <3>1, <2>3, <1>t, CountAppend
    <3> QED
      BY <2>1, <2>2, <2>3, <3>2 DEF NetInv, Counts, Allowed, Collects, Pending
  <2>4. CASE journal' = Append(journal, Entry(p, "failed")) /\ UNCHANGED <<child, reached>>
    <3>1. Entry(p, "failed") \in Entries /\ Entry(p, "failed").outcome = "failed" /\ Entry(p, "failed").program = p
      BY <2>1 DEF Entry, Entries
    <3>2. FeedContacts(journal') = FeedContacts(journal) + (IF p \in NetworkPrograms THEN 1 ELSE 0)
      BY <3>1, <2>4, <1>t, CountAppend
    <3>3. Counts'
      BY <1>t, <2>1, <2>2, <2>4, <3>2 DEF NetInv, Counts, Collects, Pending
    <3>4. Allowed'
      BY <1>t, <2>1, <2>2, <2>4, <3>2 DEF NetInv, Allowed, Collects, Pending
    <3> QED
      BY <2>2, <3>3, <3>4 DEF NetInv
  <2>5. CASE /\ child' = [program |-> p, process |-> "running", pipe |-> TRUE, expired |-> FALSE]
             /\ reached' = IF p \in NetworkPrograms THEN [reached EXCEPT !["distro-feeds"] = @ + 1] ELSE reached
             /\ UNCHANGED journal
    <3>1. child' \in Children
      BY <2>1, <2>5 DEF Children
    <3>2. child' # None /\ child'.program = p
      BY <3>1, <2>5, NoneIsNone
    <3>3. Pending' = IF p \in NetworkPrograms THEN 1 ELSE 0
      BY <3>2 DEF Pending
    <3>4. /\ reached'["osv-api"] = reached["osv-api"] /\ reached'["registry-egress"] = reached["registry-egress"]
          /\ reached'["distro-feeds"] = reached["distro-feeds"] + (IF p \in NetworkPrograms THEN 1 ELSE 0)
      BY <1>t, <2>5 DEF TypeOK, Paths
    <3>5. Counts'
      BY <1>t, <2>1, <2>2, <2>5, <3>3, <3>4 DEF NetInv, Counts, Collects
    <3>6. Allowed'
      BY <1>t, <2>1, <2>2, <2>5, <3>3 DEF NetInv, Allowed, Collects
    <3> QED
      BY <2>2, <3>5, <3>6 DEF NetInv
  <2> QED
    BY <1>1, <2>3, <2>4, <2>5 DEF Launch
<1>2. CASE Wait
  <2> PICK o \in Outcomes(child) : journal' = Append(journal, Entry(child.program, o))
    BY <1>2 DEF Wait
  <2>1. /\ child \in Children /\ child # None /\ child' = None /\ Collects
        /\ UNCHANGED <<cfg, pc, section, todo, contacts, reached, report>>
    BY <1>2 DEF Wait, TypeOK, Collects, writing
  <2>2. /\ Entry(child.program, o) \in Entries /\ o # "missing"
        /\ Entry(child.program, o).outcome = o /\ Entry(child.program, o).program = child.program
    BY <2>1 DEF Outcomes, Entry, Entries, Children
  <2>3. FeedContacts(journal') = FeedContacts(journal) + Pending /\ Pending' = 0
    BY <1>t, <2>1, <2>2, CountAppend DEF Pending
  <2>4. Counts' /\ NetworkIsTold'
    BY <1>t, <2>1, <2>3 DEF NetInv, Counts, NetworkIsTold, Collects
  <2>5. Allowed'
    BY <1>t, <2>1, <2>3 DEF NetInv, Allowed, Collects
  <2> QED
    BY <2>4, <2>5 DEF NetInv
<1>3. CASE ProcessExits \/ DescendantEnds \/ Deadline
  <2>0. child \in Children /\ child # None
    BY <1>3 DEF ProcessExits, DescendantEnds, Deadline, TypeOK
  <2>a. child' \in Children /\ child'.program = child.program
    <3>1. CASE ProcessExits
      BY <2>0, <3>1 DEF ProcessExits, Children
    <3>2. CASE DescendantEnds
      BY <2>0, <3>2 DEF DescendantEnds, Children
    <3>3. CASE Deadline
      BY <2>0, <3>3 DEF Deadline, Children
    <3> QED
      BY <1>3, <3>1, <3>2, <3>3
  <2>1. child # None /\ child' # None /\ child'.program = child.program
    BY <2>0, <2>a, NoneIsNone
  <2>2. UNCHANGED <<cfg, pc, section, todo, journal, contacts, reached, report>> /\ Pending' = Pending
    BY <1>3, <2>1 DEF ProcessExits, DescendantEnds, Deadline, writing, Pending
  <2> QED
    BY <2>2 DEF NetInv, Counts, Allowed, NetworkIsTold, Collects
<1>4. CASE Skip \/ Prepared \/ EndSection
  <2>1. /\ Collects /\ (section' = None \/ section' = section)
        /\ UNCHANGED <<cfg, todo, child, journal, contacts, reached, report>>
    BY <1>4 DEF Skip, Prepared, EndSection, writing, Collects
  <2> QED
    BY <2>1, NoneIsNone DEF NetInv, Counts, Allowed, NetworkIsTold, Collects, Pending, Sections
<1>5. CASE BeginSection
  <2>1. ToSet(todo) = {Head(todo)} \cup ToSet(Tail(todo))
    BY <1>5, ToSetHeadTail DEF BeginSection, TypeOK
  <2>2. /\ section' = Head(todo) /\ todo' = Tail(todo)
        /\ UNCHANGED <<cfg, pc, child, journal, contacts, reached, report>>
    BY <1>5 DEF BeginSection, writing
  <2> QED
    BY <2>1, <2>2 DEF NetInv, Counts, Allowed, NetworkIsTold, Collects, Pending
<1>6. CASE AskOSV
  <2>1. /\ pc = "sections" /\ cfg.online /\ contacts' = [contacts EXCEPT !["osv-api"] = @ + 1]
        /\ reached' = reached \/ reached' = [reached EXCEPT !["osv-api"] = @ + 1]
        /\ UNCHANGED <<cfg, pc, section, todo, child, journal, report>>
    BY <1>6 DEF AskOSV, Contact, writing
  <2>2. /\ contacts'["osv-api"] = contacts["osv-api"] + 1 /\ contacts'["registry-egress"] = contacts["registry-egress"]
        /\ reached'["osv-api"] <= reached["osv-api"] + 1
        /\ reached'["registry-egress"] = reached["registry-egress"] /\ reached'["distro-feeds"] = reached["distro-feeds"]
        /\ reached'["osv-api"] \in Nat
    BY <1>t, <2>1 DEF TypeOK, Paths
  <2> QED
    BY <1>t, <2>1, <2>2 DEF NetInv, Counts, Allowed, NetworkIsTold, Collects, Pending
<1>7. CASE DialRegistry
  <2>1. /\ pc = "sections" /\ section = "witness" /\ cfg.egress
        /\ contacts' = [contacts EXCEPT !["registry-egress"] = @ + 1]
        /\ reached' = reached \/ reached' = [reached EXCEPT !["registry-egress"] = @ + 1]
        /\ UNCHANGED <<cfg, pc, section, todo, child, journal, report>>
    BY <1>7 DEF DialRegistry, Contact, writing
  <2>2. /\ contacts'["registry-egress"] = contacts["registry-egress"] + 1 /\ contacts'["osv-api"] = contacts["osv-api"]
        /\ reached'["registry-egress"] <= reached["registry-egress"] + 1
        /\ reached'["osv-api"] = reached["osv-api"] /\ reached'["distro-feeds"] = reached["distro-feeds"]
        /\ reached'["registry-egress"] \in Nat
    BY <1>t, <2>1 DEF TypeOK, Paths
  <2> QED
    BY <1>t, <2>1, <2>2 DEF NetInv, Counts, Allowed, NetworkIsTold, Collects, Pending
<1>8. CASE Seal
  <2>1. /\ Collects /\ child = None /\ Pending = 0
        /\ report' = [commands |-> journal, network |-> NetworkRecord(journal), redacted |-> FALSE]
        /\ pc' = "redact" /\ UNCHANGED <<cfg, reached>>
    BY <1>8 DEF Seal, Idle, Collects, Pending
  <2>2. report'.network = NetworkRecord(journal)
    BY <2>1
  <2>3. /\ report'.network["osv-api"] = contacts["osv-api"]
        /\ report'.network["registry-egress"] = contacts["registry-egress"]
        /\ report'.network["distro-feeds"] = FeedContacts(journal)
    BY <2>2 DEF NetworkRecord, Paths
  <2>4. \A path \in Paths : reached'[path] <= report'.network[path]
    BY <1>t, <2>1, <2>3 DEF NetInv, Counts, Paths
  <2>5. NetworkIsTold'
    BY <1>t, <2>1, <2>3, <2>4 DEF NetInv, Allowed, NetworkIsTold
  <2> QED
    BY <2>1, <2>5 DEF NetInv, Counts, Allowed, Collects
<1>9. CASE Redact
  <2>1. /\ ~Collects /\ report \in Reports /\ report' = [report EXCEPT !.redacted = TRUE]
        /\ pc' = "write" /\ UNCHANGED <<cfg, reached>>
    BY <1>9, NoneIsNone DEF Redact, TypeOK, Collects, collecting
  <2>2. report # None /\ report'.network = report.network
    BY <2>1, NoneIsNone DEF Reports
  <2> QED
    BY <2>1, <2>2 DEF NetInv, Counts, Allowed, NetworkIsTold, Collects
<1>10. CASE WriteFile \/ CannotRender \/ Finish \/ Upload \/ Interrupt
  <2>1. /\ (pc' \in {pc, "exited"} /\ ~Collects) \/ pc' = "exited"
        /\ UNCHANGED <<cfg, reached, report>>
    BY <1>10 DEF WriteFile, CannotRender, Finish, Upload, Interrupt, collecting, writing, Collects
  <2> QED
    BY <2>1 DEF NetInv, Counts, Allowed, NetworkIsTold, Collects
<1>11. CASE RunAgain
  <2> PICK c \in Configs : Fresh(c)
    BY <1>11 DEF RunAgain
  <2>1. FeedContacts(journal') = 0 /\ Pending' = 0
    BY CountEmpty DEF Fresh, Pending
  <2>2. "witness" \in ToSet(todo') \/ section' = "witness" => cfg'.preflight
    BY WitnessIsPreflight, NoneIsNone DEF Fresh, Sections
  <2>3. /\ contacts'["osv-api"] = 0 /\ contacts'["registry-egress"] = 0 /\ report' = None
        /\ reached'["osv-api"] = 0 /\ reached'["registry-egress"] = 0 /\ reached'["distro-feeds"] = 0
    BY DEF Fresh, Paths
  <2> QED
    BY <2>1, <2>2, <2>3 DEF NetInv, Counts, Allowed, NetworkIsTold
<1>12. CASE UNCHANGED vars
  BY <1>12 DEF vars, collecting, writing, NetInv, Counts, Allowed, NetworkIsTold, Collects, Pending
<1> QED
  BY <1>1, <1>2, <1>3, <1>4, <1>5, <1>6, <1>7, <1>8, <1>9, <1>10, <1>11, <1>12
     DEF Next, Running, Collecting, Delivering

\* A run begins with nothing counted.
LEMMA InitNet == Init => NetInv
<1> SUFFICES ASSUME Init PROVE NetInv
  OBVIOUS
<1>1. FeedContacts(journal) = 0 /\ Pending = 0
  BY CountEmpty DEF Init, Pending
<1>2. "witness" \in ToSet(todo) \/ section = "witness" => cfg.preflight
  BY WitnessIsPreflight, NoneIsNone DEF Init, Sections
<1> QED
  BY <1>1, <1>2 DEF Init, Paths, NetInv, Counts, Allowed, NetworkIsTold

\* network.csv bounds what was reached, and tells no contact that was not allowed.
THEOREM NetworkTold == Spec => []NetworkIsTold
<1>1. Init => Idle
  BY DEF Init, Idle
<1>2. NetInv => NetworkIsTold
  BY DEF NetInv
<1> QED
  BY <1>1, <1>2, InitNet, InitTyped, StepTyped, StepIdle, StepNet, PTL DEF Spec

-----------------------------------------------------------------------------
(***************************************************************************)
(* The journal.  Every program that was started has its row, or it is the  *)
(* child that is still waited for.                                         *)
(***************************************************************************)

\* The numbering of the rows is within their number.
LEMMA TriedType ==
  ASSUME NEW s \in Seq(Entries)
  PROVE  /\ IsFiniteSet(Tried(s)) /\ Cardinality(Tried(s)) \in Nat
         /\ \A i \in Tried(s) : TriedUpTo(s, i) \in 1 .. Cardinality(Tried(s))
<1>1. IsFiniteSet(Tried(s)) /\ Cardinality(Tried(s)) \in Nat
  <2>1. IsFiniteSet(1 .. Len(s))
    BY FS_Interval
  <2>2. Tried(s) \subseteq 1 .. Len(s)
    BY DEF Tried
  <2> QED
    BY <2>1, <2>2, FS_Subset, FS_CardinalityType
<1>2. ASSUME NEW i \in Tried(s)
      PROVE  TriedUpTo(s, i) \in 1 .. Cardinality(Tried(s))
  <2> DEFINE U == {j \in Tried(s) : j <= i}
  <2>1. U \subseteq Tried(s) /\ i \in U
    BY DEF Tried
  <2>2. IsFiniteSet(U) /\ Cardinality(U) \in Nat /\ Cardinality(U) <= Cardinality(Tried(s)) /\ U # {}
    BY <1>1, <2>1, FS_Subset, FS_CardinalityType
  <2>3. Cardinality(U) # 0
    BY <2>2, FS_EmptySet
  <2> QED
    BY <1>1, <2>2, <2>3 DEF TriedUpTo
<1> QED
  BY <1>1, <1>2

\* A row more is numbered last, and the numbers of the rows before it stay.
LEMMA TriedAppend ==
  ASSUME NEW s \in Seq(Entries), NEW e \in Entries
  PROVE  LET t == Append(s, e)
             n == Len(s) + 1
         IN  /\ \A i \in Tried(s) : TriedUpTo(t, i) = TriedUpTo(s, i) /\ t[i] = s[i]
             /\ t[n] = e
             /\ e.outcome = "missing" => Tried(t) = Tried(s)
             /\ e.outcome # "missing" => /\ Tried(t) = Tried(s) \cup {n}
                                         /\ Cardinality(Tried(t)) = Cardinality(Tried(s)) + 1
                                         /\ TriedUpTo(t, n) = Cardinality(Tried(t))
<1> DEFINE t == Append(s, e)
           n == Len(s) + 1
<1>1. Len(s) \in Nat /\ t \in Seq(Entries) /\ Len(t) = n /\ t[n] = e /\ \A i \in 1 .. Len(s) : t[i] = s[i]
  OBVIOUS
<1>2. DOMAIN s = 1 .. Len(s) /\ DOMAIN t = 1 .. n
  BY <1>1
<1>3. Tried(t) = Tried(s) \cup (IF e.outcome = "missing" THEN {} ELSE {n})
  BY <1>1, <1>2 DEF Tried
<1>4. \A i \in Tried(s) : i \in 1 .. Len(s) /\ i # n /\ t[i] = s[i]
  BY <1>1, <1>2 DEF Tried
<1>5. ASSUME NEW i \in Tried(s) PROVE TriedUpTo(t, i) = TriedUpTo(s, i)
  <2>1. i \in 1 .. Len(s) /\ ~(n <= i)
    BY <1>1, <1>4
  <2>2. {j \in Tried(t) : j <= i} = {j \in Tried(s) : j <= i}
    BY <1>3, <2>1
  <2> QED
    BY <2>2 DEF TriedUpTo
<1>6. ASSUME e.outcome # "missing"
      PROVE  Cardinality(Tried(t)) = Cardinality(Tried(s)) + 1 /\ TriedUpTo(t, n) = Cardinality(Tried(t))
  <2>1. Cardinality(Tried(t)) = Cardinality(Tried(s)) + 1
    BY <1>3, <1>4, <1>6, TriedType, FS_AddElement
  <2>2. {j \in Tried(t) : j <= n} = Tried(t)
    BY <1>1, <1>3, <1>4
  <2> QED
    BY <2>1, <2>2 DEF TriedUpTo
<1> QED
  BY <1>1, <1>3, <1>4, <1>5, <1>6

\* Nothing was tried by an empty journal.
LEMMA TriedEmpty == Tried(<<>>) = {} /\ Cardinality(Tried(<<>>)) = 0 /\ Len(<<>>) = 0
<1>1. Tried(<<>>) = {}
  BY DEF Tried
<1> QED
  BY <1>1, FS_EmptySet

\* While the run collects, the journal has what was launched, but for the child.
Kept ==
  Collects =>
    /\ Len(launched) = Cardinality(Tried(journal)) + (IF child = None THEN 0 ELSE 1)
    /\ child # None => launched[Len(launched)] = child.program
    /\ \A i \in Tried(journal) : launched[TriedUpTo(journal, i)] = journal[i].program

\* With no child the journal alone has what was launched.
LEMMA KeptAlone ==
  ASSUME child' = None,
         Len(launched') = Cardinality(Tried(journal')) /\ Cardinality(Tried(journal')) \in Nat,
         \A i \in Tried(journal') : launched'[TriedUpTo(journal', i)] = journal'[i].program
  PROVE  Kept'
  BY DEF Kept

\* Every step keeps the journal.
LEMMA StepKept == TypeOK /\ Idle /\ NetInv /\ Kept /\ JournalIsWhole /\ [Next]_vars => Kept' /\ JournalIsWhole'
<1> SUFFICES ASSUME TypeOK, Idle, NetInv, Kept, JournalIsWhole, [Next]_vars PROVE Kept' /\ JournalIsWhole'
  OBVIOUS
<1>t. /\ journal \in Seq(Entries) /\ launched \in Seq(STRING) /\ Len(launched) \in Nat
      /\ Cardinality(Tried(journal)) \in Nat
      /\ \A i \in Tried(journal) : TriedUpTo(journal, i) \in 1 .. Cardinality(Tried(journal))
  BY TriedType DEF TypeOK
<1>1. CASE Launch
  <2> DEFINE p == Head(programs)
  <2>1. Collects /\ child = None /\ p \in STRING /\ UNCHANGED <<pc, report>> /\ Collects'
    BY <1>1 DEF Launch, TypeOK, Collects, writing
  <2>2. report' = None /\ JournalIsWhole'
    BY <2>1 DEF NetInv, Counts, JournalIsWhole
  <2>3. /\ Len(launched) = Cardinality(Tried(journal))
        /\ \A i \in Tried(journal) : launched[TriedUpTo(journal, i)] = journal[i].program
    BY <1>t, <2>1 DEF Kept
  <2>4. LET l == Append(launched, p)
        IN  /\ Len(l) = Len(launched) + 1 /\ l[Len(l)] = p
            /\ \A i \in Tried(journal) : l[TriedUpTo(journal, i)] = journal[i].program
    BY <1>t, <2>1, <2>3
  <2>5. CASE journal' = Append(journal, Entry(p, "missing")) /\ UNCHANGED <<child, launched>>
    <3>1. Entry(p, "missing") \in Entries /\ Entry(p, "missing").outcome = "missing"
      BY <2>1 DEF Entry, Entries
    <3>2. /\ Tried(journal') = Tried(journal)
          /\ \A i \in Tried(journal) : TriedUpTo(journal', i) = TriedUpTo(journal, i) /\ journal'[i] = journal[i]
      BY <1>t, <2>5, <3>1, TriedAppend
    <3> QED
      BY <2>1, <2>2, <2>3, <2>5, <3>2 DEF Kept
  <2>6. CASE journal' = Append(journal, Entry(p, "failed")) /\ launched' = Append(launched, p) /\ UNCHANGED child
    <3> DEFINE n == Len(journal) + 1
    <3>1. Entry(p, "failed") \in Entries /\ Entry(p, "failed").outcome = "failed" /\ Entry(p, "failed").program = p
      BY <2>1 DEF Entry, Entries
    <3>2. /\ Tried(journal') = Tried(journal) \cup {n}
          /\ Cardinality(Tried(journal')) = Cardinality(Tried(journal)) + 1
          /\ TriedUpTo(journal', n) = Cardinality(Tried(journal'))
          /\ journal'[n].program = p
          /\ \A i \in Tried(journal) : TriedUpTo(journal', i) = TriedUpTo(journal, i) /\ journal'[i] = journal[i]
      BY <1>t, <2>6, <3>1, TriedAppend
    <3>3. /\ Len(launched') = Len(launched) + 1 /\ launched'[Len(launched')] = p
          /\ \A i \in Tried(journal) : launched'[TriedUpTo(journal', i)] = journal'[i].program
      BY <2>4, <2>6, <3>2
    <3>4. \A i \in Tried(journal') : launched'[TriedUpTo(journal', i)] = journal'[i].program
      BY <2>3, <3>2, <3>3
    <3>5. child' = None /\ Len(launched') = Cardinality(Tried(journal')) /\ Cardinality(Tried(journal')) \in Nat
      BY <1>t, <2>1, <2>3, <2>6, <3>2, <3>3
    <3>6. Kept'
      BY <3>4, <3>5, KeptAlone
    <3> QED
      BY <2>2, <3>6
  <2>7. CASE /\ child' = [program |-> p, process |-> "running", pipe |-> TRUE, expired |-> FALSE]
             /\ launched' = Append(launched, p) /\ UNCHANGED journal
    <3>1. child' \in Children
      BY <2>1, <2>7 DEF Children
    <3>2. child' # None /\ child'.program = p
      BY <3>1, <2>7, NoneIsNone
    <3> QED
      BY <1>t, <2>1, <2>2, <2>3, <2>4, <2>7, <3>2 DEF Kept
  <2> QED
    BY <1>1, <2>5, <2>6, <2>7 DEF Launch
<1>2. CASE Wait
  <2> DEFINE n == Len(journal) + 1
  <2> PICK o \in Outcomes(child) : journal' = Append(journal, Entry(child.program, o))
    BY <1>2 DEF Wait
  <2>1. /\ child \in Children /\ child # None /\ child' = None /\ Collects /\ Collects'
        /\ UNCHANGED <<launched, report>>
    BY <1>2 DEF Wait, TypeOK, Collects, writing
  <2>2. /\ Entry(child.program, o) \in Entries /\ Entry(child.program, o).outcome # "missing"
        /\ Entry(child.program, o).program = child.program
    BY <2>1 DEF Outcomes, Entry, Entries, Children
  <2>3. /\ Tried(journal') = Tried(journal) \cup {n}
        /\ Cardinality(Tried(journal')) = Cardinality(Tried(journal)) + 1
        /\ TriedUpTo(journal', n) = Cardinality(Tried(journal'))
        /\ journal'[n].program = child.program
        /\ \A i \in Tried(journal) : TriedUpTo(journal', i) = TriedUpTo(journal, i) /\ journal'[i] = journal[i]
    BY <1>t, <2>2, TriedAppend
  <2>4. /\ Len(launched) = Cardinality(Tried(journal)) + 1 /\ launched[Len(launched)] = child.program
        /\ \A i \in Tried(journal) : launched[TriedUpTo(journal, i)] = journal[i].program
    BY <2>1 DEF Kept
  <2>5. \A i \in Tried(journal') : launched'[TriedUpTo(journal', i)] = journal'[i].program
    BY <2>1, <2>3, <2>4
  <2>6. Len(launched') = Cardinality(Tried(journal')) /\ Cardinality(Tried(journal')) \in Nat
    BY <1>t, <2>1, <2>3, <2>4
  <2>8. Kept'
    <3>1. child' = None
      BY <2>1
    <3> QED
      BY <3>1, <2>5, <2>6, KeptAlone
  <2>7. JournalIsWhole'
    BY <2>1 DEF NetInv, Counts, JournalIsWhole
  <2> QED
    BY <2>7, <2>8
<1>3. CASE ProcessExits \/ DescendantEnds \/ Deadline
  <2>1. child \in Children /\ child # None
    BY <1>3 DEF ProcessExits, DescendantEnds, Deadline, TypeOK
  <2>2. child' \in Children /\ child'.program = child.program
    <3>1. CASE ProcessExits
      BY <2>1, <3>1 DEF ProcessExits, Children
    <3>2. CASE DescendantEnds
      BY <2>1, <3>2 DEF DescendantEnds, Children
    <3>3. CASE Deadline
      BY <2>1, <3>3 DEF Deadline, Children
    <3> QED
      BY <1>3, <3>1, <3>2, <3>3
  <2>3. child' # None /\ UNCHANGED <<pc, journal, launched, report>>
    BY <1>3, <2>2, NoneIsNone DEF ProcessExits, DescendantEnds, Deadline, writing
  <2> QED
    BY <2>1, <2>2, <2>3 DEF Kept, JournalIsWhole, Collects
<1>4. CASE Skip \/ Prepared \/ BeginSection \/ AskOSV \/ DialRegistry \/ EndSection
  <2>1. UNCHANGED <<child, journal, launched, report>> /\ Collects
    BY <1>4 DEF Skip, Prepared, BeginSection, AskOSV, DialRegistry, EndSection, Contact, writing, Collects
  <2> QED
    BY <2>1 DEF Kept, JournalIsWhole
<1>5. CASE Seal
  <2>1. /\ Collects /\ ~Collects' /\ child = None /\ UNCHANGED launched
        /\ report' = [commands |-> journal, network |-> NetworkRecord(journal), redacted |-> FALSE]
    BY <1>5 DEF Seal, Idle, Collects
  <2>2. report'.commands = journal
    BY <2>1
  <2> QED
    BY <1>t, <2>1, <2>2 DEF Kept, JournalIsWhole
<1>6. CASE Redact
  <2>1. /\ report \in Reports /\ report # None /\ report' = [report EXCEPT !.redacted = TRUE]
        /\ ~Collects' /\ UNCHANGED launched
    BY <1>6, NoneIsNone DEF Redact, TypeOK, Collects, collecting
  <2>2. report'.commands = report.commands
    BY <2>1 DEF Reports
  <2> QED
    BY <2>1, <2>2 DEF Kept, JournalIsWhole
<1>7. CASE WriteFile \/ CannotRender \/ Finish \/ Upload \/ Interrupt
  <2>1. ~Collects' /\ UNCHANGED <<launched, report>>
    BY <1>7 DEF WriteFile, CannotRender, Finish, Upload, Interrupt, collecting, writing, Collects
  <2> QED
    BY <2>1 DEF Kept, JournalIsWhole
<1>8. CASE RunAgain
  <2>1. journal' = <<>> /\ launched' = <<>> /\ child' = None /\ report' = None
    BY <1>8 DEF RunAgain, Fresh
  <2> QED
    BY <2>1, TriedEmpty DEF Kept, JournalIsWhole
<1>9. CASE UNCHANGED vars
  BY <1>9 DEF vars, collecting, writing, Kept, JournalIsWhole, Collects
<1> QED
  BY <1>1, <1>2, <1>3, <1>4, <1>5, <1>6, <1>7, <1>8, <1>9 DEF Next, Running, Collecting, Delivering

\* commands.csv is what was launched.
THEOREM JournalWhole == Spec => []JournalIsWhole
<1>1. Init => Idle /\ NetInv
  BY InitNet DEF Init, Idle
<1>2. Init => Kept /\ JournalIsWhole
  BY TriedEmpty DEF Init, Kept, JournalIsWhole
<1> QED
  BY <1>1, <1>2, InitTyped, StepTyped, StepIdle, StepNet, StepKept, PTL DEF Spec

-----------------------------------------------------------------------------
(***************************************************************************)
(* What leaves, and what the exit status says of it.                       *)
(***************************************************************************)

Mine(f) == out[f].run = run /\ out[f].whole

\* What went out was redacted; what was sent belongs to one run each, and to this one
\* only when it has ended.
Clean ==
  /\ pc = "write" => report.redacted
  /\ \A f \in AllOutputs : out[f].redacted
  /\ \A i \in DOMAIN sent : /\ sent[i].redacted /\ sent[i].run <= run
                            /\ pc # "exited" => sent[i].run < run
                            /\ \A j \in DOMAIN sent : sent[i].run = sent[j].run => i = j

\* While the report is written, a file that is not left is this run's.
Delivered ==
  pc = "write" => \A f \in ToSet(Outputs(cfg)) : f \in ToSet(left) \/ Mine(f)

OutInv == Clean /\ Delivered /\ ExitIsTrue

\* What was sent names a run.
LEMMA SentRuns ==
  ASSUME TypeOK
  PROVE  \A i \in DOMAIN sent : sent[i].run \in Int
<1> DEFINE S == [run : 1 .. MaxRuns, redacted : BOOLEAN]
<1>1. \A i \in DOMAIN sent : sent[i] \in S
  <2>1. sent \in Seq(S)
    BY DEF TypeOK
  <2> HIDE DEF S
  <2> QED
    BY <2>1
<1>2. \A s \in S : s.run \in 1 .. MaxRuns
  OBVIOUS
<1> QED
  BY <1>1, <1>2, BoundsTyped

\* Sending one more keeps what was sent clean.
LEMMA SendOne ==
  ASSUME TypeOK, Clean, pc = "write", pc' = "exited", UNCHANGED run, \A f \in AllOutputs : out'[f].redacted,
         sent' = Append(sent, [run |-> run, redacted |-> report.redacted])
  PROVE  Clean' /\ \E s \in ToSet(sent') : s.run = run
<1> DEFINE e == [run |-> run, redacted |-> report.redacted]
           n == Len(sent) + 1
<1>1. Len(sent) \in Nat /\ DOMAIN sent = 1 .. Len(sent) /\ DOMAIN sent' = 1 .. n
  BY DEF TypeOK
<1>2. sent'[n] = e /\ \A i \in 1 .. Len(sent) : sent'[i] = sent[i]
  BY DEF TypeOK
<1>3. e.run = run /\ e.redacted /\ run \in Int
  BY DEF Clean, TypeOK
<1>4. \A i \in 1 .. Len(sent) : sent[i].redacted /\ sent[i].run < run /\ sent[i].run \in Int
  <2>1. \A i \in 1 .. Len(sent) : sent[i].run \in Int
    BY SentRuns, <1>1
  <2>2. \A i \in 1 .. Len(sent) : sent[i].redacted /\ sent[i].run < run
    BY <1>1 DEF Clean
  <2> QED
    BY <2>1, <2>2
<1>5. \A i \in 1 .. Len(sent) : \A j \in 1 .. Len(sent) : sent[i].run = sent[j].run => i = j
  BY <1>1 DEF Clean
<1>6. \A i \in 1 .. n : i = n \/ i \in 1 .. Len(sent)
  BY <1>1
<1> HIDE DEF e, n
<1>7. \A i \in 1 .. n : sent'[i].redacted /\ sent'[i].run <= run
  BY <1>2, <1>3, <1>4, <1>6
<1>8. \A i \in 1 .. n : \A j \in 1 .. n : sent'[i].run = sent'[j].run => i = j
  BY <1>2, <1>3, <1>4, <1>5, <1>6
<1>9. Clean'
  BY <1>1, <1>7, <1>8 DEF Clean
<1>10. n \in DOMAIN sent'
  BY <1>1 DEF n
<1> QED
  BY <1>2, <1>3, <1>9, <1>10 DEF ToSet

\* Before a run has ended nothing of it has arrived.
LEMMA NotYetSent ==
  ASSUME TypeOK, Clean, pc # "exited"
  PROVE  ~ \E s \in ToSet(sent) : s.run = run
  BY DEF TypeOK, Clean, ToSet

\* A step that sends and writes nothing and ends in no status that tells of a delivery.
LEMMA OutFrame ==
  ASSUME TypeOK, OutInv, UNCHANGED <<run, cfg, sent>>, pc # "exited",
         exit' \in {"none", "usage", "killed"}, pc' = "exited" \/ pc' # "write",
         \A f \in AllOutputs : out'[f].redacted
  PROVE  OutInv'
<1>1. Clean' /\ Delivered'
  BY DEF OutInv, Clean, Delivered
<1>2. ~ \E s \in ToSet(sent) : s.run = run
  BY NotYetSent DEF OutInv
<1>3. ExitIsTrue'
  BY <1>2 DEF ExitIsTrue
<1> QED
  BY <1>1, <1>3 DEF OutInv

\* Every step keeps what the status tells true.
LEMMA StepOut == TypeOK /\ OutInv /\ [Next]_vars => OutInv'
<1> SUFFICES ASSUME TypeOK, OutInv, [Next]_vars PROVE OutInv'
  OBVIOUS
<1>o. \A f \in AllOutputs : out[f].redacted
  BY DEF OutInv, Clean
<1>1. CASE Running \/ Prepared \/ BeginSection \/ AskOSV \/ DialRegistry \/ EndSection \/ Seal
  <2>1. /\ UNCHANGED <<run, cfg, sent, out>> /\ pc \in {"prepare", "sections"} /\ pc' # "write" /\ exit' \in {exit, "usage"}
    BY <1>1 DEF Running, Launch, Skip, Wait, Prepared, BeginSection, AskOSV, DialRegistry, EndSection, Seal,
                Contact, writing, TypeOK
  <2>2. exit = "none"
    BY <2>1 DEF TypeOK
  <2> QED
    BY <1>o, <2>1, <2>2, OutFrame
<1>2. CASE ProcessExits \/ DescendantEnds \/ Deadline
  <2>1. UNCHANGED <<run, cfg, sent, out, pc, exit>> /\ pc \in {"prepare", "sections"}
    BY <1>2 DEF ProcessExits, DescendantEnds, Deadline, writing, TypeOK
  <2>2. exit = "none"
    BY <2>1 DEF TypeOK
  <2> QED
    BY <1>o, <2>1, <2>2, OutFrame
<1>3. CASE Redact
  <2>1. /\ report \in Reports /\ report' = [report EXCEPT !.redacted = TRUE] /\ left' = Outputs(cfg)
        /\ pc = "redact" /\ pc' = "write" /\ UNCHANGED <<run, cfg, out, sent, exit, rows>>
    BY <1>3, NoneIsNone DEF Redact, TypeOK, collecting
  <2>2. report'.redacted
    BY <2>1 DEF Reports
  <2>3. exit = "none"
    BY <2>1 DEF TypeOK
  <2>4. ExitIsTrue'
    BY <2>1, <2>3 DEF OutInv, ExitIsTrue
  <2> QED
    BY <2>1, <2>2, <2>4 DEF OutInv, Clean, Delivered
<1>4. CASE WriteFile
  <2> DEFINE h == Head(left)
  <2>1. h \in AllOutputs /\ ToSet(left) = {h} \cup ToSet(Tail(left))
    BY <1>4, ToSetHeadTail DEF WriteFile, TypeOK
  <2>2. pc = "write" /\ exit = "none" /\ UNCHANGED <<run, cfg, rows, report, sent>>
    BY <1>4 DEF WriteFile, TypeOK, collecting
  <2>3. \A w \in BOOLEAN : /\ Written(w).run = run /\ Written(w).whole = w /\ Written(w).redacted
    BY <2>2 DEF Written, OutInv, Clean
  <2>4. CASE out' = [out EXCEPT ![h] = Written(TRUE)] /\ left' = Tail(left) /\ UNCHANGED <<pc, exit>>
    <3>1. \A f \in AllOutputs : out'[f] = IF f = h THEN Written(TRUE) ELSE out[f]
      BY <2>4 DEF TypeOK
    <3>2. \A f \in ToSet(Outputs(cfg)) : f \in AllOutputs
      BY OutputsTyped DEF TypeOK, ToSet
    <3>3. Clean'
      BY <1>o, <2>2, <2>3, <2>4, <3>1 DEF OutInv, Clean
    <3>4. Delivered'
      BY <2>1, <2>2, <2>3, <2>4, <3>1, <3>2 DEF OutInv, Delivered, Mine
    <3>5. ExitIsTrue'
      BY <2>2, <2>4 DEF OutInv, ExitIsTrue
    <3> QED
      BY <3>3, <3>4, <3>5 DEF OutInv
  <2>5. CASE /\ \E held \in {Written(FALSE), out[h]} : out' = [out EXCEPT ![h] = held]
             /\ pc' = "exited" /\ exit' = "usage"
    <3>1. \A f \in AllOutputs : out'[f].redacted
      BY <1>o, <2>1, <2>3, <2>5 DEF TypeOK
    <3> QED
      BY <2>2, <2>5, <3>1, OutFrame
  <2> QED
    BY <1>4, <2>4, <2>5 DEF WriteFile
<1>5. CASE CannotRender
  BY <1>5, <1>o, OutFrame DEF CannotRender, collecting, writing
<1>6. CASE Finish
  <2>1. /\ pc = "write" /\ left = <<>> /\ ~cfg.upload /\ pc' = "exited" /\ exit' = StatusCode
        /\ UNCHANGED <<run, cfg, rows, report, out, sent>>
    BY <1>6 DEF Finish, collecting, writing
  <2>2. \A f \in ToSet(Outputs(cfg)) : Mine(f)
    BY <2>1 DEF OutInv, Delivered, ToSet
  <2>3. ~ \E s \in ToSet(sent) : s.run = run
    BY <2>1, NotYetSent DEF OutInv
  <2>4. ExitIsTrue'
    BY <2>1, <2>2, <2>3 DEF ExitIsTrue, Mine, StatusCode
  <2> QED
    BY <2>1, <2>4 DEF OutInv, Clean, Delivered
<1>7. CASE Upload
  <2>1. /\ pc = "write" /\ left = <<>> /\ cfg.upload /\ pc' = "exited"
        /\ UNCHANGED <<run, cfg, rows, report, out>>
    BY <1>7 DEF Upload, collecting
  <2>2. \A f \in ToSet(Outputs(cfg)) : Mine(f)
    BY <2>1 DEF OutInv, Delivered, ToSet
  <2>3. CASE sent' = Append(sent, [run |-> run, redacted |-> report.redacted]) /\ exit' \in {StatusCode, "upload"}
    <3>1. Clean' /\ \E s \in ToSet(sent') : s.run = run
      BY <1>o, <2>1, <2>3, SendOne DEF OutInv
    <3>2. ExitIsTrue'
      BY <2>1, <2>2, <2>3, <3>1 DEF ExitIsTrue, Mine, StatusCode
    <3> QED
      BY <2>1, <3>1, <3>2 DEF OutInv, Delivered
  <2>4. CASE UNCHANGED sent /\ exit' = "upload"
    <3>1. ExitIsTrue'
      BY <2>1, <2>2, <2>4 DEF ExitIsTrue, Mine
    <3> QED
      BY <2>1, <2>4, <3>1 DEF OutInv, Clean, Delivered
  <2> QED
    BY <1>7, <2>3, <2>4 DEF Upload
<1>8. CASE Interrupt
  <2>1. pc # "exited" /\ pc' = "exited" /\ exit' = "killed" /\ UNCHANGED <<run, cfg, report>>
    BY <1>8 DEF Interrupt
  <2>2. \A f \in AllOutputs : out'[f].redacted
    <3>1. CASE pc = "write" /\ left # <<>>
      <4>1. Head(left) \in AllOutputs /\ Written(FALSE).redacted
        BY <3>1 DEF TypeOK, Written, OutInv, Clean
      <4> QED
        BY <1>8, <1>o, <3>1, <4>1 DEF Interrupt, TypeOK
    <3> QED
      BY <1>8, <1>o, <3>1 DEF Interrupt
  <2>3. CASE UNCHANGED sent
    BY <2>1, <2>2, <2>3, OutFrame
  <2>4. CASE pc = "write" /\ sent' = Append(sent, [run |-> run, redacted |-> report.redacted])
    <3>1. Clean'
      BY <2>1, <2>2, <2>4, SendOne DEF OutInv
    <3> QED
      BY <2>1, <3>1 DEF OutInv, Delivered, ExitIsTrue
  <2> QED
    BY <1>8, <2>3, <2>4 DEF Interrupt
<1>9. CASE RunAgain
  <2>1. /\ pc' = "prepare" /\ exit' = "none" /\ run' = run + 1 /\ run \in Int /\ UNCHANGED <<out, sent>>
    BY <1>9 DEF RunAgain, Fresh, TypeOK
  <2>2. \A i \in DOMAIN sent : sent[i].run <= run /\ sent[i].run \in Int
    BY SentRuns DEF OutInv, Clean
  <2>3. Clean'
    BY <2>1, <2>2 DEF OutInv, Clean
  <2>4. ExitIsTrue'
    BY <2>1, <2>2 DEF ExitIsTrue, ToSet
  <2> QED
    BY <2>1, <2>3, <2>4 DEF OutInv, Delivered
<1>10. CASE UNCHANGED vars
  BY <1>10 DEF vars, collecting, writing, OutInv, Clean, Delivered, Mine, ExitIsTrue
<1> QED
  BY <1>1, <1>2, <1>3, <1>4, <1>5, <1>6, <1>7, <1>8, <1>9, <1>10 DEF Next, Collecting, Delivering

LEMMA InitOut == Init => OutInv
<1> SUFFICES ASSUME Init PROVE OutInv
  OBVIOUS
<1>1. ToSet(sent) = {} /\ DOMAIN sent = {}
  BY DEF Init, ToSet
<1> QED
  BY <1>1 DEF Init, OutInv, Clean, Delivered, ExitIsTrue

\* The exit status tells what was delivered, whatever earlier runs left in the directory.
THEOREM ExitTrue == Spec => []ExitIsTrue
<1>1. Init => Idle
  BY DEF Init, Idle
<1>2. OutInv => ExitIsTrue
  BY DEF OutInv
<1> QED
  BY <1>1, <1>2, InitTyped, InitOut, StepTyped, StepIdle, StepOut, PTL DEF Spec

\* Nothing leaves before the redaction, and no report is sent twice.
THEOREM RedactedLeaves == Spec => []OnlyRedactedLeaves
<1>1. Init => Idle
  BY DEF Init, Idle
<1>2. OutInv => OnlyRedactedLeaves
  BY DEF OutInv, Clean, OnlyRedactedLeaves
<1> QED
  BY <1>1, <1>2, InitTyped, InitOut, StepTyped, StepIdle, StepOut, PTL DEF Spec

=============================================================================

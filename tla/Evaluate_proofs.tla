---------------------------- MODULE Evaluate_proofs ----------------------------
(***************************************************************************)
(* Proofs about Evaluate for every number of rules and whatever they       *)
(* return: its types, the two invariants that tie severity to outcome, that*)
(* nothing is lost silently, and that it implements RulePromise.           *)
(***************************************************************************)
EXTENDS Evaluate, TLAPS

\* Where evaluation stands: the first `evaluated` rules are decided, and the section
\* ends after the last.
Progress ==
  /\ \A r \in 1 .. N : outcome[r] = "" <=> r > evaluated
  /\ done => evaluated = N
  /\ done /\ status = "ok" => ~dropped /\ ~corrected

\* What became of a finding f that rule r returned: published, and, until something is
\* dropped or corrected, as it was said.
KeptOf(r, f) ==
  /\ f.evidence => \E g \in published :
       /\ g.rule = r /\ g.outcome = FilledOutcome(f)
       /\ g.outcome = "problem" => g.severity = f.severity
  /\ ~dropped /\ ~corrected =>
       [rule |-> r, outcome |-> FilledOutcome(f), severity |-> f.severity] \in published

Kept == \A s \in said : KeptOf(s.rule, s.finding)

Inv == TypeOK /\ Progress /\ Kept /\ OnlyProblemBlocks

-----------------------------------------------------------------------------

\* The outcome and severity of a published finding are of their types.
LEMMA Filled == ASSUME NEW f \in RuleFinding
                PROVE  FilledOutcome(f) \in Outcome /\ FixedSeverity(f) \in Severity
BY DEF RuleFinding, OutcomeOrNone, FilledOutcome, FixedSeverity, Outcome, Severity

LEMMA Endings == Outcome \subseteq OutcomeOrNone /\ "" \in OutcomeOrNone /\ "" \notin Outcome
BY DEF OutcomeOrNone, Outcome

\* The most pressing of some outcomes is one of them and none is more pressing.
LEMMA Most == ASSUME NEW os \in SUBSET Outcome, os # {}
              PROVE  MostPressing(os) \in os /\ \A p \in os : Rank(MostPressing(os)) <= Rank(p)
<1>1. PICK o \in os : TRUE
  OBVIOUS
<1>2. o \in Outcome
  OBVIOUS
<1>3. MostPressing(os) \in os
  BY <1>1, <1>2 DEF Outcome, MostPressing
<1>4. ASSUME NEW p \in os PROVE Rank(MostPressing(os)) <= Rank(p)
  <2>1. p \in Outcome
    OBVIOUS
  <2>2. CASE p = "problem"        BY <2>2 DEF MostPressing, Rank
  <2>3. CASE p = "unknown"        BY <2>3 DEF MostPressing, Rank
  <2>4. CASE p = "manual-check"   BY <2>4 DEF MostPressing, Rank
  <2>5. CASE p = "no-problem"     BY <2>5 DEF MostPressing, Rank
  <2>6. CASE p = "not-applicable" BY <2>6 DEF MostPressing, Rank
  <2> QED BY <2>1, <2>2, <2>3, <2>4, <2>5, <2>6 DEF Outcome
<1> QED BY <1>3, <1>4

\* What a rule's evaluation publishes.
Findings(r, returned) == {Published(r, f) : f \in {g \in returned : g.evidence}}

\* It publishes findings of that rule, and no blocker but a problem.
LEMMA Publishing ==
  ASSUME NEW r \in 1 .. N, NEW returned \in Returned, NEW verdict \in Verdict
  PROVE  \A f \in Findings(r, returned) \cup Synthesized(r, Findings(r, returned), verdict) :
           /\ f \in [rule : 1 .. N, outcome : Outcome, severity : Severity]
           /\ f.rule = r
           /\ f.severity = "blocker" => f.outcome = "problem"
<1>1. ASSUME NEW f \in Findings(r, returned)
      PROVE  /\ f \in [rule : 1 .. N, outcome : Outcome, severity : Severity]
             /\ f.rule = r
             /\ f.severity = "blocker" => f.outcome = "problem"
  <2>1. PICK g \in RuleFinding : f = Published(r, g)
    BY RulesAssumption DEF Findings
  <2>2. FilledOutcome(g) \in Outcome /\ FixedSeverity(g) \in Severity
    BY Filled
  <2>3. FixedSeverity(g) = "blocker" => FilledOutcome(g) = "problem"
    BY DEF FixedSeverity
  <2> QED BY <2>1, <2>2, <2>3 DEF Published
<1>2. ASSUME NEW f \in Synthesized(r, Findings(r, returned), verdict)
      PROVE  /\ f \in [rule : 1 .. N, outcome : Outcome, severity : Severity]
             /\ f.rule = r
             /\ f.severity = "blocker" => f.outcome = "problem"
  BY DEF Synthesized, Verdict, Outcome, Severity
<1> QED BY <1>1, <1>2

\* The outcome concluded is stated unless it asks for nothing, and nothing published
\* is more pressing.
LEMMA Concluding ==
  ASSUME NEW r \in 1 .. N, NEW returned \in Returned, NEW verdict \in Verdict
  PROVE  LET findings == Findings(r, returned)
             all      == findings \cup Synthesized(r, findings, verdict)
             o        == Concluded(findings, verdict)
         IN  /\ o \in Outcome
             /\ o \in Pressing => \E f \in all : f.outcome = o
             /\ \A f \in all : Rank(o) <= Rank(f.outcome)
<1> DEFINE findings == Findings(r, returned)
           synth    == Synthesized(r, findings, verdict)
           os       == {f.outcome : f \in findings} \cup {verdict}
           o        == MostPressing(os)
<1>1. os \subseteq Outcome /\ os # {}
  BY Publishing DEF Verdict
<1> HIDE DEF findings
<1>2. o \in os /\ \A p \in os : Rank(o) <= Rank(p)
  BY <1>1, Most
<1>3. \A f \in synth : f.outcome = verdict
  BY DEF Synthesized
<1>4. \A f \in findings \cup synth : f.outcome \in os
  BY <1>3
<1>5. o \in Pressing => \E f \in findings \cup synth : f.outcome = o
  <2>1. CASE \E f \in findings : f.outcome = o
    BY <2>1
  <2>2. CASE ~ \E f \in findings : f.outcome = o
    <3>1. o = verdict
      BY <2>2, <1>2
    <3>2. o \in Pressing => o \in {"unknown", "manual-check"}
      BY <3>1 DEF Pressing, Verdict
    <3>3. o \in Pressing => [rule |-> r, outcome |-> o, severity |-> "info"] \in synth
      BY <2>2, <3>1, <3>2 DEF Synthesized
    <3> HIDE DEF synth, o
    <3> QED BY <3>3
  <2> QED BY <2>1, <2>2
<1>6. Concluded(findings, verdict) = o
  BY DEF Concluded
<1> HIDE DEF os, o, synth
<1>7. o \in Outcome /\ \A f \in findings \cup synth : Rank(o) <= Rank(f.outcome)
  BY <1>1, <1>2, <1>4
<1> QED BY <1>5, <1>6, <1>7 DEF findings, synth

-----------------------------------------------------------------------------

LEMMA InvInit == Init => Inv
<1> SUFFICES ASSUME Init PROVE Inv
  OBVIOUS
<1>1. N \in Nat
  BY RulesAssumption
<1>2. TypeOK
  <2>1. outcome \in [1 .. N -> OutcomeOrNone]
    BY Endings DEF Init
  <2>2. evaluated \in 0 .. N
    <3>1. evaluated = 0
      BY DEF Init
    <3> QED BY <1>1, <3>1
  <2> QED BY <2>1, <2>2 DEF Init, TypeOK
<1>3. Progress
  <2>1. outcome = [r \in 1 .. N |-> ""] /\ evaluated = 0
    BY DEF Init
  <2>2. \A r \in 1 .. N : outcome[r] = ""
    BY <2>1
  <2>3. \A r \in 1 .. N : r > evaluated
    <3>1. evaluated = 0
      BY <2>1
    <3> QED BY <1>1, <3>1
  <2> QED BY <2>2, <2>3 DEF Init, Progress
<1>4. Kept /\ OnlyProblemBlocks
  BY DEF Init, Kept, KeptOf, OnlyProblemBlocks
<1> QED BY <1>2, <1>3, <1>4 DEF Inv

LEMMA InvNext == Inv /\ [Next]_vars => Inv'
<1> SUFFICES ASSUME Inv, [Next]_vars PROVE Inv'
  OBVIOUS
<1>0. /\ TypeOK /\ Progress /\ Kept /\ OnlyProblemBlocks
      /\ N \in Nat /\ Returned \subseteq SUBSET RuleFinding
  BY RulesAssumption DEF Inv
<1>1. ASSUME NEW r \in 1 .. N, NEW returned \in Returned, NEW verdict \in Verdict,
             EvaluateRule(r, returned, verdict)
      PROVE  Inv'
  <2> DEFINE new == Findings(r, returned) \cup Synthesized(r, Findings(r, returned), verdict)
             o   == Concluded(Findings(r, returned), verdict)
  <2>1. /\ evaluated < N /\ r = evaluated + 1 /\ evaluated' = r
        /\ said' = said \cup {[rule |-> r, finding |-> f] : f \in returned}
        /\ published' = published \cup new
        /\ outcome' = [outcome EXCEPT ![r] = o]
        /\ dropped' = (dropped \/ {f \in returned : f.evidence} # returned)
        /\ corrected' = (corrected \/ \E f \in {g \in returned : g.evidence} : FixedSeverity(f) # f.severity)
        /\ status' = status /\ done' = done
    BY <1>1 DEF EvaluateRule, Findings
  <2>2. returned \subseteq RuleFinding
    BY <1>0
  <2>3. \A f \in new : /\ f \in [rule : 1 .. N, outcome : Outcome, severity : Severity]
                       /\ f.rule = r
                       /\ f.severity = "blocker" => f.outcome = "problem"
    BY Publishing
  <2>4. o \in Outcome
    BY Concluding
  <2>5. o # ""
    BY <2>4 DEF Outcome
  <2>6. \A f \in returned : f.evidence => Published(r, f) \in new
    BY DEF Findings
  <2> HIDE DEF new, o
  <2>7. TypeOK'
    <3>1. evaluated' \in 0 .. N
      BY <1>0, <2>1
    <3>2. said' \subseteq [rule : 1 .. N, finding : RuleFinding]
      BY <1>0, <2>1, <2>2 DEF TypeOK
    <3>3. published' \subseteq [rule : 1 .. N, outcome : Outcome, severity : Severity]
      BY <1>0, <2>1, <2>3 DEF TypeOK
    <3>4. outcome' \in [1 .. N -> OutcomeOrNone]
      BY <1>0, <2>1, <2>4, Endings DEF TypeOK
    <3>5. dropped' \in BOOLEAN /\ corrected' \in BOOLEAN
      BY <1>0, <2>1 DEF TypeOK
    <3>6. status' \in {"ok", "partial"} /\ done' \in BOOLEAN
      BY <1>0, <2>1 DEF TypeOK
    <3> QED BY <3>1, <3>2, <3>3, <3>4, <3>5, <3>6 DEF TypeOK
  <2>8. Progress'
    <3>1. evaluated \in Nat /\ N \in Nat /\ outcome \in [1 .. N -> OutcomeOrNone]
      BY <1>0 DEF TypeOK
    <3>2. \A q \in 1 .. N : outcome'[q] = IF q = r THEN o ELSE outcome[q]
      BY <3>1, <2>1
    <3>3. \A q \in 1 .. N : outcome[q] = "" <=> q > evaluated
      BY <1>0 DEF Progress
    <3>4. \A q \in 1 .. N : outcome'[q] = "" <=> q > evaluated'
      <4> SUFFICES ASSUME NEW q \in 1 .. N PROVE outcome'[q] = "" <=> q > evaluated'
        OBVIOUS
      <4>1. CASE q = r
        <5>1. ~(q > evaluated')
          BY <4>1, <3>1, <2>1
        <5>2. outcome'[q] # ""
          BY <4>1, <3>2, <2>5
        <5> QED BY <5>1, <5>2
      <4>2. CASE q # r
        <5>1. q > evaluated + 1 <=> q > evaluated
          BY <4>2, <3>1, <2>1
        <5> QED BY <4>2, <5>1, <3>2, <3>3, <2>1
      <4> QED BY <4>1, <4>2
    <3>5. done # TRUE
      <4>1. evaluated # N
        BY <3>1, <2>1
      <4> QED BY <4>1, <1>0 DEF Progress
    <3>6. done' # TRUE
      BY <3>5, <2>1
    <3>7. done' \in BOOLEAN
      BY <2>7 DEF TypeOK
    <3> QED BY <3>4, <3>6, <3>7 DEF Progress
  <2>9. OnlyProblemBlocks'
    BY <1>0, <2>1, <2>3 DEF OnlyProblemBlocks
  <2>10. Kept'
    <3> SUFFICES ASSUME NEW s \in said' PROVE KeptOf(s.rule, s.finding)'
      BY DEF Kept
    <3>1. CASE s \in said
      <4>1. ~dropped' /\ ~corrected' => ~dropped /\ ~corrected
        BY <2>1
      <4>2. published \subseteq published'
        BY <2>1
      <4>3. KeptOf(s.rule, s.finding)
        BY <1>0, <3>1 DEF Kept
      <4> QED BY <4>1, <4>2, <4>3 DEF KeptOf
    <3>2. CASE s \in {[rule |-> r, finding |-> f] : f \in returned}
      <4>1. PICK f \in returned : s = [rule |-> r, finding |-> f]
        BY <3>2
      <4>2. s.rule = r /\ s.finding = f
        BY <4>1
      <4>3. FilledOutcome(f) = "problem" => FixedSeverity(f) = f.severity
        BY DEF FixedSeverity
      <4>4. f.evidence => Published(r, f) \in published'
        BY <2>1, <2>6
      <4>5. ~dropped' /\ ~corrected' => f.evidence /\ FixedSeverity(f) = f.severity
        <5>1. ~dropped' => f.evidence
          BY <2>1
        <5>2. ~corrected' /\ f.evidence => FixedSeverity(f) = f.severity
          BY <2>1
        <5> QED BY <5>1, <5>2
      <4>6. Published(r, f).rule = r /\ Published(r, f).outcome = FilledOutcome(f)
            /\ Published(r, f).severity = FixedSeverity(f)
        BY DEF Published
      <4>7. ASSUME f.evidence
            PROVE  \E g \in published' : /\ g.rule = r /\ g.outcome = FilledOutcome(f)
                                         /\ g.outcome = "problem" => g.severity = f.severity
        BY <4>3, <4>4, <4>6, <4>7
      <4>8. ASSUME ~dropped', ~corrected'
            PROVE  [rule |-> r, outcome |-> FilledOutcome(f), severity |-> f.severity] \in published'
        BY <4>4, <4>5, <4>8 DEF Published
      <4>9. KeptOf(r, f)'
        BY <4>7, <4>8 DEF KeptOf
      <4> QED BY <4>2, <4>9
    <3>3. s \in said \/ s \in {[rule |-> r, finding |-> f] : f \in returned}
      BY <2>1
    <3> QED BY <3>1, <3>2, <3>3
  <2> QED BY <2>7, <2>8, <2>9, <2>10 DEF Inv
<1>2. ASSUME Finish PROVE Inv'
  <2>1. TypeOK'
    BY <1>0, <1>2 DEF Finish, TypeOK
  <2>2. Progress'
    BY <1>0, <1>2 DEF Finish, Progress
  <2>3. Kept' /\ OnlyProblemBlocks'
    BY <1>0, <1>2 DEF Finish, Kept, KeptOf, OnlyProblemBlocks
  <2> QED BY <2>1, <2>2, <2>3 DEF Inv
<1>3. ASSUME UNCHANGED vars PROVE Inv'
  <2>1. TypeOK' /\ Progress'
    BY <1>0, <1>3 DEF vars, TypeOK, Progress
  <2>2. Kept' /\ OnlyProblemBlocks'
    BY <1>0, <1>3 DEF vars, Kept, KeptOf, OnlyProblemBlocks
  <2> QED BY <2>1, <2>2 DEF Inv
<1> QED BY <1>1, <1>2, <1>3 DEF Next

LEMMA InvAlways == Spec => []Inv
BY InvInit, InvNext, PTL DEF Spec

\* The types.
THEOREM Typed == Spec => []TypeOK
BY InvAlways, PTL DEF Inv

\* Whatever the rules return, only a proven problem is published as a blocker.
THEOREM BlockersAreProblems == Spec => []OnlyProblemBlocks
BY InvAlways, PTL DEF Inv

\* What a rule said with evidence is in the report, and a section that ends "ok" has
\* published everything as it was said.
THEOREM NothingLost == Spec => []NothingLostSilently
<1>1. Inv => NothingLostSilently
  BY DEF Inv, TypeOK, Progress, Kept, KeptOf, NothingLostSilently
<1> QED BY <1>1, InvAlways, PTL

-----------------------------------------------------------------------------

\* The second invariant of the engine rests on its rules: none may return a blocker
\* that says there is no problem.
THEOREM CleanFindingsAreInfo == ASSUME RulesBehave PROVE Spec => []CleanIsInfo
<1>1. Init => CleanIsInfo
  BY DEF Init, CleanIsInfo
<1>2. CleanIsInfo /\ [Next]_vars => CleanIsInfo'
  <2> SUFFICES ASSUME CleanIsInfo, [Next]_vars PROVE CleanIsInfo'
    OBVIOUS
  <2>1. ASSUME NEW r \in 1 .. N, NEW returned \in Returned, NEW verdict \in Verdict,
               EvaluateRule(r, returned, verdict)
        PROVE  CleanIsInfo'
    <3>1. \A f \in Findings(r, returned) :
            f.outcome \in {"no-problem", "not-applicable"} => f.severity = "info"
      <4> SUFFICES ASSUME NEW g \in returned, FilledOutcome(g) \in {"no-problem", "not-applicable"}
                   PROVE  FixedSeverity(g) = "info"
        BY DEF Findings, Published
      <4>1. g.severity # "blocker"
        BY RulesBehave DEF RulesBehave, FilledOutcome
      <4> QED BY <4>1 DEF FixedSeverity
    <3>2. \A f \in Synthesized(r, Findings(r, returned), verdict) : f.severity = "info"
      BY DEF Synthesized
    <3>3. published' = published \cup Findings(r, returned) \cup Synthesized(r, Findings(r, returned), verdict)
      BY <2>1 DEF EvaluateRule, Findings
    <3> QED BY <3>1, <3>2, <3>3 DEF CleanIsInfo
  <2>2. CASE Finish
    BY <2>2 DEF Finish, CleanIsInfo
  <2>3. CASE UNCHANGED vars
    BY <2>3 DEF vars, CleanIsInfo
  <2> QED BY <2>1, <2>2, <2>3 DEF Next
<1> QED BY <1>1, <1>2, PTL DEF Spec

-----------------------------------------------------------------------------

\* Evaluate implements RulePromise: the evaluation of a rule decides it, with what its
\* findings state, and the end of the section is a stutter.
THEOREM Implements == Spec => KeepsPromise
<1>1. Init => Promise!Init
  BY DEF Init, Promise!Init
<1>2. Inv /\ [Next]_vars => [Promise!Next]_(Promise!promise)
  <2> SUFFICES ASSUME Inv, [Next]_vars PROVE [Promise!Next]_(Promise!promise)
    OBVIOUS
  <2>1. ASSUME NEW r \in 1 .. N, NEW returned \in Returned, NEW verdict \in Verdict,
               EvaluateRule(r, returned, verdict)
        PROVE  Promise!Next
    <3> DEFINE new == Findings(r, returned) \cup Synthesized(r, Findings(r, returned), verdict)
               o   == Concluded(Findings(r, returned), verdict)
               S   == {f.outcome : f \in new}
    <3>1. o \in Outcome /\ (o \in Pressing => \E f \in new : f.outcome = o) /\ \A f \in new : Rank(o) <= Rank(f.outcome)
      BY Concluding
    <3>2. \A f \in new : f.rule = r /\ f.outcome \in Outcome
      BY Publishing
    <3>3. r = evaluated + 1 /\ published' = published \cup new /\ outcome' = [outcome EXCEPT ![r] = o]
      BY <2>1 DEF EvaluateRule, Findings
    <3> HIDE DEF new, o
    <3>4. outcome[r] = ""
      <4>1. evaluated \in Nat
        BY DEF Inv, TypeOK
      <4>2. r > evaluated
        BY <3>3, <4>1
      <4> QED BY <4>2 DEF Inv, Progress
    <3>5. S \in SUBSET Outcome
      BY <3>2
    <3>6. {<<f.rule, f.outcome>> : f \in published'} = {<<f.rule, f.outcome>> : f \in published} \cup ({r} \X S)
      BY <3>2, <3>3
    <3>7. (o \in Promise!Pressing => o \in S) /\ \A p \in S : Promise!Rank(o) <= Promise!Rank(p)
      BY <3>1 DEF Promise!Pressing, Pressing, Promise!Rank, Rank
    <3> HIDE DEF S
    <3>8. Promise!Decide(r, o, S)
      BY <3>3, <3>4, <3>6, <3>7 DEF Promise!Decide
    <3> QED BY <3>1, <3>5, <3>8 DEF Promise!Next, Promise!Outcome, Outcome
  <2>2. CASE Finish
    BY <2>2 DEF Finish, Promise!promise
  <2>3. CASE UNCHANGED vars
    BY <2>3 DEF vars, Promise!promise
  <2> QED BY <2>1, <2>2, <2>3 DEF Next
<1> QED BY <1>1, <1>2, InvAlways, PTL DEF Spec, KeepsPromise, Promise!Spec
=============================================================================

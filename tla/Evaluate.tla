------------------------------- MODULE Evaluate -------------------------------
(***************************************************************************)
(* witness.Evaluate (app/witness/preflight.go): every rule is run in turn, *)
(* its findings are checked and published, its outcome concluded, and what *)
(* had to be discarded or corrected is admitted in the section's status    *)
(* (app/audit/witness.go).  A rule is what it returns: findings, of which  *)
(* some may carry no evidence, and a verdict of its own.                   *)
(***************************************************************************)
EXTENDS Outcomes

CONSTANTS N,                \* how many rules there are
          Returned          \* the sets of findings a rule may return

\* "" is no outcome: of a rule not evaluated yet, of a finding that does not say.
OutcomeOrNone == Outcome \cup {""}

\* A finding as a rule returns it.
RuleFinding == [evidence : BOOLEAN, outcome : OutcomeOrNone, severity : Severity]

\* What a rule's own verdict may be: it never says "problem" without a finding.
Verdict == Outcome \ {"problem"}

ASSUME RulesAssumption == /\ N \in Nat
                          /\ Returned \subseteq SUBSET RuleFinding

VARIABLES evaluated,        \* how many rules have been evaluated
          said,             \* every finding returned, with its rule
          published,        \* the findings of the report
          outcome,          \* the outcome of each rule, "" until it is evaluated
          dropped,          \* a finding was discarded for want of evidence
          corrected,        \* a finding's severity was corrected
          status,           \* the section's: "ok" or "partial"; parsing and reading
                            \* the host have already left it at one of the two
          done              \* the section has ended

vars == <<evaluated, said, published, outcome, dropped, corrected, status, done>>

-----------------------------------------------------------------------------

\* Mutant: a forgotten outcome stays forgotten.
FilledOutcomeForgotten(f) == f.outcome

\* A rule that forgot to say its outcome is read by its severity.
FilledOutcome(f) == IF f.outcome # "" THEN f.outcome
                    ELSE IF f.severity = "info" THEN "no-problem" ELSE "problem"

\* Mutant: a blocker is not corrected.
FixedSeverityBlocker(f) ==
  IF FilledOutcome(f) \in {"no-problem", "not-applicable"} THEN "info" ELSE f.severity

\* Mutant: only "no-problem" is held to info.
FixedSeverityNotApplicable(f) ==
  IF f.severity = "blocker" /\ FilledOutcome(f) # "problem" THEN "warning"
  ELSE IF FilledOutcome(f) = "no-problem" THEN "info"
  ELSE f.severity

\* The severity that the outcome allows: one correction at most.
FixedSeverity(f) ==
  IF f.severity = "blocker" /\ FilledOutcome(f) # "problem" THEN "warning"
  ELSE IF FilledOutcome(f) \in {"no-problem", "not-applicable"} THEN "info"
  ELSE f.severity

Published(r, f) == [rule |-> r, outcome |-> FilledOutcome(f), severity |-> FixedSeverity(f)]

\* Mutant: a verdict is not stated when the rule has any finding at all.
SynthesizedAlone(r, findings, verdict) ==
  IF verdict \in {"unknown", "manual-check"} /\ findings = {}
  THEN {[rule |-> r, outcome |-> verdict, severity |-> "info"]} ELSE {}

\* The finding that states an unknown or a manual check nobody else stated.
Synthesized(r, findings, verdict) ==
  IF verdict \in {"unknown", "manual-check"} /\ \A f \in findings : f.outcome # verdict
  THEN {[rule |-> r, outcome |-> verdict, severity |-> "info"]} ELSE {}

\* The rule's outcome: the most pressing of its findings and its own verdict.
Concluded(findings, verdict) == MostPressing({f.outcome : f \in findings} \cup {verdict})

Init == /\ evaluated = 0
        /\ said = {} /\ published = {}
        /\ outcome = [r \in 1 .. N |-> ""]
        /\ dropped = FALSE /\ corrected = FALSE
        /\ status \in {"ok", "partial"}
        /\ done = FALSE

\* Mutant: a finding without evidence is discarded and not counted.
EvaluateUncounted(r, returned, verdict) ==
  LET kept     == {f \in returned : f.evidence}
      findings == {Published(r, f) : f \in kept}
  IN  /\ evaluated < N /\ r = evaluated + 1
      /\ evaluated' = r
      /\ said' = said \cup {[rule |-> r, finding |-> f] : f \in returned}
      /\ published' = published \cup findings \cup Synthesized(r, findings, verdict)
      /\ outcome' = [outcome EXCEPT ![r] = Concluded(findings, verdict)]
      /\ dropped' = dropped
      /\ corrected' = (corrected \/ \E f \in kept : FixedSeverity(f) # f.severity)
      /\ UNCHANGED <<status, done>>

\* One rule of the list.
EvaluateRule(r, returned, verdict) ==
  LET kept     == {f \in returned : f.evidence}
      findings == {Published(r, f) : f \in kept}
  IN  /\ evaluated < N /\ r = evaluated + 1
      /\ evaluated' = r
      /\ said' = said \cup {[rule |-> r, finding |-> f] : f \in returned}
      /\ published' = published \cup findings \cup Synthesized(r, findings, verdict)
      /\ outcome' = [outcome EXCEPT ![r] = Concluded(findings, verdict)]
      /\ dropped' = (dropped \/ kept # returned)
      /\ corrected' = (corrected \/ \E f \in kept : FixedSeverity(f) # f.severity)
      /\ UNCHANGED <<status, done>>

\* Every rule was evaluated: a note for what was discarded and one for what was
\* corrected, each of which leaves the section incomplete.
Finish == /\ evaluated = N /\ ~done
          /\ done' = TRUE
          /\ status' = IF dropped \/ corrected THEN "partial" ELSE status
          /\ UNCHANGED <<evaluated, said, published, outcome, dropped, corrected>>

Next == \/ \E r \in 1 .. N, returned \in Returned, verdict \in Verdict : EvaluateRule(r, returned, verdict)
        \/ Finish

Spec == Init /\ [][Next]_vars

-----------------------------------------------------------------------------

\* Type correctness.
TypeOK == /\ evaluated \in 0 .. N
          /\ said \subseteq [rule : 1 .. N, finding : RuleFinding]
          /\ published \subseteq [rule : 1 .. N, outcome : Outcome, severity : Severity]
          /\ outcome \in [1 .. N -> OutcomeOrNone]
          /\ dropped \in BOOLEAN /\ corrected \in BOOLEAN
          /\ status \in {"ok", "partial"} /\ done \in BOOLEAN

\* Only a proven problem stops a deployment, whatever the rules return.
OnlyProblemBlocks == \A f \in published : f.severity = "blocker" => f.outcome = "problem"

\* A finding that concludes there is no problem asks for no attention.
CleanIsInfo == \A f \in published : f.outcome \in {"no-problem", "not-applicable"} => f.severity = "info"

\* No rule returns a blocker that says there is no problem; with one, CleanIsInfo
\* fails, because fixOutcome corrects a severity once.
RulesBehave == \A R \in Returned : \A f \in R :
                 f.severity = "blocker" => f.outcome \notin {"no-problem", "not-applicable"}

\* What a rule said with evidence reaches the report with its outcome, and a problem
\* with its severity; a section that ends "ok" has published everything as it was said.
NothingLostSilently ==
  \A s \in said :
    LET r == s.rule
        f == s.finding
    IN  /\ f.evidence => \E g \in published :
             /\ g.rule = r /\ g.outcome = FilledOutcome(f)
             /\ g.outcome = "problem" => g.severity = f.severity
        /\ done /\ status = "ok" =>
             [rule |-> r, outcome |-> FilledOutcome(f), severity |-> f.severity] \in published

\* The engine keeps the promise of the report about its rules.
Promise == INSTANCE RulePromise WITH stated <- {<<f.rule, f.outcome>> : f \in published}
KeepsPromise == Promise!Spec
=============================================================================

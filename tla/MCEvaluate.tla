----------------------------- MODULE MCEvaluate -----------------------------
(***************************************************************************)
(* What the rules of the checked instances return.                         *)
(***************************************************************************)
EXTENDS Evaluate, FiniteSets

\* With evidence: every outcome and severity; without: a problem and an unknown.
Backed   == {f \in RuleFinding : f.evidence}
Unbacked == {[evidence |-> FALSE, outcome |-> "problem", severity |-> "blocker"],
             [evidence |-> FALSE, outcome |-> "unknown", severity |-> "warning"]}

\* No rule returns a blocker that says there is no problem.
Behaved == {f \in Backed \cup Unbacked : f.severity = "blocker" => f.outcome \notin {"no-problem", "not-applicable"}}

\* The findings that are taken two at a time.
Combined == Unbacked \cup {f \in Backed : f.severity = "warning" \/ f.outcome = "problem"}

\* Up to two findings.
ReturnedByRules == {{}} \cup {{f} : f \in Behaved} \cup {{f, g} : f, g \in Combined}
=============================================================================

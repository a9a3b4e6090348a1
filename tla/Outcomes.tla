------------------------------- MODULE Outcomes -------------------------------
(***************************************************************************)
(* What a rule concludes and how its findings and its own verdict become   *)
(* its outcome: app/model/preflight.go, app/witness/outcomes.go.  A finding*)
(* is seen through what decides this: its outcome and its severity.        *)
(***************************************************************************)
EXTENDS Naturals

Outcome  == {"problem", "unknown", "manual-check", "no-problem", "not-applicable"}
Severity == {"blocker", "warning", "info"}

\* Its place in model.Outcomes, the most pressing first.
Rank(o) == IF o = "problem" THEN 0 ELSE IF o = "unknown" THEN 1 ELSE IF o = "manual-check" THEN 2
           ELSE IF o = "no-problem" THEN 3 ELSE 4

\* The outcome of lowest rank of a set of them.
MostPressing(os) == IF "problem" \in os THEN "problem" ELSE IF "unknown" \in os THEN "unknown"
                    ELSE IF "manual-check" \in os THEN "manual-check"
                    ELSE IF "no-problem" \in os THEN "no-problem" ELSE "not-applicable"

\* Outcomes that may not be stated by silence: a finding has to say so.
Pressing == {"problem", "unknown", "manual-check"}
=============================================================================

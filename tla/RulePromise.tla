----------------------------- MODULE RulePromise -----------------------------
(***************************************************************************)
(* What the report promises about its rules (docs/en/10-witness-rules.md,  *)
(* "Outcomes"): each of them ends in exactly one outcome, whatever it says *)
(* stays said, and an outcome that asks for attention is never left to     *)
(* silence - a finding of that rule states it, and none states worse.      *)
(***************************************************************************)
EXTENDS Outcomes

CONSTANT N                  \* how many rules there are

VARIABLES outcome,          \* of each rule, "" until it is evaluated
          stated            \* <<rule, outcome>>: a finding of the rule states the outcome

promise == <<outcome, stated>>

Init == outcome = [r \in 1 .. N |-> ""] /\ stated = {}

\* Rule r ends in outcome o, its findings stating the outcomes S.
Decide(r, o, S) ==
  /\ outcome[r] = ""
  /\ o \in Pressing => o \in S
  /\ \A p \in S : Rank(o) <= Rank(p)
  /\ outcome' = [outcome EXCEPT ![r] = o]
  /\ stated' = stated \cup ({r} \X S)

Next == \E r \in 1 .. N, o \in Outcome, S \in SUBSET Outcome : Decide(r, o, S)

Spec == Init /\ [][Next]_promise
=============================================================================

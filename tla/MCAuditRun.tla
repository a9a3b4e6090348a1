----------------------------- MODULE MCAuditRun -----------------------------
(***************************************************************************)
(* A preflight that uses every path out, one that prints to stdout, and    *)
(* host audits with and without an upload, into one directory.             *)
(***************************************************************************)
EXTENDS AuditRun

Config(sections, preflight, stdout, csv, json, online, egress, upload) ==
  [sections |-> sections, preflight |-> preflight, stdout |-> stdout, csv |-> csv, json |-> json,
   online |-> online, egress |-> egress, upload |-> upload]

SomeConfigs ==
  {Config(<<"vulnerabilities", "witness">>, TRUE, FALSE, TRUE, TRUE, TRUE, TRUE, TRUE),
   Config(<<"witness">>, TRUE, TRUE, FALSE, TRUE, FALSE, FALSE, FALSE),
   Config(<<"vulnerabilities">>, FALSE, FALSE, TRUE, FALSE, FALSE, FALSE, TRUE),
   Config(<<"vulnerabilities">>, FALSE, FALSE, TRUE, FALSE, TRUE, FALSE, FALSE)}

\* docker compose is a program that starts another one.
OneConfig == {Config(<<"witness">>, TRUE, FALSE, TRUE, FALSE, FALSE, FALSE, FALSE)}

SomePrograms ==
  [s \in Sections \cup {"plan"} |->
     CASE s = "vulnerabilities" -> <<"debsecan">> [] s = "plan" -> <<"docker">> [] OTHER -> <<>>]

SomeTables == <<"summary.csv", "network.csv">>
=============================================================================

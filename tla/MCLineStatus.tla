---------------------------- MODULE MCLineStatus ----------------------------
(***************************************************************************)
(* LineStatus for TLC: one operator message, an administrator whose texts  *)
(* can repeat the operator's and the report handler's, two evaluations.    *)
(***************************************************************************)
EXTENDS LineStatus, TLC

AllSources == {"mlxscraper-pt-ml", "underlx-bot", "underlx-community"}
Operator == {"mlxscraper-pt-ml"}
Messages == {"delays"}
AdminTexts == {"delays", "REPORT_SOLVED"}
AllTexts == Messages \cup AdminTexts \cup ReportTexts \cup {OkText}
Symmetry == Permutations(Evaluations)
=============================================================================

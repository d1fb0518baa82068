----------------------- MODULE MCStatusTransactions ------------------------
(***************************************************************************)
(* StatusTransactions for TLC. The scraper of the operator is one          *)
(* goroutine; the bot's commands and the evaluations of the report handler *)
(* can be several at a time.                                               *)
(***************************************************************************)
EXTENDS StatusTransactions, TLC

CONSTANTS scraper, first, second, third, editor, delays, halted

AllSources == {"mlxscraper-pt-ml", "underlx-community"}
Operator == {"mlxscraper-pt-ml"}

\* Three evaluations of the report handler at once.
ThreeEvaluations == {first, second, third}

\* The scraper against one evaluation, and an administrator.
ScraperAndEvaluation == {scraper, first}

OneEditor == {editor}

CommunityOf == [t \in ThreeEvaluations |-> "underlx-community"]

ScraperOrCommunity ==
    [t \in ScraperAndEvaluation |->
        IF t = scraper THEN "mlxscraper-pt-ml" ELSE "underlx-community"]

OneText == {delays}
TwoTexts == {delays, halted}

Symmetry == Permutations({first, second, third})
=============================================================================

--------------------------- MODULE LineConditions ---------------------------
(***************************************************************************)
(* The scraper of the conditions of lines (cars and frequency of trains):  *)
(* scraper/mlxscraper/conditions.go, with handleNewCondition of            *)
(* scrapers.go, which stores a condition that differs from the latest one. *)
(* Begin fetches in one goroutine and the ticker in another, so that two   *)
(* rounds over the lines can overlap.                                      *)
(*                                                                         *)
(* Of the table line_condition only the latest row of each line matters;   *)
(* rows are ordered by the time of the fetch, not by that of the insert.   *)
(***************************************************************************)
EXTENDS Integers, Sequences

CONSTANTS LineOrder,             \* the lines as they are fetched
          Conditions,            \* [TrainCars, TrainFrequency], 0 and 0 if closed
          MaxConditionChanges,   \* bound on how often what the API answers changes
          MaxErrors              \* bound on the fetches and inserts that fail

NoCondition == [TrainCars |-> -1, TrainFrequency |-> -1]

Rounds == {"begin", "ticker"}

VARIABLES source,                \* what the API would answer, by line
          changes,               \* how often it has changed
          errors,
          lastCondition,         \* LastCondition, by line
          round                  \* what each goroutine is doing

condVars == <<source, changes, errors, lastCondition, round>>

Lines == {LineOrder[i] : i \in DOMAIN LineOrder}

\* A round is at a line with a condition; older are the rounds whose condition
\* for that line was fetched before; overtaken, whether a newer one is stored.
Resting == [at |-> "rest", line |-> 0, condition |-> NoCondition, older |-> {}, overtaken |-> FALSE]

CondInit ==
    /\ source \in [Lines -> Conditions]
    /\ changes = 0
    /\ errors = 0
    /\ lastCondition = [l \in Lines |-> NoCondition]
    /\ round = [g \in Rounds |-> Resting]

ConditionChanges(l, c) ==
    /\ source[l] # c /\ changes < MaxConditionChanges
    /\ changes' = changes + 1
    /\ source' = [source EXCEPT ![l] = c]
    /\ UNCHANGED <<errors, lastCondition, round>>

FetchConditions(g) ==
    /\ round[g] = Resting
    /\ round' = [round EXCEPT ![g] = [Resting EXCEPT !.at = "fetch", !.line = 1]]
    /\ UNCHANGED <<source, changes, errors, lastCondition>>

FetchConditionsForLine(g) ==
    LET l == round[g].line
    IN  /\ round[g].at = "fetch"
        /\ round' = [round EXCEPT
               ![g].at = "compare", ![g].condition = source[LineOrder[l]],
               ![g].older = {h \in Rounds \ {g} : round[h].line = l /\ round[h].at \in {"compare", "update"}}]
        /\ UNCHANGED <<source, changes, errors, lastCondition>>

\* An error for a line ends the round: the lines after it are not fetched.
FetchConditionsFails(g) ==
    /\ round[g].at = "fetch" /\ errors < MaxErrors
    /\ errors' = errors + 1
    /\ round' = [round EXCEPT ![g] = Resting]
    /\ UNCHANGED <<source, changes, lastCondition>>

\* The round goes on with the next line; what it held is older than nothing.
NextLine(g, rounds) ==
    [h \in Rounds |->
        IF h # g THEN [rounds[h] EXCEPT !.older = @ \ {g}]
        ELSE IF rounds[g].line = Len(LineOrder) THEN Resting
        ELSE [Resting EXCEPT !.at = "fetch", !.line = rounds[g].line + 1]]

DifferentCars(a, b) == a.TrainCars # b.TrainCars                     \* (mutant)

Differs(a, b) == a.TrainCars # b.TrainCars \/ a.TrainFrequency # b.TrainFrequency

\* handleNewCondition reads the latest condition in a transaction,
CompareCondition(g) ==
    LET latest == lastCondition[LineOrder[round[g].line]]
    IN  /\ round[g].at = "compare"
        /\ round' = IF Differs(latest, round[g].condition)
                    THEN [round EXCEPT ![g].at = "update"] ELSE NextLine(g, round)
        /\ UNCHANGED <<source, changes, errors, lastCondition>>

\* and LineCondition.Update inserts a row that the commit shows, or fails.
UpdateCondition(g) ==
    LET l == LineOrder[round[g].line]
    IN  /\ round[g].at = "update"
        /\ lastCondition' = IF round[g].overtaken THEN lastCondition
                            ELSE [lastCondition EXCEPT ![l] = round[g].condition]
        /\ round' = NextLine(g, [h \in Rounds |->
               IF h \in round[g].older THEN [round[h] EXCEPT !.overtaken = TRUE] ELSE round[h]])
        /\ UNCHANGED <<source, changes, errors>>

UpdateConditionFails(g) ==
    /\ round[g].at = "update" /\ errors < MaxErrors
    /\ errors' = errors + 1
    /\ round' = NextLine(g, round)
    /\ UNCHANGED <<source, changes, lastCondition>>

RoundGoesOn(g) ==
    \/ FetchConditionsForLine(g) \/ FetchConditionsFails(g)
    \/ CompareCondition(g) \/ UpdateCondition(g) \/ UpdateConditionFails(g)

CondNext ==
    \/ \E l \in Lines, c \in Conditions : ConditionChanges(l, c)
    \/ \E g \in Rounds : FetchConditions(g) \/ RoundGoesOn(g)
=============================================================================

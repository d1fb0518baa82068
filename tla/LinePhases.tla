----------------------------- MODULE LinePhases -----------------------------
(***************************************************************************)
(* The phase a line is in, and what a report makes of it, without          *)
(* statuses, texts or times. The operator has the last word: once it       *)
(* reports a disturbance only the operator ends it, and the community's    *)
(* disturbances are no business of the operator's all-clear.               *)
(***************************************************************************)
Phases == {"normal", "community", "official"}

AfterOperator(phase, isDowntime) ==
    IF isDowntime THEN "official"
    ELSE IF phase = "official" THEN "normal" ELSE phase

AfterCommunity(phase, isDowntime) ==
    IF isDowntime
    THEN IF phase = "normal" THEN "community" ELSE phase
    ELSE IF phase = "community" THEN "normal" ELSE phase
=============================================================================

---------------------------- MODULE LineTimeline ----------------------------
(***************************************************************************)
(* What the status history of a line promises its readers: the phase the   *)
(* line is in, as a function of what the operator and the community say.   *)
(* LineStatus implements it with statuses and disturbances; ReportHandler  *)
(* relies on it.                                                           *)
(***************************************************************************)
EXTENDS LinePhases

VARIABLES phase,         \* "normal", "community" or "official"
          operatorDown   \* the operator's latest report

timelineVars == <<phase, operatorDown>>

TimelineInit == phase = "normal" /\ operatorDown = FALSE

OperatorReports(isDowntime) ==
    /\ phase' = AfterOperator(phase, isDowntime)
    /\ operatorDown' = isDowntime

CommunityReports(isDowntime) ==
    /\ phase' = AfterCommunity(phase, isDowntime)
    /\ UNCHANGED operatorDown

TimelineNext ==
    \E isDowntime \in BOOLEAN :
        OperatorReports(isDowntime) \/ CommunityReports(isDowntime)

TimelineSpec == TimelineInit /\ [][TimelineNext]_timelineVars
=============================================================================

----------------------------- MODULE LineStatus -----------------------------
(***************************************************************************)
(* The statuses and disturbances of one line: scrapers.go handleNewStatus, *)
(* called by the line scraper, by the Discord bot's linestatus command and *)
(* by the report handler. A call of handleNewStatus is one step here, that *)
(* succeeds, and the scraper and the bot stamp a status in the step that   *)
(* adds it. (StatusTransactions lets the transactions of handleNewStatus   *)
(* overlap and fail.)                                                      *)
(*                                                                         *)
(* The report handler reads the line in one transaction and adds up to two *)
(* statuses in others: its evaluations are processes, and any call of the  *)
(* others may run between their steps. The votes are abstracted: a vote of *)
(* any time may be the earliest, and there may be enough of them whenever  *)
(* the state of the line lets the handler act. ReportHandler has the votes.*)
(***************************************************************************)
EXTENDS DisturbanceRules

CONSTANTS OperatorTexts,  \* the disturbance messages of the operator
          BotTexts,       \* what administrators write
          Evaluations,    \* the calls of evaluateSituation that may overlap
          MaxTime         \* bound on the clock

OkText == "circulacao normal"
BeginText == "REPORT_BEGIN"
ConfirmText == "REPORT_CONFIRM"
ReconfirmText == "REPORT_RECONFIRM"
SolvedText == "REPORT_SOLVED"
ReportTexts == {BeginText, ConfirmText, ReconfirmText, SolvedText}

ASSUME LineStatusAssumption ==
    /\ {"mlxscraper-pt-ml", "underlx-bot", "underlx-community"} \subseteq Sources
    /\ "mlxscraper-pt-ml" \in OfficialSources
    /\ {"underlx-bot", "underlx-community"} \cap OfficialSources = {}
    /\ OperatorTexts \cup BotTexts \cup ReportTexts \cup {OkText} \subseteq Texts
    /\ OkText \notin OperatorTexts
    /\ MaxTime \in Nat

VARIABLES now,           \* the clock
          rows,          \* the line's rows in the database
          operatorDown,  \* whether the operator's latest report is a disturbance
          evaluations,   \* where each evaluation of the report handler is
          late           \* when the first statuses were cast that were overtaken

vars == <<now, rows, operatorDown, evaluations, late>>

Finals == {"confirm", "reconfirm", "solve"}

\* What an evaluation does next. One about to add a first status, cast at the
\* time at, is overtaken when a status was recorded since it read the line.
Evaluation == [next : {"evaluate", "start", "begin"} \cup Finals,
               at : Nat, overtaken : BOOLEAN]

ToDo(next) == [next |-> next, at |-> 0, overtaken |-> FALSE]

StatusAt(t, isDowntime, text, source) ==
    [Time |-> t, IsDowntime |-> isDowntime, Status |-> text, Source |-> source]

CommunityStatus(t, isDowntime, text) ==
    StatusAt(t, isDowntime, text, "underlx-community")

Init ==
    /\ now = 0
    /\ rows = NoRows
    /\ operatorDown = FALSE
    /\ evaluations = [e \in Evaluations |-> ToDo("evaluate")]
    /\ late = {}

\* A status is stamped with the clock, and no other with the same instant.
Stamp == now < MaxTime /\ now' = now + 1

Tick == Stamp /\ UNCHANGED <<rows, operatorDown, evaluations, late>>

Overtaken(evals) ==
    [e \in Evaluations |-> IF evals[e].next = "begin"
                           THEN [evals[e] EXCEPT !.overtaken = TRUE]
                           ELSE evals[e]]

\* handleNewStatus(s), of a caller that leaves the evaluations at evals.
Add(s, evals) ==
    /\ rows' = AddStatus(rows, s)
    /\ evaluations' = IF rows' = rows THEN evals ELSE Overtaken(evals)

\* mlxscraper.update: a downtime is any message but "ok", whose text is replaced.
ScrapeStatus(text) ==
    LET isDowntime == text # OkText
    IN  /\ Stamp
        /\ Add(StatusAt(now', isDowntime, text, "mlxscraper-pt-ml"), evaluations)
        /\ operatorDown' = isDowntime
        /\ UNCHANGED late

\* discordbot.handleLineStatus: up or down, with any text.
BotStatus(isDowntime, text) ==
    /\ Stamp
    /\ Add(StatusAt(now', isDowntime, text, "underlx-bot"), evaluations)
    /\ UNCHANGED <<operatorDown, late>>

(***************************************************************************)
(* The report handler: evaluateSituation lets startDisturbance run when    *)
(* nothing is ongoing, and endDisturbance for an unofficial disturbance.   *)
(* startDisturbance gives up when the line never had a disturbance.        *)
(***************************************************************************)
Goes(e, evaluation) == evaluations' = [evaluations EXCEPT ![e] = evaluation]

Evaluate(e) ==
    /\ evaluations[e].next = "evaluate"
    /\ \/ OngoingDisturbances(rows.disturbances) = {} /\ Goes(e, ToDo("start"))
       \/ /\ \E d \in OngoingDisturbances(rows.disturbances) : ~d.Official
          /\ Goes(e, ToDo("solve"))
    /\ UNCHANGED <<now, rows, operatorDown, late>>

EndedByThen(ds, t) == \E d \in ds : d.UEndTime < t                   \* (mutant)

EndedBefore(ds, t) == \A d \in ds : d.UEndTime < t

\* Time t is after the end of LastDisturbance: of the one that is ongoing, whose
\* end is Go's zero time, or of the one that ended last.
AfterLast(ds, t) == OngoingDisturbances(ds) # {} \/ EndedBefore(ds, t)

BeginStatus(t) == CommunityStatus(t, TRUE, BeginText)

\* startDisturbance reads the line again. The earliest vote was cast at t: after
\* LastDisturbance and over a minute ago, a first status is dated then.
CompareWithLast(e) ==
    LET ds == rows.disturbances
        begin(t) == [next |-> "begin", at |-> t, overtaken |-> OngoingDisturbances(ds) # {}]
    IN  /\ evaluations[e].next = "start"
        /\ \/ ds = {} /\ Goes(e, ToDo("evaluate"))
           \/ /\ ds # {}
              /\ \E t \in 1..now :
                     \/ /\ AfterLast(ds, t)
                        /\ \A s \in rows.log : s.Time = t => s = BeginStatus(t)
                        /\ Goes(e, begin(t))
                     \/ AfterLast(ds, t) /\ Goes(e, ToDo("confirm"))
                     \/ ~AfterLast(ds, t) /\ Goes(e, ToDo("reconfirm"))
        /\ UNCHANGED <<now, rows, operatorDown, late>>

\* The first status, dated in the past.
AddFirst(e) ==
    LET t == evaluations[e].at
    IN  /\ evaluations[e].next = "begin"
        /\ Add(BeginStatus(t), [evaluations EXCEPT ![e] = ToDo("confirm")])
        /\ late' = IF evaluations[e].overtaken THEN late \cup {t} ELSE late
        /\ UNCHANGED <<now, operatorDown>>

FinalText == [confirm |-> ConfirmText, reconfirm |-> ReconfirmText, solve |-> SolvedText]

\* The last status of an evaluation, dated now, whatever the line is like by then.
AddFinal(e) ==
    LET next == evaluations[e].next
    IN  /\ next \in Finals
        /\ Stamp
        /\ Add(CommunityStatus(now', next # "solve", FinalText[next]),
               [evaluations EXCEPT ![e] = ToDo("evaluate")])
        /\ UNCHANGED <<operatorDown, late>>

Next ==
    \/ Tick
    \/ \E text \in OperatorTexts \cup {OkText} : ScrapeStatus(text)
    \/ \E isDowntime \in BOOLEAN, text \in BotTexts : BotStatus(isDowntime, text)
    \/ \E e \in Evaluations :
          Evaluate(e) \/ CompareWithLast(e) \/ AddFirst(e) \/ AddFinal(e)

Spec == Init /\ [][Next]_vars

-----------------------------------------------------------------------------
\* The clock, the rows, the operator's report and the evaluations have their
\* types, and no row and no vote is dated after now (types/line.go,
\* types/disturbance.go, types/status.go).
TypeOK ==
    /\ now \in Nat
    /\ rows \in LineRows
    /\ operatorDown \in BOOLEAN
    /\ evaluations \in [Evaluations -> Evaluation]
    /\ late \subseteq 1..now
    /\ \A s \in rows.log : s.Time <= now
    /\ \A d \in rows.disturbances :
           d.UStartTime <= now /\ d.UEndTime <= now /\ d.OStartTime <= now
    /\ \A e \in Evaluations : evaluations[e].next = "begin" => evaluations[e].at \in 1..now

\* "There can only be one ongoing disturbance per line at a time"
\* (compute/reports.go:204), on which AddStatus, the home page and the report
\* handler rely when they act on the last of the list.
AtMostOneOngoing == OneOpen(rows.disturbances)

\* Two disturbances of a line do not overlap, although startDisturbance dates
\* the first status of one in the past: availability and durations, which add
\* up the intervals, count no minute twice. Only a first status that was
\* overtaken, when another call recorded a status after the handler had read
\* the line and before it added its own, begins a disturbance that may.
DisjointIntervals == DisjointBut(rows.disturbances, late)

\* The official interval lies within the unofficial one, and an official
\* disturbance ends for both at once: Update writes otime_end only with
\* otime_start, and readers take time_end for the end of the disturbance.
OfficialWithinUnofficial == WellTimed(rows.disturbances)

\* Every recorded downtime status belongs to exactly one disturbance, whose
\* interval holds its time: no downtime is lost by the duplicate rule, by the
\* early returns of AddStatus or by a status dated in the past. One that was
\* overtaken may be older than the disturbance it went to, not younger.
DowntimeAttributed == Attributed(rows.log, rows.disturbances, late)

\* A disturbance that has ended never changes again: AddStatus amends only
\* what is ongoing, so the history that the website shows is final.
EndedIsFinal ==
    [][\A d \in rows.disturbances : d.UEnded => d \in rows'.disturbances]_vars

\* AddStatus implements the promise of LineTimeline, duplicates, ignored
\* statuses and statuses in the past included: in particular an official
\* disturbance is ongoing exactly while the operator reports one.
phase == PhaseOf(rows.disturbances)

T == INSTANCE LineTimeline WITH phase <- phase, operatorDown <- operatorDown

Timeline == T!TimelineSpec

OfficialFollowsOperator == operatorDown <=> phase = "official"

-----------------------------------------------------------------------------
\* What the duplicate rule drops would not have changed anything: the latest
\* status, with which AddStatus compares, agrees with the phase of the line.
\* But for a disturbance that a first status, older than the latest, began: an
\* all-clear that repeats the latest is dropped, and the disturbance goes on.
LastStatusAgrees == Agrees(rows.log, rows.disturbances)

\* What a first status was compared with is still so, unless it is overtaken.
FirstsAreCurrent ==
    \A e \in Evaluations :
        LET t == evaluations[e].at
        IN  evaluations[e].next = "begin" =>
                /\ \A s \in rows.log : s.Time = t => s = BeginStatus(t)
                /\ ~evaluations[e].overtaken =>
                       /\ OngoingDisturbances(rows.disturbances) = {}
                       /\ EndedBefore(rows.disturbances, t)

(***************************************************************************)
(* The inductive invariant: that of the disturbances' intervals needs what *)
(* the evaluations know; that of the phase needs LastStatusAgrees.         *)
(***************************************************************************)
IInv ==
    /\ TypeOK
    /\ AtMostOneOngoing
    /\ DisjointIntervals
    /\ OfficialWithinUnofficial
    /\ rows.log # {} => Latest(rows.log) # {}
    /\ LastStatusAgrees
    /\ OfficialFollowsOperator
    /\ FirstsAreCurrent
=============================================================================

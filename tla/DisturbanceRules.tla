-------------------------- MODULE DisturbanceRules --------------------------
(***************************************************************************)
(* The rules by which the statuses of one line open, amend and close its   *)
(* disturbances: types/line.go AddStatus, as a function of what the        *)
(* database holds for the line. Every module in which statuses are added   *)
(* uses these operators.                                                   *)
(*                                                                         *)
(* A line's rows are a record: log, the statuses of table line_status, and *)
(* disturbances, those of table line_disturbance. Times are natural        *)
(* numbers, 0 is Go's zero time. No two statuses of a line have the same   *)
(* time (the code stamps them with the clock, in nanoseconds), so a time   *)
(* identifies a status, and the time of its first status a disturbance:    *)
(* the code draws UUIDs.                                                   *)
(*                                                                         *)
(* A definition marked (mutant) is a plausible wrong version of the        *)
(* definition that follows it. No specification uses it: TLC shows that a  *)
(* property is violated when it replaces the right one.                    *)
(***************************************************************************)
EXTENDS Naturals, FiniteSets

CONSTANTS Sources,          \* where statuses come from (table source)
          OfficialSources,  \* those that speak for the operator
          Texts             \* the texts a status can carry

ASSUME SourcesAssumption == OfficialSources \subseteq Sources

Status == [Time : Nat \ {0}, IsDowntime : BOOLEAN, Status : Texts, Source : Sources]

Disturbance == [Official : BOOLEAN,
                OStartTime : Nat, OEndTime : Nat, OEnded : BOOLEAN,
                UStartTime : Nat \ {0}, UEndTime : Nat, UEnded : BOOLEAN,
                Statuses : SUBSET (Nat \ {0})]

LineRows == [log : SUBSET Status, disturbances : SUBSET Disturbance]

NoRows == [log |-> {}, disturbances |-> {}]

IsOfficial(s) == s.Source \in OfficialSources

(***************************************************************************)
(* What AddStatus reads.                                                   *)
(***************************************************************************)
\* ORDER BY timestamp DESC: the rows LIMIT 1 can return.
Latest(log) == {s \in log : \A r \in log : r.Time <= s.Time}

LastStatus(log) == CHOOSE s \in Latest(log) : TRUE

IsRepeatedText(log, s) ==                                        \* (mutant)
    /\ log # {}
    /\ LET last == LastStatus(log)
       IN  last.IsDowntime = s.IsDowntime /\ last.Status = s.Status

\* The new status repeats the latest one: it is not recorded.
IsDuplicate(log, s) ==
    /\ log # {}
    /\ LET last == LastStatus(log)
       IN  /\ last.IsDowntime = s.IsDowntime
           /\ last.Status = s.Status
           /\ IsOfficial(last) = IsOfficial(s)

OngoingOfficialOnly(ds) == {d \in ds : d.Official /\ ~d.OEnded}   \* (mutant)

AllDisturbances(ds) == ds                                        \* (mutant)

OngoingDisturbances(ds) == {d \in ds : ~d.UEnded}

\* ongoing[len(ongoing)-1] of the rows ordered by time_start.
LatestStarted(ds) == CHOOSE d \in ds : \A e \in ds : e.UStartTime <= d.UStartTime

(***************************************************************************)
(* What AddStatus does to a disturbance.                                   *)
(***************************************************************************)
\* Official "everything is fine" statuses do not affect unofficial disturbances.
Ignores(d, s) == ~s.IsDowntime /\ IsOfficial(s) /\ ~d.Official

CloseOfficialTimesOnly(d, s) ==                                  \* (mutant)
    IF ~IsOfficial(s) /\ d.Official THEN d
    ELSE IF d.Official THEN [d EXCEPT !.OEndTime = s.Time, !.OEnded = TRUE]
    ELSE [d EXCEPT !.UEndTime = s.Time, !.UEnded = TRUE]

\* An official end is an unofficial end too; an unofficial one leaves an
\* official disturbance as it is.
Close(d, s) ==
    IF ~IsOfficial(s) /\ d.Official
    THEN d
    ELSE [d EXCEPT !.OEndTime = IF d.Official THEN s.Time ELSE @,
                   !.OEnded = d.Official,
                   !.UEndTime = s.Time,
                   !.UEnded = TRUE]

MakeOfficial(d, s) ==
    IF IsOfficial(s) /\ ~d.Official
    THEN [d EXCEPT !.Official = TRUE, !.OStartTime = s.Time]
    ELSE d

AmendWithoutStatus(d, s) ==                                      \* (mutant)
    IF s.IsDowntime THEN MakeOfficial(d, s) ELSE Close(d, s)

Amend(d, s) ==
    LET changed == IF s.IsDowntime THEN MakeOfficial(d, s) ELSE Close(d, s)
    IN  [changed EXCEPT !.Statuses = @ \cup {s.Time}]

OpenWithoutStart(s) == [Official |-> IsOfficial(s),               \* (mutant)
            OStartTime |-> IF IsOfficial(s) THEN s.Time ELSE 0,
            OEndTime |-> 0, OEnded |-> FALSE,
            UStartTime |-> 0, UEndTime |-> 0, UEnded |-> FALSE,
            Statuses |-> {s.Time}]

Open(s) == [Official |-> IsOfficial(s),
            OStartTime |-> IF IsOfficial(s) THEN s.Time ELSE 0,
            OEndTime |-> 0, OEnded |-> FALSE,
            UStartTime |-> s.Time, UEndTime |-> 0, UEnded |-> FALSE,
            Statuses |-> {s.Time}]

\* Several disturbances may be ongoing: the rules act on the last to start.
DisturbancesAfter(ds, s) ==
    LET ongoing == OngoingDisturbances(ds)
        d == LatestStarted(ongoing)
    IN  IF ongoing # {}
        THEN IF Ignores(d, s) THEN ds ELSE (ds \ {d}) \cup {Amend(d, s)}
        ELSE IF s.IsDowntime THEN ds \cup {Open(s)} ELSE ds

AddStatus(rows, s) ==
    IF IsDuplicate(rows.log, s)
    THEN rows
    ELSE [log |-> rows.log \cup {s},
          disturbances |-> DisturbancesAfter(rows.disturbances, s)]

-----------------------------------------------------------------------------
(***************************************************************************)
(* What the rows of a line should satisfy.                                 *)
(***************************************************************************)
\* No interval overlaps another, and only the last one can be open.
Before(d, e) == d.UEnded /\ d.UEndTime < e.UStartTime

Disjoint(ds) == \A d, e \in ds : d = e \/ Before(d, e) \/ Before(e, d)

\* So are those that did not begin at one of the times late.
DisjointBut(ds, late) == Disjoint({d \in ds : d.UStartTime \notin late})

OneOpen(ds) == \A d, e \in ds : ~d.UEnded /\ ~e.UEnded => d = e

\* The official interval is within the unofficial one and has the same end.
WellTimed(ds) ==
    \A d \in ds :
        /\ d.UEnded => d.UStartTime < d.UEndTime
        /\ IF d.Official THEN d.UStartTime <= d.OStartTime ELSE d.OStartTime = 0
        /\ d.OEnded <=> (d.Official /\ d.UEnded)
        /\ d.OEnded => d.OStartTime < d.OEndTime /\ d.OEndTime = d.UEndTime

\* A latest status that is a downtime goes with an ongoing disturbance, as
\* official as itself; a latest status that is not leaves none it could end,
\* but for one that is not its own: begun since, by a status that is older.
Agrees(log, ds) ==
    \A s \in Latest(log) :
        /\ s.IsDowntime => \E d \in ds : ~d.UEnded /\ (IsOfficial(s) => d.Official)
        /\ ~s.IsDowntime =>
               \A d \in ds :
                   \/ d.UEnded
                   \/ d.Official <=> ~IsOfficial(s)
                   \/ ~IsOfficial(s) /\ s.Time \notin d.Statuses

\* Where a line stands, whoever may have said so.
PhaseOf(ds) ==
    IF \E d \in ds : ~d.UEnded /\ d.Official THEN "official"
    ELSE IF \E d \in ds : ~d.UEnded THEN "community"
    ELSE "normal"

\* Each downtime status is of one disturbance, within its interval; one that is
\* late is of a disturbance, before its end.
Attributed(log, ds, late) ==
    \A s \in {r \in log : r.IsDowntime} :
        \E d \in ds :
            /\ s.Time \in d.Statuses
            /\ d.UEnded => s.Time < d.UEndTime
            /\ s.Time \notin late =>
                   /\ d.UStartTime <= s.Time
                   /\ \A e \in ds : s.Time \in e.Statuses => e = d
=============================================================================

-------------------------- MODULE AchievementRules --------------------------
(***************************************************************************)
(* The achievements of the game that are earned by travelling, and what    *)
(* pages show of them: the strategies of posplay/achievementstrategies.go  *)
(* without those for levels and for submitting something, which module     *)
(* PosPlay has, and for events: the statement that counts these reads a    *)
(* table that has no such column (types/pp_player.go                       *)
(* CountXPTransactionsWithType), and fails.                                *)
(*                                                                         *)
(* A strategy is a function of the player's row for the achievement, NoRow *)
(* if there is none, of the trip and of the map; its outcome is the row    *)
(* that it stores and whether it grants the achievement. A trip is the     *)
(* sequence of its uses, [Station, Manual].                                *)
(***************************************************************************)
EXTENDS NetworkMap

Row == [Achieved : BOOLEAN, VisitedStations : SUBSET STRING]

NoRow == [Achieved |-> FALSE, VisitedStations |-> {"none"}]

Nothing(row) == [row |-> row, granted |-> FALSE]

Granted(row) == [row |-> row, granted |-> TRUE]

\* The stations of a trip, less what the user added by hand.
Visited(trip) == {trip[i].Station : i \in {i \in DOMAIN trip : ~trip[i].Manual}}

-----------------------------------------------------------------------------
(***************************************************************************)
(* VisitStationsAchievementStrategy. Once there is a row, closed stations  *)
(* need not be visited, and are stored as if they had been.                *)
(***************************************************************************)
ForgetsBefore(config, row, trip, net) ==                             \* (mutant)
    {s \in config.Stations \ Visited(trip) :
        (~config.SingleTrip /\ row # NoRow) => ~Closed(net, s)}

LeftToVisit(config, row, trip, net) ==
    {s \in config.Stations \ Visited(trip) :
        (~config.SingleTrip /\ row # NoRow) => s \notin row.VisitedStations /\ ~Closed(net, s)}

VisitStations(config, row, trip, net) ==
    LET left == LeftToVisit(config, row, trip, net)
        stored == IF config.SingleTrip THEN row
                  ELSE [Achieved |-> FALSE, VisitedStations |-> config.Stations \ left]
    IN  IF row # NoRow /\ row.Achieved THEN Nothing(row)
        ELSE IF left = {} THEN Granted(stored) ELSE Nothing(stored)

\* Progress: 0 is all or nothing, -1 is shown censored. Under three tenths of
\* the open stations it is locked; with none open, Go compares NaN.
VisitStationsProgress(config, row, net) ==
    LET Open(stations) == Cardinality({s \in stations : ~Closed(net, s)})
        visited == Open(row.VisitedStations)
    IN  IF config.SingleTrip THEN [current |-> 0, total |-> 0]
        ELSE IF row = NoRow THEN [current |-> 0, total |-> -1]
        ELSE IF 10 * visited < 3 * Open(config.Stations) THEN [current |-> visited, total |-> -1]
        ELSE [current |-> visited, total |-> Open(config.Stations)]

\* ProgressHTML: the stations that are missing, if any were visited.
StationsMissing(config, row, net) ==
    IF config.SingleTrip \/ row = NoRow \/ Cardinality(row.VisitedStations) \in {0, Cardinality(config.Stations)}
    THEN {} ELSE {s \in config.Stations \ row.VisitedStations : ~Closed(net, s)}

\* What is in a set, of a sequence and in its order.
Only(seq, S) == FoldLeft(LAMBDA kept, x : IF x \in S THEN Append(kept, x) ELSE kept, <<>>, seq)

-----------------------------------------------------------------------------
(***************************************************************************)
(* VisitThroughoutLineAchievementStrategy: the open stations of a line, in *)
(* order, one after the other in the trip.                                 *)
(***************************************************************************)
OpenStations(net, line) == Only(net.lines[line], {s \in Range(net.lines[line]) : ~Closed(net, s)})

\* "ascending" falls through to "descending".
Needles(config, net) ==
    LET lines == IF config.Line = "*" THEN DOMAIN net.lines ELSE {config.Line}
        up == {OpenStations(net, l) : l \in lines}
    IN  IF config.Direction \in {"ascending", "up", "*"} THEN up \cup {Reverse(needle) : needle \in up}
        ELSE IF config.Direction \in {"descending", "down"} THEN {Reverse(needle) : needle \in up}
        ELSE {}

\* strings.Contains: also the empty sequence.
StringContains(haystack, needle) ==
    \E i \in 1..(Len(haystack) - Len(needle) + 1) : SubSeq(haystack, i, i + Len(needle) - 1) = needle

VisitThroughoutLine(config, row, trip, net) ==
    LET fast == Only(trip, {use \in Range(trip) : ~use.Manual})
        haystack == [i \in DOMAIN fast |-> fast[i].Station]
    IN  IF (row = NoRow \/ ~row.Achieved) /\ \E needle \in Needles(config, net) : StringContains(haystack, needle)
        THEN Granted(row) ELSE Nothing(row)

-----------------------------------------------------------------------------
(***************************************************************************)
(* TripDuringDisturbanceAchievementStrategy. disturbed is the set of lines *)
(* that had a disturbance between the times of the trip, official if the   *)
(* achievement is for those only.                                          *)
(***************************************************************************)
All == {"*", ""}

DisturbanceScope(config) ==
    IF config.Line \notin All THEN "line" ELSE IF config.Network \notin All THEN "network" ELSE "any"

Affected(config, net, station) ==
    IF DisturbanceScope(config) = "line" THEN config.Line \in LinesOf(net, station)
    ELSE net.networkOf[station] = config.Network

HadDisturbances(config, net, disturbed) ==
    CASE DisturbanceScope(config) = "line" -> config.Line \in disturbed
      [] DisturbanceScope(config) = "network" -> \E l \in disturbed : net.networkOfLine[l] = config.Network
      [] OTHER -> disturbed # {}

TripDuringDisturbance(config, row, trip, net, disturbed) ==
    IF /\ Len(trip) >= 2
       /\ row = NoRow \/ ~row.Achieved
       /\ HadDisturbances(config, net, disturbed)
       /\ \/ DisturbanceScope(config) = "any"
          \/ \E i \in 2..Len(trip) : /\ Affected(config, net, trip[i - 1].Station)
                                     /\ Affected(config, net, trip[i].Station)
    THEN Granted(row) ELSE Nothing(row)

-----------------------------------------------------------------------------
\* achieveAchievement writes the row anew, without the stations that it listed.
RowLeft(outcome) ==
    IF outcome.granted THEN [Achieved |-> TRUE, VisitedStations |-> {}] ELSE outcome.row

\* The outcomes of an achievement, trip after trip, each on the map of its time.
Outcomes(config, steps) ==
    FoldLeft(LAMBDA done, step :
                 LET row == IF done = <<>> THEN NoRow ELSE RowLeft(Last(done))
                 IN  Append(done, VisitStations(config, row, step.trip, step.net)),
             <<>>, steps)

\* Where a player went in the first k trips, or could not go.
Covered(config, steps, k) ==
    (UNION {Visited(steps[i].trip) : i \in 1..k})
    \cup {s \in config.Stations : \E i \in 2..k : Closed(steps[i].net, s)}

(***************************************************************************)
(* Travelling to all of some stations, over several trips: no visit is     *)
(* forgotten until the achievement is granted, which is once and for ever, *)
(* by the first trip after which every station was visited or was closed   *)
(* during one of the trips since the second; stations that the page says   *)
(* are missing are none of those (posplay/achievementstrategies.go         *)
(* VisitStationsAchievementStrategy).                                      *)
(***************************************************************************)
VisitsRememberedIn(config, steps) ==
    LET outcomes == Outcomes(config, steps)
        Done(k) == config.Stations \subseteq Covered(config, steps, k)
    IN  \A k \in DOMAIN steps :
            /\ outcomes[k].granted <=> Done(k) /\ \A j \in 1..(k - 1) : ~Done(j)
            /\ RowLeft(outcomes[k]).Achieved <=> \E j \in 1..k : Done(j)
            /\ \/ Done(k)
               \/ \A j \in 1..k : RowLeft(outcomes[j]).VisitedStations \subseteq RowLeft(outcomes[k]).VisitedStations
            /\ StationsMissing(config, RowLeft(outcomes[k]), steps[k].net) \cap Covered(config, steps, k) = {}
            /\ VisitStationsProgress(config, RowLeft(outcomes[k]), steps[k].net).current <= Cardinality(config.Stations)

(***************************************************************************)
(* One trip throughout a line also visits all of its open stations in a    *)
(* single trip, and one during a disturbance of the line is one during a   *)
(* disturbance of its network, and of any: the narrower achievement never  *)
(* comes without the wider one.                                            *)
(***************************************************************************)
WiderScopesIn(line, direction, trip, net, disturbed) ==
    LET throughout == [Line |-> line, Direction |-> direction]
        allStations == [Stations |-> Range(OpenStations(net, line)), SingleTrip |-> TRUE]
        During(l, n) == TripDuringDisturbance([Line |-> l, Network |-> n], NoRow, trip, net, disturbed).granted
    IN  /\ VisitThroughoutLine(throughout, NoRow, trip, net).granted
                => VisitStations(allStations, NoRow, trip, net).granted
        /\ During(line, "*") => During("*", net.networkOfLine[line])
        /\ During("*", net.networkOfLine[line]) => During("*", "*")
=============================================================================

---------------------------- MODULE TypicalTimes ----------------------------
(***************************************************************************)
(* What trips say of the times between stations: compute/typseconds.go,    *)
(* compute/avgspeed.go and types/trip.go AverageSpeed. UpdateTypicalSeconds*)
(* writes the times of the map, in one transaction, from the trips of the  *)
(* last month; TypicalSecondsByDowAndHour tabulates them by hour.          *)
(*                                                                         *)
(* A trip is the sequence of its station uses, times in seconds. A day has *)
(* 24 hours of 3600 seconds. An edge is a connection of NetworkMap, real   *)
(* or joined, or a transfer.                                               *)
(***************************************************************************)
EXTENDS NetworkMap

StationUse == [Station : STRING, Type : {"NetworkEntry", "GoneThrough", "Interchange", "NetworkExit", "Visit"},
               Manual : BOOLEAN, EntryTime : Int, LeaveTime : Int, SourceLine : STRING, TargetLine : STRING]

TransferOf(net, use) == GetTransfer(net, use.Station, use.SourceLine, use.TargetLine)

ConnectionOf(net, uses, i) == GetConnection(net, uses[i].Station, uses[i + 1].Station, TRUE)

\* A transfer that exists no more ends the trip; other gaps are passed over.
Lost(net, use) == ~use.Manual /\ use.Type = "Interchange" /\ TransferOf(net, use) = None

\* The uses that are looked at; the last one only as a target.
Processed(net, uses) ==
    SelectSeq([i \in 1..(Len(uses) - 1) |-> i],
              LAMBDA i : ~uses[i].Manual /\ \A j \in 1..i : ~Lost(net, uses[j]))

Transfers(net, uses) ==
    SelectSeq(Processed(net, uses), LAMBDA i : uses[i].Type = "Interchange")

\* A use followed at once by another was added for a station that the phone missed.
Forced(uses, i) ==
    i + 2 <= Len(uses) /\ uses[i + 2].EntryTime - uses[i + 1].EntryTime < 1

Connections(net, uses) ==
    SelectSeq(Processed(net, uses),
              LAMBDA i : ~uses[i + 1].Manual /\ ConnectionOf(net, uses, i) # None /\ ~Forced(uses, i))

Travel(uses, i) == uses[i + 1].EntryTime - uses[i].LeaveTime
Wait(uses, i) == uses[i].LeaveTime - uses[i].EntryTime

-----------------------------------------------------------------------------
(***************************************************************************)
(* UpdateTypicalSeconds. A sample is the edge and its seconds.             *)
(***************************************************************************)
TransferSamples(net, uses) ==
    LET short == SelectSeq(Transfers(net, uses), LAMBDA i : Wait(uses, i) < 15 * 60)
    IN  [k \in DOMAIN short |-> [edge |-> TransferOf(net, uses[short[k]]), seconds |-> Wait(uses, short[k]) - 20]]

TravelSamples(net, uses) ==
    LET short == SelectSeq(Connections(net, uses), LAMBDA i : Travel(uses, i) < 10 * 60)
    IN  [k \in DOMAIN short |-> [edge |-> ConnectionOf(net, uses, short[k]), seconds |-> Travel(uses, short[k]) + 20]]

\* The waits of those who enter, and the stops of those who go through.
StandingSamples(net, uses, type) ==
    LET short == SelectSeq(Connections(net, uses), LAMBDA i : uses[i].Type = type /\ Wait(uses, i) < 3 * 60)
    IN  [k \in DOMAIN short |-> [edge |-> ConnectionOf(net, uses, short[k]), seconds |-> Wait(uses, short[k]) - 20]]

AllSamples(trips, Samples(_)) == FlattenSeq([k \in DOMAIN trips |-> Samples(trips[k])])

Of(samples, edge) == SelectSeq(samples, LAMBDA s : s.edge = edge)

TotalSeconds(samples) == FoldLeft(LAMBDA sum, s : sum + s.seconds, 0, samples)

\* Two samples are enough.
Known(samples) == {e \in {samples[k].edge : k \in DOMAIN samples} : Len(Of(samples, e)) >= 2}

\* math.Round of a fraction: halves go away from zero.
Round(n, d) == IF n >= 0 THEN (2 * n + d) \div (2 * d) ELSE -((-2 * n + d) \div (2 * d))

Average(samples, edge) == Round(TotalSeconds(Of(samples, edge)), Len(Of(samples, edge)))

\* An average for each edge that is known; the order of a Go map is any.
Averaged(net, edges, Set(_, _)) == FoldSet(LAMBDA e, n : Set(n, e), net, edges)

\* The connections of the line that a transfer leads to, of which stops are known.
StopsAfter(net, stops, t) ==
    {c \in {stops[k].edge : k \in DOMAIN stops} : c.From = t.Station /\ t.To \in LinesOf(net, c.To)}

\* The four tables of samples.
Samples(net, trips) ==
    [travels |-> AllSamples(trips, LAMBDA uses : TravelSamples(net, uses)),
     stops |-> AllSamples(trips, LAMBDA uses : StandingSamples(net, uses, "GoneThrough")),
     waits |-> AllSamples(trips, LAMBDA uses : StandingSamples(net, uses, "NetworkEntry")),
     transfers |-> AllSamples(trips, LAMBDA uses : TransferSamples(net, uses))]

KnownOr(samples, edge, seconds) == IF edge \in Known(samples) THEN Average(samples, edge) ELSE seconds

\* The pointers of the code are kept for the whole transaction, so that what is
\* known of an edge is added to what was set before: seconds, stops and waits are
\* set from one record.
Learnt(s, c) ==
    [c EXCEPT !.TypicalSeconds = KnownOr(s.travels, c, @),
              !.TypicalStopSeconds = KnownOr(s.stops, c, @),
              !.TypicalWaitingSeconds = KnownOr(s.waits, c, @)]

\* The average of the samples, less that of the stops after the transfer.
TransferTime(s, t, after) ==
    LET mine == Of(s.transfers, t)
        m == Max({1, Cardinality(after)})
        stopTime == MapThenSumSet(LAMBDA c : Learnt(s, c).TypicalStopSeconds, after)
    IN  Round(TotalSeconds(mine) * m - stopTime * Len(mine), Len(mine) * m)

WithConnections(net, s) ==
    Averaged(net, Known(s.travels) \cup Known(s.stops) \cup Known(s.waits),
             LAMBDA n, c : Update(n, Learnt(s, c)))

WithTransfers(net, s) ==
    Averaged(WithConnections(net, s), Known(s.transfers),
             LAMBDA n, t : UpdateTransfer(n, [t EXCEPT !.TypicalSeconds =
                                                 TransferTime(s, t, StopsAfter(net, s.stops, t))]))

UpdateTypicalSeconds(net, trips) == WithTransfers(net, Samples(net, trips))

-----------------------------------------------------------------------------
(***************************************************************************)
(* TypicalSecondsByDowAndHour: samples with the hour they began.           *)
(***************************************************************************)
HourOfWeek(t) == (t \div 3600) % (7 * 24)

HourlyConnections(net, uses) ==
    LET fit == SelectSeq(Connections(net, uses),
                   LAMBDA i : /\ Travel(uses, i) < 15 * 60 /\ Wait(uses, i) < 15 * 60
                              /\ Travel(uses, i) > 10 \/ Wait(uses, i) > 10)
    IN  [k \in DOMAIN fit |-> [edge |-> ConnectionOf(net, uses, fit[k]), hour |-> HourOfWeek(uses[fit[k]].EntryTime),
                               seconds |-> Travel(uses, fit[k]) + Wait(uses, fit[k])]]

HourlyTransfers(net, uses) ==
    LET fit == SelectSeq(Transfers(net, uses), LAMBDA i : Wait(uses, i) \in 11..(15 * 60 - 1))
    IN  [k \in DOMAIN fit |-> [edge |-> TransferOf(net, uses[fit[k]]), hour |-> HourOfWeek(uses[fit[k]].EntryTime),
                               seconds |-> Wait(uses, fit[k]) - 20]]

\* Every hour of the week has an entry, for every edge that has a sample.
Tabulated(samples) ==
    [e \in {samples[k].edge : k \in DOMAIN samples} |->
        LET mine == Of(samples, e)
            At(hour) == SelectSeq(mine, LAMBDA s : s.hour = hour)
        IN  [entries |-> [hour \in 0..(7 * 24 - 1) |-> [Numerator |-> TotalSeconds(At(hour)), Denominator |-> Len(At(hour))]],
             Min |-> Min({mine[k].seconds : k \in DOMAIN mine}),
             Max |-> Max({mine[k].seconds : k \in DOMAIN mine})]]

TypicalSecondsByDowAndHour(net, trips) ==
    [connections |-> Tabulated(AllSamples(trips, LAMBDA uses : HourlyConnections(net, uses))),
     transfers |-> Tabulated(AllSamples(trips, LAMBDA uses : HourlyTransfers(net, uses)))]

-----------------------------------------------------------------------------
(***************************************************************************)
(* The speed of a trip: distance and time, of which the code divides one   *)
(* by the other. Connections that leave an interchange are not counted.    *)
(***************************************************************************)
Ridden(uses) ==
    {i \in 1..(Len(uses) - 1) : /\ ~uses[i].Manual /\ ~uses[i + 1].Manual
                                /\ uses[i].Type \notin {"Interchange", "Visit"}}

\* It fails if a connection exists no more.
HasSpeed(net, uses) == Len(uses) > 1 /\ \A i \in Ridden(uses) : ConnectionOf(net, uses, i) # None

AverageSpeed(net, uses) ==
    LET ridden == Ridden(uses)
    IN  [distance |-> MapThenSumSet(LAMBDA i : ConnectionOf(net, uses, i).WorldLength, ridden),
         duration |-> IF ridden = {} THEN 0
                      ELSE uses[Max(ridden) + 1].EntryTime - uses[Min(ridden)].LeaveTime]

AverageSpeedFilter(net, trips, Filter(_)) ==
    LET speeds == {k \in DOMAIN trips : Filter(trips[k]) /\ HasSpeed(net, trips[k])}
    IN  [distance |-> MapThenSumSet(LAMBDA k : AverageSpeed(net, trips[k]).distance, speeds),
         duration |-> MapThenSumSet(LAMBDA k : AverageSpeed(net, trips[k]).duration, speeds)]
-----------------------------------------------------------------------------
Sums(table, Part(_)) == MapThenSumSet(LAMBDA hour : Part(table.entries[hour]), DOMAIN table.entries)

Bounded(tables, samples) ==
    \A e \in DOMAIN tables :
        \E n \in {Len(Of(samples, e))} :
            /\ Sums(tables[e], LAMBDA entry : entry.Denominator) = n
            /\ Sums(tables[e], LAMBDA entry : entry.Numerator) \in (n * tables[e].Min)..(n * tables[e].Max)

TablesComplete(net, trips) ==
    \E hourly \in {TypicalSecondsByDowAndHour(net, trips)} :
        /\ Bounded(hourly.connections, AllSamples(trips, LAMBDA uses : HourlyConnections(net, uses)))
        /\ Bounded(hourly.transfers, AllSamples(trips, LAMBDA uses : HourlyTransfers(net, uses)))

StopAfter(learned, after) ==
    IF after = {} THEN 0
    ELSE MapThenSumSet(LAMBDA c : GetConnection(learned, c.From, c.To, TRUE).TypicalStopSeconds, after)
         \div Cardinality(after)

\* s are the samples from which what is learned was learned.
ReadBack(net, learned, s) ==
    /\ \A c \in GetConnections(net, TRUE) :
          \E read \in {GetConnection(learned, c.From, c.To, TRUE)} :
              /\ read.TypicalSeconds = KnownOr(s.travels, c, read.TypicalSeconds)
              /\ read.TypicalStopSeconds = KnownOr(s.stops, c, read.TypicalStopSeconds)
              /\ read.TypicalWaitingSeconds = KnownOr(s.waits, c, read.TypicalWaitingSeconds)
    /\ \A t \in Known(s.transfers) :
          GetTransfer(learned, t.Station, t.From, t.To).TypicalSeconds
              + StopAfter(learned, StopsAfter(net, s.stops, t)) - Average(s.transfers, t) \in -1..1

(***************************************************************************)
(* What trips between open stations teach is read back, also of a          *)
(* connection past a closed station, whose time is split between two rows: *)
(* its seconds, stops and waits are the averages of at least two samples   *)
(* (compute/typseconds.go, types/connection.go Update). A transfer, and    *)
(* the stop after it, take as long as the trips did, give or take the      *)
(* rounding. In the table by hours no sample is lost: what is in the hours *)
(* is between as many times the least and the greatest.                    *)
(***************************************************************************)
LearnedTimesReadBackIn(net, trips) ==
    /\ TablesComplete(net, trips)
    /\ ReadBack(net, UpdateTypicalSeconds(net, trips), Samples(net, trips))
=============================================================================

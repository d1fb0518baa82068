------------------------------- MODULE Trips -------------------------------
(***************************************************************************)
(* How trips are stored and read back: resource/trip.go, types/trip.go and *)
(* types/stationuse.go. A phone sends the uses of a trip; the server       *)
(* repairs their times, and upserts a row for each. What it reads back is  *)
(* the rows by their times.                                                *)
(*                                                                         *)
(* Times count minutes. db has trips, from identifiers to rows, and uses,  *)
(* rows with the trip's identifier. A request is refused, which leaves db  *)
(* as it was, or its transaction commits. A reader may find the module     *)
(* PosPlay for what the processor makes of trips.                          *)
(***************************************************************************)
EXTENDS Integers, FiniteSetsExt, SequencesExt, Functions

Day == 24 * 60

Types == {"NetworkEntry", "NetworkExit", "Interchange", "GoneThrough", "Visit"}

NoTrips == [trips |-> <<>>, uses |-> {}]

\* checkValidAndLines; the resource drops the lines of any but an interchange.
ValidUse(use) ==
    /\ use.Type \in Types
    /\ use.Type = "Interchange" =>
           use.SourceLine # "" /\ use.TargetLine # "" /\ use.SourceLine # use.TargetLine

OneLaterThan(done, use) ==                                           \* (mutant)
    LET entry == IF done = <<>> THEN use.EntryTime ELSE Max({use.EntryTime, Last(done).EntryTime})
    IN  [use EXCEPT !.EntryTime = entry, !.LeaveTime = Max({use.LeaveTime, entry})]

\* A use that comes after those that are done.
After(done, use) ==
    LET entry == IF done = <<>> THEN use.EntryTime ELSE Max({use.EntryTime, Last(done).LeaveTime})
    IN  [use EXCEPT !.EntryTime = entry, !.LeaveTime = Max({use.LeaveTime, entry})]

\* Times that old versions of the app got wrong, made to follow one another.
Repaired(uses) == FoldLeft(LAMBDA done, use : Append(done, After(done, use)), <<>>, uses)

-----------------------------------------------------------------------------
(***************************************************************************)
(* The tables.                                                             *)
(***************************************************************************)
\* The key of a row of station_use, within a trip.
Key(use) == <<use.Station, use.EntryTime>>

Row(id, use) == [trip |-> id, use |-> use]

\* ON CONFLICT (trip_id, station_id, entry_time) DO UPDATE
Upsert(rows, id, use) ==
    {r \in rows : r.trip # id \/ Key(r.use) # Key(use)} \cup {Row(id, use)}

\* Trip.Update: rows that were stored for other keys stay.
Update(db, id, row, uses) ==
    [trips |-> (id :> row) @@ db.trips,
     uses |-> FoldLeft(LAMBDA rows, use : Upsert(rows, id, use), db.uses, Repaired(uses))]

\* What Update and the resource check of the uses.
Acceptable(uses, stations) ==
    /\ uses # <<>>
    /\ Len(uses) = 1 => uses[1].Type = "Visit"
    /\ \A i \in DOMAIN uses : uses[i].Station \in stations /\ ValidUse(uses[i])

\* The times of the trip are taken from the uses before they are repaired.
StartTime(uses) == Head(uses).EntryTime
EndTime(uses) == Last(uses).LeaveTime

\* Trip.Post
Post(db, id, uses, pair, confirmed, stations, now) ==
    IF Acceptable(uses, stations) /\ id \notin DOMAIN db.trips
    THEN Update(db, id, [StartTime |-> StartTime(uses), EndTime |-> EndTime(uses), Submitter |-> pair,
                         SubmitTime |-> now, EditTime |-> 0, Edited |-> FALSE, UserConfirmed |-> confirmed], uses)
    ELSE db

\* getTripToEdit
CanEdit(db, id, uses, pair, now) ==
    /\ uses # <<>>
    /\ id \in DOMAIN db.trips
    /\ db.trips[id].Submitter = pair
    /\ now - db.trips[id].SubmitTime <= 7 * Day
    /\ StartTime(uses) <= now + 15 /\ EndTime(uses) <= now + 15
    /\ EndTime(uses) - StartTime(uses) <= Day

\* Trip.Put
Put(db, id, uses, pair, confirmed, stations, now) ==
    IF CanEdit(db, id, uses, pair, now) /\ Acceptable(uses, stations)
    THEN Update(db, id, [db.trips[id] EXCEPT
                            !.StartTime = StartTime(uses), !.EndTime = EndTime(uses),
                            !.EditTime = now, !.Edited = TRUE, !.UserConfirmed = confirmed], uses)
    ELSE db

\* Trip.Delete, of a trip as it was read.
Delete(db, id) ==
    [trips |-> Restrict(db.trips, DOMAIN db.trips \ {id}), uses |-> {r \in db.uses : r.trip # id}]

-----------------------------------------------------------------------------
(***************************************************************************)
(* What is read.                                                           *)
(***************************************************************************)
Before(use, other) ==
    \/ use.EntryTime < other.EntryTime
    \/ use.EntryTime = other.EntryTime /\ use.LeaveTime < other.LeaveTime

\* ORDER BY entry_time, leave_time: of equals, some order.
StationUses(db, id) == SetToSortSeq({r.use : r \in {r \in db.uses : r.trip = id}}, Before)

Within(t, start, end) == start <= t /\ t <= end

\* A trip that began before the interval and ends after it is not found.
GetTripIDsBetween(db, start, end) ==
    {id \in DOMAIN db.trips : Within(db.trips[id].StartTime, start, end) \/ Within(db.trips[id].EndTime, start, end)}

GetTripsForSubmitterBetween(db, pair, start, end) ==
    {id \in GetTripIDsBetween(db, start, end) : db.trips[id].Submitter = pair}

\* OVERLAPS counts half-open intervals, and an empty one as its instant.
Overlaps(a, b) ==
    LET first == IF a.StartTime <= b.StartTime THEN a ELSE b
        second == IF first = a THEN b ELSE a
    IN  first.StartTime = second.StartTime \/ second.StartTime < first.EndTime

SimultaneousTrips(db, id, excludeLongerThan) ==
    {other \in DOMAIN db.trips \ {id} :
        /\ db.trips[other].EndTime - db.trips[other].StartTime <= excludeLongerThan
        /\ Overlaps(db.trips[other], db.trips[id])}

\* CountTripsByDay: those that were not confirmed, and those that were.
CountTripsByDay(db, firstDay, lastDay) ==
    LET Count(day, confirmed) == Cardinality({id \in DOMAIN db.trips :
            db.trips[id].StartTime \div Day = day /\ db.trips[id].UserConfirmed = confirmed})
    IN  [day \in firstDay..lastDay |-> <<Count(day, FALSE), Count(day, TRUE)>>]

-----------------------------------------------------------------------------
\* The keys of the rows of a trip, and of uses to send.
Keys(uses) == {Key(uses[i]) : i \in DOMAIN uses}

\* Times that tell the uses apart, and their order.
Ordered(uses) == \A i \in 1..(Len(uses) - 1) : Before(uses[i], uses[i + 1])

(***************************************************************************)
(* The uses of a trip that was sent (Post) and then sent again (Put) are   *)
(* read back as they were last sent, with their times repaired, if and     *)
(* only if the second request has every row of the first: a use that the   *)
(* user removed, or whose entry time changed, is not deleted, and comes    *)
(* back among the others (types/trip.go Update, types/stationuse.go        *)
(* Update). What is stored first follows one another, and keeps the times  *)
(* that did; whatever is stored is read in the order of its times.         *)
(***************************************************************************)
ReadsBackIn(db, id, first, second, pair, stations, now, again) ==
    LET posted == Post(db, id, first, pair, TRUE, stations, now)
        put == Put(posted, id, second, pair, TRUE, stations, again)
        read == StationUses(put, id)
        InOrder(uses) == /\ \A i \in DOMAIN uses : uses[i].EntryTime <= uses[i].LeaveTime
                         /\ \A i \in 1..(Len(uses) - 1) : uses[i].LeaveTime <= uses[i + 1].EntryTime
    IN  Acceptable(first, stations) /\ Acceptable(second, stations)
        /\ Ordered(Repaired(first)) /\ Ordered(Repaired(second)) =>
            /\ StationUses(posted, id) = Repaired(first)
            /\ InOrder(StationUses(posted, id))
            /\ InOrder(first) => StationUses(posted, id) = first
            /\ put # posted =>
                  /\ Range(Repaired(second)) \subseteq Range(read)
                  /\ \A i \in 1..(Len(read) - 1) : ~Before(read[i + 1], read[i])
                  /\ read = Repaired(second) <=> Keys(Repaired(first)) \subseteq Keys(Repaired(second))

(***************************************************************************)
(* Of two trips, each is simultaneous to the other or neither is; both are *)
(* counted on their days, and found by their ends; and deleting one leaves *)
(* the database as if it had never been sent.                              *)
(***************************************************************************)
TwoTripsIn(db, first, second, stations, now) ==
    LET one == Post(db, "one", first, "phone", TRUE, stations, now)
        both == Post(one, "other", second, "tablet", FALSE, stations, now)
        lastDay == Max({now, EndTime(first), EndTime(second)}) \div Day
        Counted(n) == MapThenSumSet(LAMBDA d : CountTripsByDay(both, 0, lastDay)[d][n], 0..lastDay)
    IN  DOMAIN both.trips = {"one", "other"} =>
            /\ SimultaneousTrips(both, "one", Day) # {} <=> SimultaneousTrips(both, "other", Day) # {}
            /\ Counted(1) = 1 /\ Counted(2) = 1
            /\ \A t \in {StartTime(second), EndTime(second)} :
                  GetTripsForSubmitterBetween(both, "tablet", t - 1, t) = {"other"}
            /\ Delete(both, "other") = one
=============================================================================

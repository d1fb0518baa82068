----------------------------- MODULE MCRecords -----------------------------
(***************************************************************************)
(* The modules without a state, for TLC. They are functions of rows, of    *)
(* requests and of the clock, and what they promise is a relation between  *)
(* several of their answers. Each action asks one question, with inputs    *)
(* that the program can have; an invariant says what the answers are.      *)
(***************************************************************************)
EXTENDS LineStatistics, TypicalTimes, AchievementRules, GameLedger, StatusMessages, OpeningHours, DevicePairing

\* The hours of days, and the text of the statuses below.
ASSUME RecordsAssumption == DayLength > 2 /\ "delays" \in Texts /\ DayHours \in Nat /\ DayHours > 2

Sent == INSTANCE Trips
\* Trains at the terminus b are expected at platform b2, which has the name of b1.
Trains == INSTANCE Arrivals WITH PlatformAlias <- [p \in {"b2"} |-> "b1"], TerminalPlatforms <- {"b2"}

VARIABLE question

RecordsInit == question = [is |-> "none"]

Unasked == question.is = "none"

Asks(q) == question' = q

-----------------------------------------------------------------------------
(***************************************************************************)
(* Lines: statuses at some hours of three days, from which AddStatus makes *)
(* the disturbances; a schedule that closes at night, or past midnight.    *)
(***************************************************************************)
StatusHours == {2 * DayLength, 2 * DayLength + 1, 3 * DayLength - 1, 3 * DayLength + 2, 4 * DayLength + 1, 5 * DayLength - 1}

StatusesAt == [Time : StatusHours, IsDowntime : BOOLEAN, Status : {"delays"}, Source : Sources]

Histories ==
    {h \in UNION {[1..n -> StatusesAt] : n \in 1..3} : \A i, j \in DOMAIN h : i < j => h[i].Time < h[j].Time}

Weekly(open, duration) ==
    {[Holiday |-> FALSE, Day |-> d, OpenTime |-> open, OpenDuration |-> duration] : d \in 0..6}

Festive(day, open, duration) ==
    [Holiday |-> TRUE, Day |-> day, OpenTime |-> open, OpenDuration |-> duration]

Schedules == {Weekly(1, DayLength - 1),                              \* closed an hour before dawn
              Weekly(1, DayLength) \cup {Festive(0, 2, 1)},          \* until past midnight
              Weekly(1, 1) \cup {Festive(0, 2, 1), Festive(4, 1, 0)}}

AskStatistics ==
    /\ Unasked
    /\ \E history \in Histories, schedules \in Schedules, official \in BOOLEAN, length \in 1..2 :
           Asks([is |-> "statistics", official |-> official, days |-> length, now |-> 5 * DayLength,
                 line |-> [schedules |-> schedules, holidays |-> <<4>>,
                           disturbances |-> FoldLeft(AddStatus, NoRows, history).disturbances]])

\* The hours in which a line was down are counted once, also those of a day that
\* ends past midnight (types/line.go Availability, DisturbanceDuration).
DowntimeCountedOnce ==
    question.is = "statistics" =>
        DowntimeCountedOnceIn(question.line, 3, question.days, question.official, question.now)

-----------------------------------------------------------------------------
(***************************************************************************)
(* Maps: two lines of five and of three stations that cross at c, closed   *)
(* at any stations but two that follow one another.                        *)
(***************************************************************************)
Lines == [green |-> <<"a", "b", "c", "d", "e">>, blue |-> <<"f", "c", "g">>]

Stations == UNION {Range(Lines[l]) : l \in DOMAIN Lines}

Follow(s, t) == \E l \in DOMAIN Lines : \E i \in 1..(Len(Lines[l]) - 1) : {Lines[l][i], Lines[l][i + 1]} = {s, t}

Closable == {set \in SUBSET Stations : \A s, t \in set : ~Follow(s, t)}

Connection(s, t, seconds) ==
    [From |-> s, To |-> t, TypicalSeconds |-> seconds, TypicalStopSeconds |-> 10, TypicalWaitingSeconds |-> 60,
     WorldLength |-> 500, FromPlatform |-> s, ToPlatform |-> t, parts |-> <<>>]

Interchange(from, to) == [Station |-> "c", From |-> from, To |-> to, TypicalSeconds |-> 90]

MapWith(closed) ==
    [lines |-> Lines,
     lobbies |-> [s \in Stations |-> IF s \in closed THEN {{FALSE}, {}} ELSE {{TRUE, FALSE}, {FALSE}}],
     connections |-> {Connection(p[1], p[2], IF p[1] = "c" THEN 61 ELSE 90) : p \in {q \in Stations \X Stations : Follow(q[1], q[2])}},
     transfers |-> {Interchange("green", "blue"), Interchange("blue", "green")},
     networkOf |-> [s \in Stations |-> "net"],
     networkOfLine |-> [l \in DOMAIN Lines |-> "net"]]

AskMap ==
    /\ Unasked
    /\ \E closed \in Closable : Asks([is |-> "map", net |-> MapWith(closed)])

\* Closed stations are passed: their connections are joined, both ways
\* (types/connection.go provideClosedCompat).
ClosedStationsPassed == question.is = "map" => ClosedStationsPassedIn(question.net)

(***************************************************************************)
(* Trips: from one station to another, past closed ones, along a line or   *)
(* from a green station to a blue one; some seconds for each part.         *)
(***************************************************************************)
Use(station, type, entry, leave) ==
    [Station |-> station, Type |-> type, Manual |-> FALSE, EntryTime |-> entry, LeaveTime |-> leave,
     SourceLine |-> IF type = "Interchange" THEN "green" ELSE "", TargetLine |-> IF type = "Interchange" THEN "blue" ELSE ""]

TripAlong(way, at, wait, stop, ride) ==
    [i \in DOMAIN way |->
        LET entry == at + (IF i = 1 THEN 0 ELSE wait + (i - 1) * ride + (i - 2) * stop)
            stay == IF i = 1 THEN wait ELSE IF i = Len(way) THEN 0 ELSE stop
        IN  Use(way[i], CASE i = 1 -> "NetworkEntry" [] i = Len(way) -> "NetworkExit"
                          [] way[i] = "c" /\ Last(way) = "g" -> "Interchange" [] OTHER -> "GoneThrough",
                entry, entry + stay)]

OpenWay(way, closed) == SelectSeq(way, LAMBDA s : s \notin closed)

Ways == {<<"a", "b", "c", "d", "e">>, <<"e", "d", "c">>, <<"b", "c", "g">>}

AskTimes ==
    /\ Unasked
    /\ \E closed \in {{}, {"b"}, {"d"}, {"b", "d"}}, way, other \in Ways :
       \E wait \in {5, 40}, stop \in {20, 45}, ride, slower \in {50, 101} :
           Asks([is |-> "times", net |-> MapWith(closed), way |-> way,
                 trips |-> <<TripAlong(OpenWay(way, closed), 0, wait, stop, ride),
                             TripAlong(OpenWay(way, closed), 4000, 61, 33, slower),
                             TripAlong(OpenWay(other, closed), 9000, wait, stop, slower)>>])

\* What trips teach (compute/typseconds.go) is what predictions then read, past
\* closed stations too.
LearnedTimesReadBack ==
    question.is = "times" =>
        /\ LearnedTimesReadBackIn(question.net, question.trips)
        \* and closed stations do not make trips shorter, but for what follows an interchange
        /\ AverageSpeedFilter(question.net, <<question.trips[1]>>, LAMBDA trip : TRUE).distance
             = 500 * (Len(question.way) - (IF Last(question.way) = "g" THEN 2 ELSE 1))

-----------------------------------------------------------------------------
(***************************************************************************)
(* Trains: one or two that begin anywhere on a line of four stations, in either *)
(* direction, in ten minutes.                                              *)
(***************************************************************************)
Track == <<"a", "b", "c", "d">>

Rides == [k \in {<<Track[i], Track[i + 1]>> : i \in 1..3} \cup {<<Track[i + 1], Track[i]>> : i \in 1..3} |->
             IF k[1] = "b" THEN 75 ELSE 60]

Starts == [begins : 1..4, up : BOOLEAN, at : {0, 130, 300}]

Timetables == {trains \in UNION {kSubset(n, Starts) : n \in 1..2} : Trains!Apart(Track, Rides, trains)}

AskNextTrain ==
    /\ Unasked
    /\ \E trains \in Timetables, user \in {1, 2, 4}, now \in {150, 310, 480} :
           Asks([is |-> "train", trains |-> trains, user |-> user, now |-> now])

(***************************************************************************)
(* The arrivals of two trains at three platforms, as the API tells them.   *)
(***************************************************************************)
Platforms == {<<"A", "a1", 2>>, <<"B", "b1", 2>>, <<"B", "b2", 1>>}

Announced == {<<>>, <<[service |-> "1A", eta |-> 0], [service |-> "2A", eta |-> 50]>>, <<[service |-> "1A", eta |-> 50]>>,
              <<[service |-> "2A", eta |-> 0], [service |-> "1A", eta |-> -1]>>, <<[service |-> "", eta |-> 0], [service |-> "1A", eta |-> 20]>>}

Destinos == Trains!fetchDestinos({[id |-> 1, name |-> "Terminal A"], [id |-> 2, name |-> "Terminal B"]},
                                 "Terminal A" :> "a" @@ "Terminal B" :> "b")

ArrivalsFrom(told, made) ==
    Trains!processETAdata(
        {[stop |-> p[1], platform |-> p[2], destino |-> p[3], made |-> made, units |-> 1, trains |-> told[p]] : p \in Platforms},
        "A" :> "a" @@ "B" :> "b", Destinos, 0, 1000, Trains!etaValidity(10, 15))

AskPublished ==
    /\ Unasked
    /\ \E told \in [Platforms -> Announced], made \in {930, 1000}, later \in {1000, 1020, 1041} :
           Asks([is |-> "published", etas |-> ArrivalsFrom(told, made), later |-> later])

\* The train that is announced is the next one that comes, and what is published
\* of the arrivals hangs together (compute/vehiclehandler.go NextTrainETA,
\* compute/vehicleeta.go, mqttgateway/vehiclepos.go).
TrainsForetold ==
    /\ question.is = "train" =>
          Trains!NextTrainPredictedIn(Track, Rides, question.trains, question.user, question.now)
    /\ question.is = "published" =>
          Trains!PublishedAgreesIn(question.etas, {[Connection("a", "b", 80) EXCEPT !.FromPlatform = "a1", !.ToPlatform = "b1"]},
                                   [s \in {"a", "b"} |-> Directions([lines |-> [green |-> <<"a", "b">>]], s, [green |-> {"a"}])],
                                   1000, question.later)

-----------------------------------------------------------------------------
(***************************************************************************)
(* Achievements: three trips over some of three stations, of which some    *)
(* are closed in the meantime; and a trip over the map with a disturbance. *)
(***************************************************************************)
Spots == {"a", "b", "d"}

Steps == [way : {<<"a">>, <<"b">>, <<"a", "d">>, <<"e">>}, manual : BOOLEAN, closed : {{}, {"b"}, {"d"}}]

Step(s) ==
    [trip |-> [i \in DOMAIN s.way |-> [Station |-> s.way[i], Manual |-> s.manual]], net |-> MapWith(s.closed)]

AskVisits ==
    /\ Unasked
    /\ \E first, second, third \in Steps :
           Asks([is |-> "visits", steps |-> <<Step(first), Step(second), Step(third)>>])

AskScopes ==
    /\ Unasked
    /\ \E way \in Ways \cup {<<"f", "c", "g">>, <<"f", "g">>, <<"g", "c", "d", "e">>, <<"e">>},
          closed \in Closable, line \in DOMAIN Lines, disturbed \in SUBSET DOMAIN Lines, direction \in {"*", "up", "down"} :
           Asks([is |-> "scopes", line |-> line, direction |-> direction, disturbed |-> disturbed,
                 step |-> Step([way |-> way, manual |-> FALSE, closed |-> closed])])

\* Visits count for ever, and whoever did what is harder did what is easier
\* (posplay/achievementstrategies.go).
VisitsRemembered ==
    /\ question.is = "visits" => VisitsRememberedIn([Stations |-> Spots, SingleTrip |-> FALSE], question.steps)
    /\ question.is = "scopes" =>
          WiderScopesIn(question.line, question.direction, question.step.trip, question.step.net, question.disturbed)

-----------------------------------------------------------------------------
(***************************************************************************)
(* Pages: a ledger of the last weeks, also at the seams between them; the  *)
(* form of the settings; statuses; two lines; hours of a lobby.            *)
(***************************************************************************)
Now == 6 * 7 * DayHours

Monday(n) == Now - (n - 1) * 7 * DayHours + 2 - 7 * DayHours

Earned == [DiscordID : {"rita", "rui"}, Time : {Monday(1), Monday(1) + 1, Monday(2), Monday(3) - 1}, Value : {1, 2}]

WithType(x) ==
    [id |-> x, Type |-> IF x.Value = 1 THEN "DISCORD_MESSAGE" ELSE "TRIP_SUBMIT_REWARD",
     DiscordID |-> x.DiscordID, Time |-> x.Time, Value |-> x.Value]

AskLedger ==
    /\ Unasked
    /\ \E n \in 1..4 : \E ledger \in kSubset(n, Earned) : Asks([is |-> "ledger", ledger |-> ledger])

Forms == [NameType : {"USERNAME", "other"}, LBPrivacy : {"PRIVATE", "other"},
          ProfilePrivacy : {"PRIVATE", "PLAYERS_ONLY", "other"}, ticked : SUBSET Boxes]

Defaults == [k \in Boxes |-> k[1] = "guildEventWon"]

AskSettings ==
    /\ Unasked
    /\ \E form \in Forms, before \in SUBSET Boxes, isOnboarding \in BOOLEAN :
           Asks([is |-> "settings", isOnboarding |-> isOnboarding, form |-> form,
                 player |-> [NameType |-> "NICKNAME", LBPrivacy |-> "PUBLIC", ProfilePrivacy |-> "PUBLIC",
                             settings |-> [k \in before |-> k[2] = "appNotif"]]])

Said == [text : {{"SIGNAL", "SINCE", "SOON"}, {"TRAIN", "HALTED", "LONGWAIT", "SOON"}, {"SOLVED", "TRAIN"}, {"POWER"}, {"REPORT_BEGIN"}},
         MsgType : {<<>>, <<"RAW">>, <<"SIGNAL", "HALTED", "SOON">>}]

AskTypes ==
    /\ Unasked
    /\ \E first, second, third \in Said : Asks([is |-> "types", statuses |-> <<first, second, third>>])

AskLastDisturbances ==
    /\ Unasked
    /\ \E one \in {h \in Histories : Len(h) <= 2}, other \in {h \in Histories : Len(h) = 1}, official \in BOOLEAN :
           Asks([is |-> "last", official |-> official, now |-> 5 * DayLength,
                 lines |-> {[schedules |-> Weekly(1, 2), holidays |-> <<>>,
                             disturbances |-> FoldLeft(AddStatus, NoRows, h).disturbances] : h \in {one, other}}])

LobbyHours == {[Open |-> FALSE, OpenTime |-> 0, OpenDuration |-> 0], [Open |-> TRUE, OpenTime |-> 6, OpenDuration |-> 19],
               [Open |-> FALSE, OpenTime |-> 6, OpenDuration |-> 0]}

AskHours ==
    /\ Unasked
    /\ \E byDay \in [AllDays -> LobbyHours] : Asks([is |-> "hours", byDay |-> byDay])

HoursAgree == HoursShownFor(question.byDay, [d \in {8, 9, 10} |-> question.byDay[0]], 10)

\* What is told in two places is told alike: ranks (posplay/web.go and
\* web-leaderboards.go), settings (web-personal.go),
\* types of statuses (types/status.go), last disturbances (types/network.go) and
\* hours (utils/utils.go).
PagesAgree ==
    /\ question.is = "ledger" =>
          \A p \in {"rita", "rui"} :
              RanksAgreeIn({WithType(x) : x \in question.ledger}, p, Now)
    /\ question.is = "settings" =>
          SettingsKeptIn(question.player, question.form, question.isOnboarding, Defaults)
    /\ question.is = "types" => TypesStayIn(question.statuses)
    /\ question.is = "last" => LastDisturbancesAgreeIn(question.lines, 2, question.official, question.now)
    /\ question.is = "hours" => HoursAgree

-----------------------------------------------------------------------------
(***************************************************************************)
(* A trip that is sent, and sent again; a phone that asks for keys.        *)
(***************************************************************************)
SentUses ==
    {<<Use("a", "NetworkEntry", t, t + wait), Use("b", type, t + gap, t + gap + stop), Use("c", "NetworkExit", t + end, t + end)>> :
        t \in {100, 103}, wait \in {1, 4}, gap \in {3, 5}, stop \in {0, 2}, end \in {4, 9}, type \in {"GoneThrough", "Visit"}}
    \cup {<<Use("a", "NetworkEntry", 100, 101), Use("c", "NetworkExit", 105, 105)>>, <<Use("b", "Visit", 103, 105)>>,
          <<Use("a", "NetworkEntry", 100, 101)>>, <<Use("a", "NetworkEntry", 100, 101), Use("z", "NetworkExit", 105, 105)>>}

AskTrip ==
    /\ Unasked
    /\ \E first, second \in SentUses, again \in {80, 120, 120 + 7 * Sent!Day} :
           Asks([is |-> "trip", first |-> first, second |-> second, again |-> again])

\* A trip is read as it was sent, or with what an edit left behind
\* (types/trip.go Update).
TripReadsBack ==
    question.is = "trip" =>
        /\ Sent!ReadsBackIn(Sent!NoTrips, "trip", question.first, question.second, "phone", {"a", "b", "c"}, 110, question.again)
        /\ Sent!TwoTripsIn(Sent!NoTrips, question.first, question.second, {"a", "b", "c"}, question.again)

Phones == [Nonce : 1..3, AndroidID : {"x", "y"}, IPaddress : {"home", "metro"}, RequestTime : {3000, 3010, 4000}]

AskKey ==
    /\ Unasked
    /\ \E first, second \in Phones, last \in {r \in Phones : r.RequestTime = 4000} :
           first.RequestTime <= second.RequestTime
           /\ Asks([is |-> "key", requests |-> <<first, second>>, request |-> [last EXCEPT !.RequestTime = 4020]])

\* A phone waits for its key, and no less if it asked before
\* (types/androidpairrequest.go CalculateActivationTime).
WaitsGrow == question.is = "key" => WaitsGrowIn(question.requests, question.request)

-----------------------------------------------------------------------------
RecordsNext ==
    \/ AskStatistics \/ AskMap \/ AskTimes \/ AskNextTrain \/ AskPublished
    \/ AskVisits \/ AskScopes
    \/ AskLedger \/ AskSettings \/ AskTypes \/ AskLastDisturbances
    \/ AskTrip \/ AskHours \/ AskKey
=============================================================================

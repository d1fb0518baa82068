------------------------------ MODULE Arrivals ------------------------------
(***************************************************************************)
(* When trains arrive. The network's API tells of each platform the next   *)
(* three trains (scraper/mlxscraper/eta.go); compute/vehicleeta.go keeps   *)
(* them until they expire and tells where each train is, and the gateway   *)
(* publishes both (mqttgateway/vehicleeta.go, vehiclepos.go). For the      *)
(* website, compute/vehiclehandler.go computes the next train from where   *)
(* passengers said that they boarded one.                                  *)
(*                                                                         *)
(* Times are seconds. A cache is a function from its keys, an entry with   *)
(* the time it expires at.                                                 *)
(***************************************************************************)
EXTENDS Integers, FiniteSetsExt, SequencesExt, Functions

CONSTANTS PlatformAlias,         \* of the platforms with another one's name for positions
          TerminalPlatforms      \* the platforms where trains end

Positive(n) == Max({0, n})

\* VehicleETA: eta seconds from Computed, by this clock.
Elapsed(eta, now) == now - eta.Computed
LiveETA(eta, now) == Positive(eta.eta - Elapsed(eta, now))
RemainingValidity(eta, now) == Positive(eta.ValidFor - Elapsed(eta, now))

-----------------------------------------------------------------------------
(***************************************************************************)
(* The scraper.                                                            *)
(***************************************************************************)
\* fetchDestinos: which station each destination of the API is, if all are known.
fetchDestinos(infos, names) ==
    IF infos # {} /\ \A info \in infos : info.name \in DOMAIN names
    THEN [id \in {info.id : info \in infos} |->
             names[(CHOOSE info \in infos : info.id = id).name]]
    ELSE <<>>

\* The half of the request before which the answer was made, and half a second
\* for the seconds that its date has not (in milliseconds).
measureClockDrift(samples, requestStart, requestDuration, date) ==
    LET all == Append(samples, requestStart + requestDuration \div 2 - date)
    IN  FoldLeft(+, 0, all) \div Len(all) + 500

\* One answer of the API: a platform, and up to three trains. A train is
\* [service, eta], with eta -1 when the API says "--".
ETAsOf(answer, station, direction, drift, now, etaValidity) ==
    LET computed == answer.made + drift
    IN  {[Station |-> station, Direction |-> direction, Platform |-> answer.platform,
          Computed |-> computed, ValidFor |-> (now - computed) + etaValidity,
          ArrivalOrder |-> i, VehicleServiceID |-> answer.trains[i].service,
          TransportUnits |-> IF i = 1 THEN 3 * answer.units ELSE 0,
          eta |-> answer.trains[i].eta] :
         i \in {i \in DOMAIN answer.trains : answer.trains[i].service # "" /\ answer.trains[i].eta >= 0}}

\* Answers for unknown stations and destinations are passed over.
processETAdata(answers, stations, destinos, drift, now, etaValidity) ==
    UNION {ETAsOf(a, stations[a.stop], destinos[a.destino], drift, now, etaValidity) :
              a \in {a \in answers : a.stop \in DOMAIN stations /\ a.destino \in DOMAIN destinos}}

\* mainLoop: the period, the last fetch and 15 seconds.
etaValidity(period, lastFetch) == period + lastFetch + 15

-----------------------------------------------------------------------------
(***************************************************************************)
(* VehicleETAHandler. h has etas by station, direction and order, etasPos  *)
(* by station, direction and platform, and connDurations.                  *)
(***************************************************************************)
\* To the cache (github.com/patrickmn/go-cache) a time that is not positive means
\* that the entry does not expire.
Entry(eta, now) == [eta |-> eta, expires |-> eta.ValidFor > 0, until |-> now + eta.ValidFor]

Live(cache, now) == {k \in DOMAIN cache : cache[k].expires => cache[k].until >= now}

\* The times of the trains that follow, of which there are ten at most.
VehicleETAs(h, station, direction, numVehicles, now) ==
    LET kept == SelectSeq([i \in 1..numVehicles |-> <<station, direction, i>>],
                          LAMBDA k : k \in Live(h.etas, now))
    IN  [i \in DOMAIN kept |-> h.etas[kept[i]].eta]

LastTen(s) == SubSeq(s, Max({1, Len(s) - 9}), Len(s))

\* The train at a platform: how long it will take to the next station.
registerTime(h, eta, connections, now) ==
    LET conns == {c \in connections : c.FromPlatform = eta.Platform}
    IN  IF conns = {} THEN h
        ELSE LET c == CHOOSE c \in conns : TRUE
                 etas == VehicleETAs(h, c.To, eta.Direction, 1, now)
                 before == IF <<c.From, c.To>> \in DOMAIN h.connDurations
                           THEN h.connDurations[<<c.From, c.To>>] ELSE <<>>
             IN  IF etas = <<>> THEN h
                 ELSE [h EXCEPT !.connDurations =
                          (<<c.From, c.To>> :> LastTen(Append(before, LiveETA(etas[1], now)))) @@ @]

RegisterVehicleETA(h, eta, connections, now) ==
    LET withETA == [h EXCEPT !.etas =
            (<<eta.Station, eta.Direction, eta.ArrivalOrder>> :> Entry(eta, now)) @@ @]
        withPos == [withETA EXCEPT !.etasPos =
            (<<eta.Station, eta.Direction, eta.Platform>> :> Entry(eta, now)) @@ @]
    IN  IF eta.ArrivalOrder # 1 THEN withETA
        ELSE IF LiveETA(eta, now) = 0 THEN registerTime(withPos, eta, connections, now)
        ELSE withPos

\* Two minutes after it was computed an arrival tells no position.
Fresh(h, now) == {h.etasPos[k].eta : k \in {k \in Live(h.etasPos, now) : Elapsed(h.etasPos[k].eta, now) <= 120}}

Aliased(a, b) == a.Platform \in DOMAIN PlatformAlias /\ PlatformAlias[a.Platform] = b.Platform
                 /\ a.Platform \in TerminalPlatforms

\* less: the platform where the train ends, or else the sooner arrival. It is no
\* order when the other platform expects a train sooner than that one.
Closer(a, b, now) == Aliased(a, b) \/ (~Aliased(b, a) /\ LiveETA(a, now) < LiveETA(b, now))

Turned(eta) == [eta EXCEPT !.Direction = eta.Station]

\* TrainPositions, of one train, as it comes upon the arrivals: Go iterates over
\* the cache in any order. less sets the direction of its first argument, in the
\* caches, so that it depends on the order whether a train that has two platforms
\* is turned; what was turned stays so until the scraper tells of it anew.
TrainPositions(h, order, now) ==
    LET Compare(found, eta) ==
            LET s == eta.VehicleServiceID
                turns == s \in DOMAIN found.positions /\ Aliased(eta, found.positions[s])
            IN  IF s \in DOMAIN found.positions /\ ~Closer(eta, found.positions[s], now) THEN found
                ELSE [positions |-> (s :> IF turns THEN Turned(eta) ELSE eta) @@ found.positions,
                      turned |-> IF turns THEN found.turned \cup {eta} ELSE found.turned]
        all == FoldLeft(Compare, [positions |-> <<>>, turned |-> {}], order)
        Turn(cache) == [k \in DOMAIN cache |-> IF cache[k].eta \in all.turned
                                               THEN [cache[k] EXCEPT !.eta = Turned(@)] ELSE cache[k]]
    IN  [positions |-> all.positions, h |-> [h EXCEPT !.etas = Turn(@), !.etasPos = Turn(@)]]

\* lineOf: the line of a service, from the last letter of its name.
TrainsInLine(positions, line, lineOf) ==
    Restrict(positions, {s \in DOMAIN positions : lineOf[s] = line})

\* The least of the last ten times, or that of the map.
ConnectionDuration(h, c) ==
    IF <<c.From, c.To>> \in DOMAIN h.connDurations
    THEN Min(ToSet(h.connDurations[<<c.From, c.To>>]))
    ELSE c.TypicalSeconds + c.TypicalStopSeconds

\* A time of 0 divides by zero: minus infinity is 0, as is here NaN, of which uint
\* may be any number.
Percentage(eta, duration, now) ==
    LET live == LiveETA(eta, now)
        p == IF duration = 0 THEN 0
             ELSE IF duration < 0 THEN 100
             ELSE Positive((100 * (duration - live)) \div duration)
    IN  IF p = 100 /\ live > 0 THEN 99 ELSE p

VehiclePosition(h, eta, connections, now) ==
    LET platform == IF eta.Platform \in DOMAIN PlatformAlias THEN PlatformAlias[eta.Platform] ELSE eta.Platform
        conns == {c \in connections : c.ToPlatform = platform}
    IN  IF conns = {} THEN [prev |-> eta.Station, percentage |-> 0]
        ELSE LET c == CHOOSE c \in conns : TRUE
             IN  [prev |-> c.From, percentage |-> Percentage(eta, ConnectionDuration(h, c), now)]

-----------------------------------------------------------------------------
(***************************************************************************)
(* What the gateway publishes.                                             *)
(***************************************************************************)
\* vehicleETAtoStruct; the scraper's arrivals are exact, in seconds.
vehicleETAtoStruct(eta, now) ==
    IF Elapsed(eta, now) > 120
    THEN [Direction |-> eta.Direction, Type |-> "na", Made |-> now, ValidFor |-> 120, Order |-> eta.ArrivalOrder,
          Cars |-> eta.TransportUnits, Value |-> 0]
    ELSE [Direction |-> eta.Direction, Type |-> "e", Made |-> eta.Computed, ValidFor |-> RemainingValidity(eta, now),
          Order |-> eta.ArrivalOrder, Cars |-> eta.TransportUnits, Value |-> LiveETA(eta, now)]

buildStructsForStation(h, station, directions, numVehicles, now) ==
    UNION {{vehicleETAtoStruct(etas[i], now) : i \in DOMAIN etas} :
              etas \in {VehicleETAs(h, station, d, numVehicles, now) : d \in directions}}

\* SendVehicleETAs: the topics of a station, with the next train or the next three.
SendVehicleETAs(h, directions, availability, now) ==
    LET Structs(s, isAll) == buildStructsForStation(h, s, directions[s], IF isAll THEN 3 ELSE 1, now)
        topics == CASE availability = "all" -> {"dev-msgpack", "msgpack", "json"}
                    [] availability = "dev" -> {"dev-msgpack"}
                    [] OTHER -> {}
    IN  {message \in {[topic |-> t, station |-> s, isAll |-> isAll, structs |-> Structs(s, isAll)] :
                          s \in DOMAIN directions, isAll \in BOOLEAN, t \in topics} :
            message.structs # {}}

\* SendVehiclePositions, of the TrainPositions.
SendVehiclePositions(h, positions, connections, now) ==
    {[Vehicle |-> s, Position |-> VehiclePosition(h, positions[s], connections, now),
      NextStation |-> positions[s].Station, Direction |-> positions[s].Direction,
      ValidFor |-> RemainingValidity(positions[s], now)] : s \in DOMAIN positions}

-----------------------------------------------------------------------------
(***************************************************************************)
(* VehicleHandler: presence is the last time that a passenger boarded, by  *)
(* station and direction; time, that of each connection and its stop.      *)
(***************************************************************************)
RegisterTrainPassenger(presence, station, direction, now) == (<<station, direction>> :> now) @@ presence

\* The last hundred.
Readings(readings, reading) ==
    LET all == Append(readings, reading) IN SubSeq(all, Max({1, Len(all) - 99}), Len(all))

\* The sequence of stations of the line, turned so that trains in the direction
\* that is asked for go up in it.
Upwards(stations, direction) == IF Last(stations) = direction THEN stations ELSE Reverse(stations)

\* Seconds from the i-th station to the j-th, both in the same direction.
Ride(stations, time, i, j) ==
    MapThenSumSet(LAMBDA k : IF i < j THEN time[<<stations[k], stations[k + 1]>>]
                             ELSE time[<<stations[k + 1], stations[k]>>],
                  Min({i, j})..(Max({i, j}) - 1))

TurnsAtOnce(stations, time, i, user, up) ==                          \* (mutant)
    IF up THEN Ride(stations, time, i, user)
    ELSE Ride(stations, time, i, 1) + Ride(stations, time, 1, user)

\* getTimeDistance: a train that goes down turns at the first station, in two minutes.
TimeDistance(stations, time, i, user, up) ==
    IF up THEN Ride(stations, time, i, user)
    ELSE Ride(stations, time, i, 1) + 120 + Ride(stations, time, 1, user)

\* The distances of the trains at the stations of a scan, in its order.
Distances(stations, time, presence, scan, user, up, now) ==
    LET end == IF up THEN Last(stations) ELSE Head(stations)
        known == SelectSeq(scan, LAMBDA i : <<stations[i], end>> \in DOMAIN presence)
    IN  [k \in DOMAIN known |-> TimeDistance(stations, time, known[k], user, up)
                                - (now - presence[<<stations[known[k]], end>>])]

NoTrain == -1000000

\* A scan takes each train that is nearer than those before and arrived no more
\* than 30 seconds ago; it ends at one that is farther.
Nearest(distances) ==
    FoldLeft(LAMBDA found, d :
                 IF found.over THEN found
                 ELSE IF found.at = NoTrain THEN IF d >= -30 THEN [found EXCEPT !.at = d] ELSE found
                 ELSE IF d > found.at THEN [found EXCEPT !.over = TRUE]
                 ELSE IF d >= -30 THEN [found EXCEPT !.at = d] ELSE found,
             [at |-> NoTrain, over |-> FALSE], distances).at

\* From the user's station back to the first, and then, for trains that go down,
\* from the first on.
NextTrain(stations, time, presence, user, now) ==
    LET back == Nearest(Distances(stations, time, presence, [k \in 1..user |-> user + 1 - k], user, TRUE, now))
    IN  IF back # NoTrain THEN back
        ELSE Nearest(Distances(stations, time, presence, [k \in 1..Len(stations) |-> k], user, FALSE, now))

\* NextTrainETA: not more than what is left of the line's frequency since a train
\* was here, if the estimate exceeds it by a fifth; and no answer (NoTrain) for one
\* that is farther than that.
NextTrainETA(line, time, presence, station, direction, frequency, now) ==
    LET stations == Upwards(line, direction)
        user == CHOOSE i \in DOMAIN stations : stations[i] = station
        found == NextTrain(stations, time, presence, user, now)
        here == <<station, direction>>
        left == IF here \in DOMAIN presence THEN frequency - (now - presence[here]) ELSE 0
        eta == IF left > 0 /\ 10 * found > 12 * left THEN left ELSE found
    IN  IF found = NoTrain \/ (frequency > 0 /\ 10 * eta > 12 * frequency) THEN NoTrain ELSE eta

\* AllTrainETAs: every station, in every direction.
AllTrainETAs(lines, time, presence, frequency, now) ==
    [ask \in UNION {{<<s, d>> : s \in Range(l), d \in {Head(l), Last(l)}} : l \in lines} |->
        NextTrainETA(CHOOSE l \in lines : {ask[1], ask[2]} \subseteq Range(l), time, presence, ask[1], ask[2], frequency, now)]
-----------------------------------------------------------------------------
(***************************************************************************)
(* What the gateway publishes hangs together (compute/vehicleeta.go,       *)
(* mqttgateway/vehiclepos.go), in whatever order the arrivals are gone     *)
(* through, and again when the directions were corrected: a train is in    *)
(* one place, on its way to a station that expects it, of those that do    *)
(* the one that expects it first, and to the direction told of it or to    *)
(* that station; it has arrived when that station is told so, and not      *)
(* before; and a station that is told of the next train is told of the     *)
(* same among the next three.                                              *)
(***************************************************************************)
PublishedAgreesIn(etas, connections, directions, now, later) ==
    LET h == FoldSet(LAMBDA eta, rest : RegisterVehicleETA(rest, eta, connections, now),
                     [etas |-> <<>>, etasPos |-> <<>>, connDurations |-> <<>>], etas)
        Expecting(v) == {eta \in Fresh(h, later) : eta.VehicleServiceID = v}
        PositionAgrees(p) ==
            /\ p.Position.percentage \in 0..100
            /\ \E eta \in Expecting(p.Vehicle) :
                  /\ eta.Station = p.NextStation
                  /\ p.Direction \in {eta.Direction, eta.Station}
                  /\ p.Direction # eta.Direction => eta.Platform \in TerminalPlatforms
                  /\ \/ \A other \in Expecting(p.Vehicle) : LiveETA(eta, later) <= LiveETA(other, later)
                     \/ eta.Platform \in TerminalPlatforms
                  /\ p.Position.percentage = 100 => LiveETA(eta, later) = 0
        Agree(known) ==
            LET messages == SendVehicleETAs(known, directions, "all", later)
            IN  \A m, n \in messages :
                    m.topic = n.topic /\ m.station = n.station /\ n.isAll => m.structs \subseteq n.structs
    IN  \A order \in SetToSeqs(Fresh(h, later)) :
            LET found == TrainPositions(h, order, later)
                again == TrainPositions(found.h, SetToSeq(Fresh(found.h, later)), later)
                positions == SendVehiclePositions(found.h, found.positions, connections, later)
            IN  /\ \A p, q \in positions : p.Vehicle = q.Vehicle => p = q
                /\ \A p \in positions \cup SendVehiclePositions(again.h, again.positions, connections, later) :
                      PositionAgrees(p)
                /\ Agree(found.h)

-----------------------------------------------------------------------------
(***************************************************************************)
(* Trains that run on time, as the times of the map say. One begins at a   *)
(* station, up or down; when it has come down it turns at the first.       *)
(***************************************************************************)
Visits(stations, time, train) ==
    LET n == Len(stations)
        first == train.at + Ride(stations, time, train.begins, 1) + 120
        Up(t, i) == {[station |-> k, up |-> TRUE, at |-> t + Ride(stations, time, i, k)] : k \in i..n}
    IN  IF train.up THEN Up(train.at, train.begins)
        ELSE {[station |-> k, up |-> FALSE, at |-> train.at + Ride(stations, time, train.begins, k)] : k \in 1..train.begins}
             \cup Up(first, 1)

\* A passenger boards every train, at every station.
Presence(stations, time, trains, now) ==
    LET boarded == {v \in UNION {Visits(stations, time, t) : t \in trains} : v.at <= now}
        Key(v) == <<stations[v.station], IF v.up THEN Last(stations) ELSE Head(stations)>>
    IN  [key \in {Key(v) : v \in boarded} |-> Max({v.at : v \in {v \in boarded : Key(v) = key}})]

\* Never two trains between two stations, nor at the end of the line.
Apart(stations, time, trains) ==
    LET longest == Max({time[k] : k \in DOMAIN time} \cup {120})
    IN  \A t \in trains : \A u \in trains \ {t} :
            \A v \in Visits(stations, time, t), w \in Visits(stations, time, u) :
                v.station = w.station /\ v.up = w.up => v.at - w.at > longest \/ w.at - v.at > longest

(***************************************************************************)
(* When trains run as the map says, Apart from each other, and passengers  *)
(* tell of all of them, the website announces the next one at a station,   *)
(* also one that has yet to turn at the end of the line: no train that was *)
(* told of comes sooner, but for those that left more than half a minute   *)
(* ago; and once a passenger boards there it is that train, which may have *)
(* been due up to half a minute before. It is the same whichever way the   *)
(* line's stations are listed, and with a frequency never much longer than *)
(* it (compute/vehiclehandler.go NextTrainETA).                            *)
(***************************************************************************)
NextTrainPredictedIn(stations, time, trains, user, now) ==
    LET known == {t \in trains : t.at <= now}
        arrivals == {v.at - now : v \in {v \in UNION {Visits(stations, time, t) : t \in known} :
                                             v.station = user /\ v.up}}
        next == {a \in arrivals : a >= -30}
        presence == Presence(stations, time, trains, now)
        boarded == RegisterTrainPassenger(presence, stations[user], Last(stations), now)
    IN  /\ NextTrain(stations, time, presence, user, now) = IF next = {} THEN NoTrain ELSE Min(next)
        /\ NextTrain(stations, time, boarded, user, now) \in -30..0
        /\ \A line \in {stations, Reverse(stations)} :
              NextTrainETA(line, time, presence, stations[user], Last(stations), 0, now)
                  = NextTrain(stations, time, presence, user, now)
        /\ \A frequency \in {60, 200, 400} :
              LET etas == AllTrainETAs({stations}, time, presence, frequency, now)
              IN  \A ask \in DOMAIN etas : 10 * etas[ask] <= 12 * frequency
=============================================================================

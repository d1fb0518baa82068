----------------------------- MODULE NetworkMap -----------------------------
(***************************************************************************)
(* The map of a network, as predictions, trips and clients read it: lines, *)
(* stations that are open or closed, connections and transfers (types/     *)
(* line.go, station.go, lobby.go, connection.go, transfer.go). A closed    *)
(* station is passed: GetConnection with closedCompat joins the connection *)
(* that leads to it with those that leave it.                              *)
(*                                                                         *)
(* net is the rows: lines, a sequence of stations for each; lobbies, of    *)
(* each station the set of its lobbies, each the set of Open of its        *)
(* schedules; connections and transfers. Row caches are left out.          *)
(***************************************************************************)
EXTENDS Integers, FiniteSetsExt, SequencesExt

LinesOf(net, station) == {l \in DOMAIN net.lines : station \in Range(net.lines[l])}

\* Lobby.Closed: no schedule says that it opens.
LobbyClosed(schedules) == TRUE \notin schedules

Closed(net, station) == \A lobby \in net.lobbies[station] : LobbyClosed(lobby)

\* Station.Directions: the ends of the lines, and with all services a terminus
\* of some trains on one of them.
Directions(net, station, services) ==
    (UNION {{Head(net.lines[l]), Last(net.lines[l])} : l \in {l \in LinesOf(net, station) : net.lines[l] # <<>>}})
    \cup UNION {services[l] \cap Range(net.lines[l]) : l \in LinesOf(net, station)}

-----------------------------------------------------------------------------
(***************************************************************************)
(* Connections.                                                            *)
(***************************************************************************)
\* What stands for a row that there is not.
None == [From |-> "none", To |-> "none"]

\* parts: <<>> for a row, or the two rows that it joins (isCompatFake).
Joined(c, d) ==
    [c EXCEPT !.To = d.To,
              !.TypicalSeconds = @ + d.TypicalSeconds,
              !.WorldLength = @ + d.WorldLength,
              !.parts = <<c, d>>]

SharesLine(net, a, b) == LinesOf(net, a) \cap LinesOf(net, b) # {}

TurningBack(net, c) ==                                               \* (mutant)
    {d \in net.connections : d.From = c.To /\ SharesLine(net, c.From, d.To)}

\* The connections that leave a closed station, for one that leads to it.
Candidates(net, c) ==
    {d \in net.connections : d.From = c.To /\ d.To # c.From /\ SharesLine(net, c.From, d.To)}

provideClosedCompat(net) ==
    {c \in net.connections : ~Closed(net, c.To)}
    \cup UNION {{Joined(c, d) : d \in Candidates(net, c)} : c \in {c \in net.connections : Closed(net, c.To)}}

GetConnections(net, closedCompat) ==
    IF closedCompat THEN provideClosedCompat(net) ELSE net.connections

\* Of two that join the same stations, the first in the order of the table.
GetConnection(net, from, to, closedCompat) ==
    LET found == {c \in GetConnections(net, closedCompat) : c.From = from /\ c.To = to}
    IN  IF found = {} THEN None ELSE CHOOSE c \in found : TRUE

GetConnectionsFrom(net, from, closedCompat) ==
    {c \in GetConnections(net, closedCompat) : c.From = from}

GetConnectionsTo(net, to, closedCompat) ==
    {c \in GetConnections(net, closedCompat) : c.To = to}

FromPlatform(net, platform) == {c \in net.connections : c.FromPlatform = platform}

ToPlatform(net, platform) == {c \in net.connections : c.ToPlatform = platform}

GetTransfer(net, station, from, to) ==
    LET found == {t \in net.transfers : t.Station = station /\ t.From = from /\ t.To = to}
    IN  IF found = {} THEN None ELSE CHOOSE t \in found : TRUE

\* The row with the key (From, To), replaced or added.
UpdateRow(net, c) ==
    [net EXCEPT !.connections = {d \in @ : d.From # c.From \/ d.To # c.To} \cup {c}]

\* Integer division of Go, towards zero.
Half(n) == IF n >= 0 THEN n \div 2 ELSE -((-n) \div 2)

LosesRemainder(net, c) ==                                            \* (mutant)
    IF c.parts = <<>> THEN UpdateRow(net, c)
    ELSE LET half == Half(c.TypicalSeconds)
             first == [c.parts[1] EXCEPT
                 !.TypicalSeconds = half,
                 !.TypicalStopSeconds = c.TypicalStopSeconds,
                 !.TypicalWaitingSeconds = c.TypicalWaitingSeconds]
         IN  UpdateRow(UpdateRow(net, first), [c.parts[2] EXCEPT !.TypicalSeconds = half])

\* Connection.Update: what is known of a joined connection goes to its parts;
\* what the division loses goes to the second.
Update(net, c) ==
    IF c.parts = <<>> THEN UpdateRow(net, c)
    ELSE LET half == Half(c.TypicalSeconds)
             first == [c.parts[1] EXCEPT
                 !.TypicalSeconds = half,
                 !.TypicalStopSeconds = c.TypicalStopSeconds,
                 !.TypicalWaitingSeconds = c.TypicalWaitingSeconds]
             second == [c.parts[2] EXCEPT !.TypicalSeconds = Max({half, c.TypicalSeconds - half})]
         IN  UpdateRow(UpdateRow(net, first), second)

UpdateTransfer(net, t) ==
    [net EXCEPT !.transfers =
        {u \in @ : u.Station # t.Station \/ u.From # t.From \/ u.To # t.To} \cup {t}]

-----------------------------------------------------------------------------
\* Line.GetDirectionForConnection: the end of the line that the connection leads
\* to, also past one closed station; "none" if it is not of the line.
GetDirectionForConnection(net, line, c) ==
    LET stations == net.lines[line]
        Leads(i, j) ==
            /\ i \in DOMAIN stations /\ j \in DOMAIN stations
            /\ stations[i] = c.From /\ stations[j] = c.To
        Past(i, j) == Leads(i, j) /\ Closed(net, stations[(i + j) \div 2])
    IN  IF \E i \in DOMAIN stations : Leads(i, i + 1) \/ Past(i, i + 2) THEN Last(stations)
        ELSE IF \E i \in DOMAIN stations : Leads(i, i - 1) \/ Past(i, i - 2) THEN Head(stations)
        ELSE "none"
-----------------------------------------------------------------------------
\* What amounts come to.
SumOf(amounts) == MapThenSumSet(LAMBDA k : amounts[k], DOMAIN amounts)

(***************************************************************************)
(* On a map whose lines are connected both ways, and on which no two       *)
(* stations that follow one another are closed, closed stations are        *)
(* passed: no connection leads to one or back to where it comes from, and  *)
(* open stations that follow one another on a line, but for the closed     *)
(* one between them, are connected both ways, in the time of the parts and *)
(* in the direction of the line (types/connection.go provideClosedCompat,  *)
(* types/line.go GetDirectionForConnection).                               *)
(***************************************************************************)
ClosedStationsPassedIn(net) ==
    LET \* from the i-th to the j-th station of a line, i + 1 or i + 2
        Follows(line, i, j) == \A k \in i..j : Closed(net, line[k]) <=> k \notin {i, j}
        Seconds(line, way) ==
            SumOf([k \in 1..(Len(way) - 1) |->
                      GetConnection(net, line[way[k]], line[way[k + 1]], FALSE).TypicalSeconds])
        Connected(l, way) ==
            LET line == net.lines[l]
                c == GetConnection(net, line[Head(way)], line[Last(way)], TRUE)
            IN  /\ c # None
                /\ c.TypicalSeconds = Seconds(line, way)
                /\ GetDirectionForConnection(net, l, c) =
                      IF Head(way) < Last(way) THEN Last(line) ELSE Head(line)
    IN  /\ \A s \in DOMAIN net.lobbies :
              /\ Closed(net, s) => GetConnectionsTo(net, s, TRUE) = {}
              /\ \A c \in GetConnectionsFrom(net, s, TRUE) : c.To # s
        /\ \A l \in DOMAIN net.lines : \A i, j \in DOMAIN net.lines[l] :
              i < j /\ j <= i + 2 /\ Follows(net.lines[l], i, j) =>
                  LET way == [k \in 1..(j - i + 1) |-> i + k - 1]
                  IN  Connected(l, way) /\ Connected(l, Reverse(way))
=============================================================================

------------------------------ MODULE PosPlay ------------------------------
(***************************************************************************)
(* The ledger of the game: posplay/posplay.go, rewards.go, achievements.go *)
(* and the strategies that grant achievements for submitting something and *)
(* for reaching a level, with the API's trips (resource/trip.go) and the   *)
(* bot's messages and reactions that give XP.                              *)
(*                                                                         *)
(* Handlers are goroutines of the HTTP server and of discordgo. They write *)
(* to the database and then send to one of four bounded channels, which    *)
(* one goroutine, serialProcessor, empties. It gives XP of its own, hence  *)
(* sends to one of the channels that it alone receives from.               *)
(*                                                                         *)
(* Database transactions are READ COMMITTED: a step reads what is          *)
(* committed, a later one commits. (sqalx nests transactions in name only, *)
(* and runs what was deferred once the outermost one has committed.)       *)
(***************************************************************************)
EXTENDS Naturals, SequencesExt

CONSTANTS Players,           \* the users who joined
          Trips,             \* trip IDs, drawn by the phones
          TripPlayer,        \* the player whose phone submits each
          TripXP,            \* what each is worth: nothing within one station
          LongTrips,         \* those with more than one use of a station
          Events,            \* the bot's events
          Achievements,
          Trigger,           \* what each is for
          LevelXP,           \* the XP of the level of each that is for a level
          XPReward,          \* what each is worth
          HttpHandlers, DiscordHandlers,
          Capacity,          \* of the channels
          Failing,           \* whether transactions can fail
          MaxTime            \* bound on what is stamped with the clock

Handlers == HttpHandlers \cup DiscordHandlers

ASSUME PosPlayAssumption ==
    /\ TripPlayer \in [Trips -> Players]
    /\ TripXP \in [Trips -> Nat] /\ LongTrips \subseteq Trips
    /\ IsFiniteSet(Achievements)
    /\ Trigger \in [Achievements -> {"trip", "trip_edit", "disturbance_report", "level"}]
    /\ LevelXP \in [Achievements -> Nat]
    /\ XPReward \in [Achievements -> Nat]
    /\ HttpHandlers \cap DiscordHandlers = {}
    /\ Capacity \in Nat \ {0}
    /\ Failing \in BOOLEAN
    /\ MaxTime \in Nat

VARIABLES now,            \* the clock: even, so that there is time after each stamp
          weekStart,      \* of the competition
          trips,          \* the trips in the database
          ledger,         \* the XP transactions in the database; the index is the ID
          achieved,       \* the achievements in the database
          participation,  \* the players who wrote something a short while ago
          call,           \* what each handler is doing
          queue,          \* the four channels
          work,           \* what serialProcessor is doing
          seen            \* the XP it has handled, by XP transaction

vars == <<now, weekStart, trips, ledger, achieved, participation, call, queue, work, seen>>

Kinds == {"trips", "edits", "reports", "xp"}

Trip == [submitted : Nat, edited : BOOLEAN, editedAt : Nat]

NoTrip == [submitted |-> 0, edited |-> FALSE, editedAt |-> 0]

Row == [player : Players,
        type : {"TRIP_SUBMIT_REWARD", "TRIP_CONFIRM_REWARD", "DISCORD_REACTION_EVENT",
                "DISCORD_PARTICIPATION", "ACHIEVEMENT_REWARD"},
        cause : Trips \cup Events \cup Achievements \cup {"none"},
        time : Nat, value : Nat]

XP(player, type, cause, time, value) ==
    [player |-> player, type |-> type, cause |-> cause, time |-> time, value |-> value]

\* A row to write: with an ID if there is one to update.
Write == [id : Nat, row : Row, diff : Nat]

Insert(row) == [id |-> 0, row |-> row, diff |-> row.value]

\* A handler: what it writes, then the channel it sends to and the item.
Idle == [does |-> "nothing", write |-> "none", trip |-> NoTrip,
         send |-> "none", item |-> "none"]

\* The processor: what it has received, the new rows and the achievements that
\* it writes, what it then has to send and what it does once it has.
Receiving == [does |-> "receive", kind |-> "none", item |-> "none",
              rows |-> <<>>, grants |-> {}, sends |-> <<>>, next |-> "receive"]

Init ==
    /\ now = 0
    /\ weekStart = 0
    /\ trips = <<>>
    /\ ledger = <<>>
    /\ achieved = {}
    /\ participation = {}
    /\ call = [h \in Handlers |-> Idle]
    /\ queue = [k \in Kinds |-> <<>>]
    /\ work = Receiving
    /\ seen = <<>>

-----------------------------------------------------------------------------
(***************************************************************************)
(* The database.                                                           *)
(***************************************************************************)
\* newtx.Update: an upsert by ID. The index of a new row is its ID.
Written(rows, write) ==
    IF write.id = 0 THEN Append(rows, write.row)
    ELSE [rows EXCEPT ![write.id] = write.row]

ID(write) == IF write.id = 0 THEN Len(ledger) + 1 ELSE write.id

AnnouncementOfRow(write) == [id |-> ID(write), diff |-> write.row.value]  \* (mutant)

\* What DoXPTransaction defers to the commit.
Announcement(write) == [id |-> ID(write), diff |-> write.diff]

Announcements(rows) ==
    [i \in DOMAIN rows |-> [id |-> Len(ledger) + i, diff |-> rows[i].value]]

RowsOf(player) == {i \in DOMAIN ledger : ledger[i].player = player}

\* XPBalanceBetween the day the player joined and a time.
Balance(player, time) ==
    MapThenSumSet(LAMBDA i : ledger[i].value,
                  {i \in RowsOf(player) : ledger[i].time <= time})

\* XPTransactionsLimit 1: one with the last timestamp.
LastRows(player) ==
    {i \in RowsOf(player) : \A j \in RowsOf(player) : ledger[j].time <= ledger[i].time}

Rendezvous(kind) == work.does = "receive" /\ queue[kind] = <<>>      \* (mutant)

HasRoom(kind) == Len(queue[kind]) < Capacity

Send(kind, item) == queue' = [queue EXCEPT ![kind] = Append(@, item)]

Stamp == now < MaxTime /\ now' = now + 2

-----------------------------------------------------------------------------
(***************************************************************************)
(* The handlers.                                                           *)
(***************************************************************************)
Set(h, state) == call' = [call EXCEPT ![h] = state]

IsIdle(h) == call[h].does = "nothing"

\* Trip.Post: GetTrip finds no trip with the ID, and the clock is read.
PostTrip(h, t) ==
    /\ IsIdle(h)
    /\ t \notin DOMAIN trips
    /\ Stamp
    /\ Set(h, [Idle EXCEPT !.does = "commit", !.send = "trips", !.item = t,
                           !.trip = [NoTrip EXCEPT !.submitted = now']])
    /\ UNCHANGED <<weekStart, trips, ledger, achieved, participation, queue, work, seen>>

FirstEdit(trip) == IF trip.edited THEN "none" ELSE "edits"

\* Trip.Put: getTripToEdit reads the trip, and whether it has been edited.
PutTrip(h, t) ==
    /\ IsIdle(h)
    /\ t \in DOMAIN trips
    /\ Stamp
    /\ Set(h, [Idle EXCEPT !.does = "commit", !.send = FirstEdit(trips[t]), !.item = t,
                  !.trip = [trips[t] EXCEPT !.edited = TRUE, !.editedAt = now']])
    /\ UNCHANGED <<weekStart, trips, ledger, achieved, participation, queue, work, seen>>

\* trip.Update is an upsert, whoever else wrote the trip in the meantime.
CommitTrip(h) ==
    /\ call[h].does = "commit" /\ call[h].send # "xp"
    /\ trips' = [t \in DOMAIN trips \cup {call[h].item} |->
                     IF t = call[h].item THEN call[h].trip ELSE trips[t]]
    /\ Set(h, IF call[h].send = "none" THEN Idle ELSE [call[h] EXCEPT !.does = "send"])
    /\ UNCHANGED <<now, weekStart, ledger, achieved, participation, queue, work, seen>>

\* DisturbanceReport.Post, once the report handler has accepted the report.
PostReport(h, player) ==
    /\ IsIdle(h)
    /\ Stamp
    /\ Set(h, [Idle EXCEPT !.does = "send", !.send = "reports",
                           !.item = [player |-> player, time |-> now']])
    /\ UNCHANGED <<weekStart, trips, ledger, achieved, participation, queue, work, seen>>

\* RegisterEventWinCallback reads that the player has no reward for the event.
RewardsFor(player, type, cause) ==
    {i \in RowsOf(player) : ledger[i].type = type /\ ledger[i].cause = cause}

EarlierWins(player, event) == RewardsFor(player, "DISCORD_REACTION_EVENT", event)

React(h, player, event) ==
    /\ IsIdle(h)
    /\ EarlierWins(player, event) = {}
    /\ Stamp
    /\ Set(h, [Idle EXCEPT !.does = "commit", !.send = "xp",
                  !.write = Insert(XP(player, "DISCORD_REACTION_EVENT", event, now', 1))])
    /\ UNCHANGED <<weekStart, trips, ledger, achieved, participation, queue, work, seen>>

\* registerUserActivity, at most one in a few minutes; then the callback.
Message(h, player) ==
    /\ IsIdle(h)
    /\ player \notin participation
    /\ participation' = participation \cup {player}
    /\ Stamp
    /\ Set(h, [Idle EXCEPT !.does = "merge", !.send = "xp",
                  !.write = Insert(XP(player, "DISCORD_PARTICIPATION", "none", now', 1))])
    /\ UNCHANGED <<weekStart, trips, ledger, achieved, queue, work, seen>>

ForgetActivity(player) ==
    /\ player \in participation
    /\ participation' = participation \ {player}
    /\ UNCHANGED <<now, weekStart, trips, ledger, achieved, call, queue, work, seen>>

\* DoXPTransaction with attemptMerge: the latest row, if it is of the same type
\* and of this week, is the one that is written, later and with more XP.
OfThisType(row, last) == last.type = row.type                        \* (mutant)

MergesWith(row, last) == last.type = row.type /\ last.time > weekStart

Merge(h) ==
    /\ call[h].does = "merge"
    /\ LET row == call[h].write.row
       IN  IF LastRows(row.player) = {}
           THEN Set(h, [call[h] EXCEPT !.does = "commit"])
           ELSE \E i \in LastRows(row.player) :
                    Set(h, [call[h] EXCEPT !.does = "commit",
                               !.write =
                                   IF MergesWith(row, ledger[i])
                                   THEN [id |-> i, diff |-> row.value,
                                         row |-> [row EXCEPT !.value = @ + ledger[i].value]]
                                   ELSE @])
    /\ UNCHANGED <<now, weekStart, trips, ledger, achieved, participation, queue, work, seen>>

CommitXP(h) ==
    /\ call[h].does = "commit" /\ call[h].send = "xp"
    /\ ledger' = Written(ledger, call[h].write)
    /\ Set(h, [Idle EXCEPT !.does = "send", !.send = "xp",
                           !.item = Announcement(call[h].write)])
    /\ UNCHANGED <<now, weekStart, trips, achieved, participation, queue, work, seen>>

\* RegisterTripSubmission, RegisterTripFirstEdit, RegisterReport, or what
\* DoXPTransaction deferred: the sender waits for room.
Register(h) ==
    /\ call[h].does = "send"
    /\ HasRoom(call[h].send)
    /\ Send(call[h].send, call[h].item)
    /\ Set(h, Idle)
    /\ UNCHANGED <<now, weekStart, trips, ledger, achieved, participation, work, seen>>

\* A statement or the commit fails: nothing is written and nothing sent.
FailCall(h) ==
    /\ Failing
    /\ call[h].does \in {"merge", "commit"}
    /\ Set(h, Idle)
    /\ UNCHANGED <<now, weekStart, trips, ledger, achieved, participation, queue, work, seen>>

-----------------------------------------------------------------------------
(***************************************************************************)
(* serialProcessor: an item gets its reward, then its achievements, each   *)
(* in a transaction of its own.                                            *)
(***************************************************************************)
Unchanged == UNCHANGED <<now, weekStart, trips, participation, call>>

SeenOf(id) == IF id \in DOMAIN seen THEN seen[id] ELSE 0

\* Any channel that has something, as select chooses.
Receive(kind) ==
    /\ work.does = "receive"
    /\ queue[kind] # <<>>
    /\ queue' = [queue EXCEPT ![kind] = Tail(@)]
    /\ LET item == Head(queue[kind])
       IN  /\ work' = [Receiving EXCEPT !.kind = kind, !.item = item,
                          !.does = IF kind \in {"trips", "edits"} THEN "reward" ELSE "achieve"]
           /\ seen' = IF kind = "xp"
                      THEN [i \in DOMAIN seen \cup {item.id} |->
                               SeenOf(i) + IF i = item.id THEN item.diff ELSE 0]
                      ELSE seen
    /\ UNCHANGED <<ledger, achieved>>
    /\ Unchanged

\* processTripForReward, processTripEditForReward.
TripReward(t) ==
    IF work.kind = "edits"
    THEN XP(TripPlayer[t], "TRIP_CONFIRM_REWARD", t, trips[t].editedAt, 1)
    ELSE XP(TripPlayer[t], "TRIP_SUBMIT_REWARD", t, trips[t].submitted, TripXP[t])

RewardTrip ==
    /\ work.does = "reward"
    /\ LET row == TripReward(work.item)
       IN  work' = IF row.value = 0 THEN [work EXCEPT !.does = "achieve"]
                   ELSE [work EXCEPT !.does = "commit", !.next = "achieve",
                                     !.rows = <<row>>]
    /\ UNCHANGED <<ledger, achieved, queue, seen>>
    /\ Unchanged

\* Whose item it is, and the time its achievements have.
ItemPlayer ==
    IF work.kind \in {"trips", "edits"} THEN TripPlayer[work.item]
    ELSE IF work.kind = "reports" THEN work.item.player
    ELSE ledger[work.item.id].player

GrantTime ==
    IF work.kind \in {"trips", "edits"} THEN trips[work.item].submitted + 1
    ELSE IF work.kind = "reports" THEN work.item.time
    ELSE ledger[work.item.id].time + 1

\* ReachLevelAchievementStrategy, HandleXPTransaction.
ReachesLevel(a, x) ==
    LET row == ledger[x.id]
        current == Balance(row.player, row.time)
    IN  current < LevelXP[a] + x.diff /\ current >= LevelXP[a]

Earned(a) ==
    \/ Trigger[a] = "trip" /\ work.kind = "trips" /\ work.item \in LongTrips
    \/ Trigger[a] = "trip_edit" /\ work.kind = "edits" /\ work.item \in LongTrips
    \/ Trigger[a] = "disturbance_report" /\ work.kind = "reports"
    \/ Trigger[a] = "level" /\ work.kind = "xp" /\ ReachesLevel(a, work.item)

AnyAchievement(a) == a \in Achievements                              \* (mutant)

NotYetAchieved(a) == <<ItemPlayer, a>> \notin achieved

\* forEachAchievement, with achieveAchievement for those to grant, in the order
\* in which the table has them.
GrantAchievements ==
    LET granted == {a \in Achievements : Earned(a) /\ NotYetAchieved(a)}
        worth == {a \in granted : XPReward[a] # 0}
        Reward(a) == XP(ItemPlayer, "ACHIEVEMENT_REWARD", a, GrantTime, XPReward[a])
    IN  /\ work.does = "achieve"
        /\ IF granted = {} THEN work' = Receiving
           ELSE \E order \in SetToSeqs(worth) :
                    work' = [work EXCEPT
                        !.does = "commit", !.next = "receive",
                        !.grants = {<<ItemPlayer, a>> : a \in granted},
                        !.rows = [i \in DOMAIN order |-> Reward(order[i])]]
        /\ UNCHANGED <<ledger, achieved, queue, seen>>
        /\ Unchanged

\* What is next for the item once its transaction is over.
Go(next) ==
    IF next = "receive" THEN Receiving
    ELSE [Receiving EXCEPT !.kind = work.kind, !.item = work.item, !.does = next]

CommitWork ==
    /\ work.does = "commit"
    /\ ledger' = ledger \o work.rows
    /\ achieved' = achieved \cup work.grants
    /\ work' = [work EXCEPT !.does = "send", !.rows = <<>>, !.grants = {},
                            !.sends = Announcements(work.rows)]
    /\ UNCHANGED <<queue, seen>>
    /\ Unchanged

\* The processor waits for room in a channel that nobody else empties.
SendWork ==
    /\ work.does = "send"
    /\ IF work.sends = <<>>
       THEN work' = Go(work.next) /\ UNCHANGED queue
       ELSE /\ HasRoom("xp")
            /\ Send("xp", Head(work.sends))
            /\ work' = [work EXCEPT !.sends = Tail(@)]
    /\ UNCHANGED <<ledger, achieved, seen>>
    /\ Unchanged

\* The error is logged.
FailWork ==
    /\ Failing
    /\ work.does \in {"reward", "achieve", "commit"}
    /\ work' = Go(IF work.does = "reward" THEN "achieve" ELSE work.next)
    /\ UNCHANGED <<ledger, achieved, queue, seen>>
    /\ Unchanged

NewWeek ==
    /\ weekStart = 0 /\ now > 0
    /\ weekStart' = now
    /\ UNCHANGED <<now, trips, ledger, achieved, participation, call, queue, work, seen>>

-----------------------------------------------------------------------------
Begin(h) ==
    \/ /\ h \in HttpHandlers
       /\ \/ \E t \in Trips : PostTrip(h, t) \/ PutTrip(h, t)
          \/ \E player \in Players : PostReport(h, player)
    \/ /\ h \in DiscordHandlers
       /\ \/ \E player \in Players, event \in Events : React(h, player, event)
          \/ \E player \in Players : Message(h, player)

Continue(h) ==
    \/ CommitTrip(h)
    \/ Merge(h)
    \/ CommitXP(h)
    \/ Register(h)

Process ==
    \/ \E kind \in Kinds : Receive(kind)
    \/ RewardTrip
    \/ GrantAchievements
    \/ CommitWork
    \/ SendWork

Next ==
    \/ \E h \in Handlers : Begin(h) \/ Continue(h) \/ FailCall(h)
    \/ \E player \in Players : ForgetActivity(player)
    \/ Process
    \/ FailWork
    \/ NewWeek

\* Goroutines run; nobody has to call.
Fairness == WF_vars(Process) /\ \A h \in Handlers : WF_vars(Continue(h))

Spec == Init /\ [][Next]_vars

FairSpec == Spec /\ Fairness

-----------------------------------------------------------------------------
AllIdle ==
    /\ \A h \in Handlers : IsIdle(h)
    /\ \A k \in Kinds : queue[k] = <<>>
    /\ work.does = "receive"

Item(kind) ==
    CASE kind \in {"trips", "edits"} -> Trips
      [] kind = "reports" -> [player : Players, time : Nat]
      [] OTHER -> [id : Nat \ {0}, diff : Nat]

TablesTyped ==
    /\ now \in Nat /\ weekStart \in Nat
    /\ DOMAIN trips \subseteq Trips /\ \A t \in DOMAIN trips : trips[t] \in Trip
    /\ ledger \in Seq(Row)
    /\ achieved \subseteq Players \X Achievements
    /\ participation \subseteq Players
    /\ DOMAIN seen \subseteq DOMAIN ledger

CallTyped(c) ==
    /\ c = [does |-> c.does, write |-> c.write, trip |-> c.trip, send |-> c.send, item |-> c.item]
    /\ c.does \in {"nothing", "merge", "commit", "send"}
    /\ c.does = "merge" => c.send = "xp"
    /\ c.does = "commit" => c.send \in {"trips", "edits", "none", "xp"}
    /\ c.does = "commit" /\ c.send # "xp" => c.item \in Trips /\ c.trip \in Trip
    /\ c.does \in {"merge", "commit"} /\ c.send = "xp" => c.write \in Write
    /\ c.does = "send" => c.send \in Kinds /\ c.item \in Item(c.send)

CallsTyped == DOMAIN call = Handlers /\ \A h \in Handlers : CallTyped(call[h])

QueuesTyped ==
    /\ DOMAIN queue = Kinds
    /\ \A k \in Kinds : queue[k] \in Seq(Item(k)) /\ Len(queue[k]) <= Capacity

WorkTyped ==
    /\ work = [does |-> work.does, kind |-> work.kind, item |-> work.item, rows |-> work.rows,
               grants |-> work.grants, sends |-> work.sends, next |-> work.next]
    /\ work.does \in {"receive", "reward", "achieve", "commit", "send"}
    /\ work.does # "receive" => work.kind \in Kinds /\ work.item \in Item(work.kind)
    /\ work.does = "reward" => work.kind \in {"trips", "edits"}
    /\ work.rows \in Seq(Row) /\ work.grants \subseteq Players \X Achievements
    /\ work.sends \in Seq(Item("xp")) /\ work.next \in {"receive", "achieve"}

\* What is written has the types of the tables, what is sent is of the channel,
\* and no channel holds more than it can.
TypeOK == TablesTyped /\ CallsTyped /\ QueuesTyped /\ WorkTyped

\* Each trip is rewarded once and its confirmation once, and each achievement
\* once for each player, however calls that follow each other, the processor
\* and failed transactions interleave: the caller repeats a call that failed.
SameReward(i, j) ==
    /\ ledger[i].player = ledger[j].player
    /\ ledger[i].type = ledger[j].type
    /\ ledger[i].cause = ledger[j].cause

RewardedOnce ==
    \A i, j \in DOMAIN ledger :
        SameReward(i, j) /\ ledger[i].type # "DISCORD_PARTICIPATION" => i = j

\* The differences from which levels are computed add up to the ledger: once
\* everything is handled, each transaction was announced with all its XP,
\* however many messages were merged into it.
SeenAll ==
    AllIdle => \A i \in DOMAIN ledger : SeenOf(i) = ledger[i].value

\* "bringing old XP into the current week" (posplay/posplay.go:343): merging
\* never moves what was won in a week into the next.
WeeksApart ==
    [][\A i \in DOMAIN ledger :
           ledger[i].time <= weekStart => ledger'[i].time <= weekStart]_vars

\* Everything is handled at last, and the rewards it leads to: the processor
\* never waits for room that only it can make.
ProcessorDrains == []<>(AllIdle)
=============================================================================

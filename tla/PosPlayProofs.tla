---------------------------- MODULE PosPlayProofs ----------------------------
(***************************************************************************)
(* For any players, trips, events and achievements, and any number of      *)
(* handlers: if calls about the same thing do not overlap, nothing is      *)
(* rewarded twice, no XP moves from a week to the next, and what was told  *)
(* of each row adds up to its XP.                                          *)
(***************************************************************************)
EXTENDS PosPlay, FiniteSetTheorems, TLAPS

-----------------------------------------------------------------------------
\* What is sent, and what is to be updated, is in the database.
CallRefers(c) ==
    /\ c.does = "send" =>
           /\ c.send \in {"trips", "edits"} => c.item \in DOMAIN trips
           /\ c.send = "xp" => c.item.id \in DOMAIN ledger
    /\ c.does \in {"merge", "commit"} /\ c.send = "xp" =>
           c.write.id = 0 \/ c.write.id \in DOMAIN ledger

QueuesRefer ==
    /\ \A k \in {"trips", "edits"} : \A i \in DOMAIN queue[k] : queue[k][i] \in DOMAIN trips
    /\ \A i \in DOMAIN queue["xp"] : queue["xp"][i].id \in DOMAIN ledger

WorkRefers ==
    /\ work.does # "receive" =>
           /\ work.kind \in {"trips", "edits"} => work.item \in DOMAIN trips
           /\ work.kind = "xp" => work.item.id \in DOMAIN ledger
    /\ \A i \in DOMAIN work.sends : work.sends[i].id \in DOMAIN ledger

InDatabase == (\A h \in Handlers : CallRefers(call[h])) /\ QueuesRefer /\ WorkRefers

TInv == TypeOK /\ InDatabase

(***************************************************************************)
(* Two calls are about the same thing when they are to write the same      *)
(* trip, or XP of a player for the same cause. A phone waits for the       *)
(* answer to a call before it repeats it, an event is won with one         *)
(* message, and the messages of a user that count are minutes apart.       *)
(***************************************************************************)
WritesTrip(h) == call[h].does = "commit" /\ call[h].send # "xp"

WritesXP(h) == call[h].does \in {"merge", "commit"} /\ call[h].send = "xp"

Same(row, other) == row.player = other.player /\ row.type = other.type /\ row.cause = other.cause

CallsApart ==
    \A g, h \in Handlers : g # h =>
        /\ WritesTrip(g) /\ WritesTrip(h) => call[g].item # call[h].item
        /\ WritesXP(g) /\ WritesXP(h) => ~Same(call[g].write.row, call[h].write.row)

(***************************************************************************)
(* A trip and its first edit give rise to one item each, which is with a   *)
(* handler, in the channel, with the processor or rewarded.                *)
(***************************************************************************)
TripKinds == {"trips", "edits"}

RewardType(k) == IF k = "trips" THEN "TRIP_SUBMIT_REWARD" ELSE "TRIP_CONFIRM_REWARD"

Registered(k, t) == t \in DOMAIN trips /\ (k = "edits" => trips[t].edited)

Sends(h, k, t) == call[h].does = "send" /\ call[h].send = k /\ call[h].item = t

Queued(k, t) == \E i \in DOMAIN queue[k] : queue[k][i] = t

InWork(k, t) ==
    /\ work.kind = k /\ work.item = t
    /\ work.does = "reward" \/ (work.does = "commit" /\ work.next = "achieve")

Rewarded(k, t) == \E i \in DOMAIN ledger : ledger[i].type = RewardType(k) /\ ledger[i].cause = t

TripsToCommit ==
    \A h \in Handlers : WritesTrip(h) =>
        /\ call[h].send \in TripKinds => ~Registered(call[h].send, call[h].item)
        /\ call[h].send # "trips" => call[h].trip.edited

ItemsApart(k, t) ==
    /\ \A h \in Handlers : Sends(h, k, t) =>
           /\ Registered(k, t) /\ ~Queued(k, t) /\ ~InWork(k, t) /\ ~Rewarded(k, t)
           /\ \A g \in Handlers : Sends(g, k, t) => g = h
    /\ Queued(k, t) => Registered(k, t) /\ ~InWork(k, t) /\ ~Rewarded(k, t)
    /\ InWork(k, t) => Registered(k, t) /\ ~Rewarded(k, t)
    /\ Rewarded(k, t) => Registered(k, t)
    /\ \A i, j \in DOMAIN queue[k] : queue[k][i] = t /\ queue[k][j] = t => i = j

TripsOnce == TripsToCommit /\ \A k \in TripKinds, t \in Trips : ItemsApart(k, t)

(***************************************************************************)
(* What the processor is about to write: a trip's reward, or rewards of    *)
(* achievements that the player does not have. Each of those that is in    *)
(* the ledger has its row among the achievements.                          *)
(***************************************************************************)
WorkRows ==
    /\ work.does = "reward" => work.grants = {}
    /\ work.does = "commit" /\ work.next = "achieve" =>
           /\ work.kind \in TripKinds /\ work.grants = {}
           /\ Len(work.rows) = 1
           /\ work.rows[1].type = RewardType(work.kind) /\ work.rows[1].cause = work.item
    /\ work.does = "commit" /\ work.next = "receive" =>
           /\ work.grants \cap achieved = {}
           /\ \A i \in DOMAIN work.rows :
                  /\ work.rows[i].type = "ACHIEVEMENT_REWARD"
                  /\ <<work.rows[i].player, work.rows[i].cause>> \in work.grants
           /\ \A i, j \in DOMAIN work.rows : Same(work.rows[i], work.rows[j]) => i = j

AchievedRows ==
    \A i \in DOMAIN ledger : ledger[i].type = "ACHIEVEMENT_REWARD" =>
        <<ledger[i].player, ledger[i].cause>> \in achieved

(***************************************************************************)
(* What a handler of the bot is about to write: the reward of an event     *)
(* that has none, or XP for messages, new or merged into a row of messages *)
(* that is of the week the handler's time is of, or of a later one.        *)
(***************************************************************************)
ParticipationRow(row) == row.type = "DISCORD_PARTICIPATION" /\ row.cause = "none"

XPToWrite(h) ==
    LET write == call[h].write
    IN  /\ write.row.time <= now
        /\ ParticipationRow(write.row) \/ write.row.type = "DISCORD_REACTION_EVENT"
        /\ call[h].does = "merge" => ParticipationRow(write.row) /\ write.id = 0
        /\ write.row.type = "DISCORD_REACTION_EVENT" =>
               write.id = 0 /\ \A i \in DOMAIN ledger : ~Same(ledger[i], write.row)
        /\ write.id # 0 =>
               /\ Same(ledger[write.id], write.row)
               /\ ledger[write.id].time <= weekStart => write.row.time <= weekStart

CallRows ==
    /\ weekStart <= now
    /\ \A i \in DOMAIN ledger : ledger[i].type = "DISCORD_PARTICIPATION" => ParticipationRow(ledger[i])
    /\ \A h \in Handlers : WritesXP(h) => XPToWrite(h)

RInv == TripsOnce /\ WorkRows /\ AchievedRows /\ CallRows /\ RewardedOnce

IInv == TInv /\ RInv

-----------------------------------------------------------------------------
(***************************************************************************)
(* Typing, and that what is sent is in the database, need no hypothesis.   *)
(***************************************************************************)
\* What each channel carries.
LEMMA ItemFacts ==
    /\ Item("trips") = Trips /\ Item("edits") = Trips
    /\ Item("reports") = [player : Players, time : Nat]
    /\ Item("xp") = [id : Nat \ {0}, diff : Nat]
BY DEF Item

LEMMA XPFacts ==
    ASSUME NEW player \in Players, NEW cause \in Trips \cup Events \cup Achievements \cup {"none"},
           NEW type \in {"TRIP_SUBMIT_REWARD", "TRIP_CONFIRM_REWARD", "DISCORD_REACTION_EVENT",
                         "DISCORD_PARTICIPATION", "ACHIEVEMENT_REWARD"},
           NEW time \in Nat, NEW value \in Nat
    PROVE  XP(player, type, cause, time, value) \in Row
BY DEF XP, Row

LEMMA AppendFacts ==
    ASSUME NEW S, NEW s \in Seq(S), NEW x \in S
    PROVE  /\ Append(s, x) \in Seq(S) /\ Len(Append(s, x)) = Len(s) + 1
           /\ DOMAIN s = 1..Len(s) /\ Len(s) \in Nat
           /\ DOMAIN Append(s, x) = DOMAIN s \cup {Len(s) + 1}
           /\ Append(s, x)[Len(s) + 1] = x
           /\ \A i \in DOMAIN s : Append(s, x)[i] = s[i] /\ s[i] \in S
OBVIOUS

LEMMA TailFacts ==
    ASSUME NEW S, NEW s \in Seq(S), s # <<>>
    PROVE  /\ Head(s) \in S /\ Head(s) = s[1] /\ 1 \in DOMAIN s
           /\ Tail(s) \in Seq(S) /\ Len(Tail(s)) = Len(s) - 1 /\ Len(s) \in Nat
           /\ \A i \in DOMAIN Tail(s) :
                  i + 1 \in DOMAIN s /\ i \in Nat \ {0} /\ Tail(s)[i] = s[i + 1]
OBVIOUS

\* A step of one handler leaves the calls of the others as they are.
LEMMA CallStep ==
    ASSUME TInv, NEW h \in Handlers, DOMAIN call' = Handlers,
           \A g \in Handlers : g # h => call'[g] = call[g],
           CallTyped(call[h])', CallRefers(call[h])',
           DOMAIN trips \subseteq DOMAIN trips', DOMAIN ledger \subseteq DOMAIN ledger'
    PROVE  CallsTyped' /\ \A g \in Handlers : CallRefers(call[g])'
<1>1. CallsTyped'
  BY DEF TInv, TypeOK, CallsTyped, CallTyped
<1>2. \A g \in Handlers : CallRefers(call[g])'
  BY DEF TInv, InDatabase, CallRefers
<1>. QED
  BY <1>1, <1>2

\* Rows are never deleted: what is in the channels and with the processor
\* stays in the database.
LEMMA RestKept ==
    ASSUME TInv, UNCHANGED <<queue, work>>,
           DOMAIN trips \subseteq DOMAIN trips', DOMAIN ledger \subseteq DOMAIN ledger'
    PROVE  QueuesTyped' /\ WorkTyped' /\ QueuesRefer' /\ WorkRefers'
BY DEF TInv, TypeOK, InDatabase, QueuesTyped, WorkTyped, QueuesRefer, WorkRefers

\* So do the calls, while the processor works.
LEMMA CallsKept ==
    ASSUME TInv, UNCHANGED <<call, trips>>, DOMAIN ledger \subseteq DOMAIN ledger'
    PROVE  CallsTyped' /\ \A g \in Handlers : CallRefers(call[g])'
BY DEF TInv, TypeOK, InDatabase, CallsTyped, CallTyped, CallRefers

LEMMA TInvInit == Init => TInv
<1>. SUFFICES ASSUME Init
              PROVE  TInv
  OBVIOUS
<1>1. TablesTyped
  BY DEF Init, TablesTyped
<1>2. CallTyped(Idle) /\ CallRefers(Idle)
  BY DEF Idle, CallTyped, CallRefers
<1>3. CallsTyped /\ \A h \in Handlers : CallRefers(call[h])
  BY <1>2 DEF Init, CallsTyped
<1>4. QueuesTyped /\ QueuesRefer
  BY PosPlayAssumption, ItemFacts DEF Init, QueuesTyped, QueuesRefer, Kinds
<1>5. WorkTyped /\ WorkRefers
  BY DEF Init, Receiving, WorkTyped, WorkRefers
<1>. QED
  BY <1>1, <1>3, <1>4, <1>5 DEF TInv, TypeOK, InDatabase

\* What a handler does when it begins.
LEMMA TInvBegin ==
    ASSUME TInv, NEW h \in Handlers, Begin(h)
    PROVE  TInv'
<1>1. /\ UNCHANGED <<weekStart, trips, ledger, achieved, queue, work, seen>>
      /\ now \in Nat /\ now' = now + 2
      /\ participation' \subseteq Players
      /\ DOMAIN call' = Handlers
      /\ \A g \in Handlers : g # h => call'[g] = call[g]
  BY DEF Begin, PostTrip, PutTrip, PostReport, React, Message, Set, Stamp, TInv, TypeOK,
         TablesTyped, CallsTyped
<1>2. now' \in Nat
  BY <1>1
<1>3. ASSUME NEW t \in Trips, PostTrip(h, t)
      PROVE  CallTyped(call[h])' /\ CallRefers(call[h])'
  <2>1. call'[h] = [does |-> "commit", write |-> "none", send |-> "trips", item |-> t,
                    trip |-> [submitted |-> now', edited |-> FALSE, editedAt |-> 0]]
    BY <1>1, <1>3 DEF PostTrip, Set, Idle, NoTrip, TInv, TypeOK, CallsTyped
  <2>. QED
    BY <1>2, <2>1 DEF CallTyped, CallRefers, Trip
<1>4. ASSUME NEW t \in Trips, PutTrip(h, t)
      PROVE  CallTyped(call[h])' /\ CallRefers(call[h])'
  <2>1. t \in DOMAIN trips /\ trips[t] \in Trip
    BY <1>4 DEF PutTrip, TInv, TypeOK, TablesTyped
  <2>2. [trips[t] EXCEPT !.edited = TRUE, !.editedAt = now'] \in Trip
    BY <1>2, <2>1 DEF Trip
  <2>3. FirstEdit(trips[t]) \in {"none", "edits"}
    BY DEF FirstEdit
  <2>4. call'[h] = [does |-> "commit", write |-> "none", send |-> FirstEdit(trips[t]), item |-> t,
                    trip |-> [trips[t] EXCEPT !.edited = TRUE, !.editedAt = now']]
    BY <1>1, <1>4 DEF PutTrip, Set, Idle, TInv, TypeOK, CallsTyped
  <2>. QED
    BY <2>2, <2>3, <2>4 DEF CallTyped, CallRefers
<1>5. ASSUME NEW player \in Players, PostReport(h, player)
      PROVE  CallTyped(call[h])' /\ CallRefers(call[h])'
  <2>1. call'[h] = [does |-> "send", write |-> "none", send |-> "reports", trip |-> NoTrip,
                    item |-> [player |-> player, time |-> now']]
    BY <1>1, <1>5 DEF PostReport, Set, Idle, TInv, TypeOK, CallsTyped
  <2>2. [player |-> player, time |-> now'] \in Item("reports")
    BY <1>2, ItemFacts
  <2>. QED
    BY <2>1, <2>2 DEF CallTyped, CallRefers, Kinds
<1>6. ASSUME NEW player \in Players, NEW does \in {"commit", "merge"},
             NEW type \in {"DISCORD_REACTION_EVENT", "DISCORD_PARTICIPATION"},
             NEW cause \in Events \cup {"none"},
             call' = [call EXCEPT ![h] = [Idle EXCEPT !.does = does, !.send = "xp",
                         !.write = Insert(XP(player, type, cause, now', 1))]]
      PROVE  CallTyped(call[h])' /\ CallRefers(call[h])'
  <2>1. XP(player, type, cause, now', 1) \in Row
    BY <1>2, XPFacts
  <2>2. Insert(XP(player, type, cause, now', 1)) \in Write
    BY <2>1 DEF Insert, Write, Row
  <2>3. Insert(XP(player, type, cause, now', 1)).id = 0
    BY DEF Insert
  <2>4. call'[h] = [does |-> does, write |-> Insert(XP(player, type, cause, now', 1)),
                    send |-> "xp", trip |-> NoTrip, item |-> "none"]
    BY <1>1, <1>6 DEF Idle, TInv, TypeOK, CallsTyped
  <2>. QED
    BY <2>2, <2>3, <2>4 DEF CallTyped, CallRefers
<1>7. CallTyped(call[h])' /\ CallRefers(call[h])'
  BY <1>3, <1>4, <1>5, <1>6 DEF Begin, React, Message, Set
<1>8. CallsTyped' /\ \A g \in Handlers : CallRefers(call[g])'
  BY <1>1, <1>7, CallStep
<1>9. QueuesTyped' /\ WorkTyped' /\ QueuesRefer' /\ WorkRefers'
  BY <1>1, RestKept
<1>10. TablesTyped'
  BY <1>1, <1>2 DEF TInv, TypeOK, TablesTyped
<1>. QED
  BY <1>8, <1>9, <1>10 DEF TInv, TypeOK, InDatabase

\* An upsert writes one row and keeps the others.
LEMMA WrittenFacts ==
    ASSUME ledger \in Seq(Row), NEW write \in Write, write.id = 0 \/ write.id \in DOMAIN ledger
    PROVE  /\ Written(ledger, write) \in Seq(Row)
           /\ DOMAIN Written(ledger, write) = DOMAIN ledger \cup {ID(write)}
           /\ Written(ledger, write)[ID(write)] = write.row
           /\ \A i \in DOMAIN ledger : i # ID(write) => Written(ledger, write)[i] = ledger[i]
           /\ write.id = 0 => ID(write) \notin DOMAIN ledger
           /\ write.id # 0 => ID(write) = write.id
           /\ ID(write) \in Nat \ {0}
<1>1. write.row \in Row /\ write.id \in Nat
  BY DEF Write
<1>2. CASE write.id = 0
  <2>1. Written(ledger, write) = Append(ledger, write.row) /\ ID(write) = Len(ledger) + 1
    BY <1>2 DEF Written, ID
  <2>. QED
    BY <1>1, <1>2, <2>1, AppendFacts
<1>3. CASE write.id # 0
  <2>1. Written(ledger, write) = [ledger EXCEPT ![write.id] = write.row] /\ ID(write) = write.id
    BY <1>3 DEF Written, ID
  <2>2. write.id \in DOMAIN ledger /\ DOMAIN ledger = 1..Len(ledger)
    BY <1>3
  <2>. QED
    BY <1>1, <1>3, <2>1, <2>2
<1>. QED
  BY <1>2, <1>3

\* What a handler does until it has finished.
LEMMA TInvCommitTrip ==
    ASSUME TInv, NEW h \in Handlers, CommitTrip(h)
    PROVE  TInv'
<1>. DEFINE c == call[h]
<1>1. /\ CallTyped(c) /\ c.does = "commit" /\ c.send # "xp"
      /\ UNCHANGED <<now, weekStart, ledger, achieved, participation, queue, work, seen>>
  BY DEF CommitTrip, TInv, TypeOK, CallsTyped
<1>2. /\ DOMAIN trips' = DOMAIN trips \cup {c.item}
      /\ trips'[c.item] = c.trip
      /\ \A t \in DOMAIN trips : t # c.item => trips'[t] = trips[t]
  BY DEF CommitTrip
<1>3. c.item \in Trips /\ c.trip \in Trip /\ c.send \in {"trips", "edits", "none"}
  BY <1>1 DEF CallTyped
<1>4. TablesTyped'
  BY <1>1, <1>2, <1>3 DEF TInv, TypeOK, TablesTyped
<1>5. /\ DOMAIN call' = Handlers
      /\ \A g \in Handlers : g # h => call'[g] = call[g]
      /\ call'[h] = IF c.send = "none" THEN Idle
                    ELSE [does |-> "send", write |-> c.write, trip |-> c.trip,
                          send |-> c.send, item |-> c.item]
  BY <1>1 DEF CommitTrip, Set, TInv, TypeOK, CallsTyped, CallTyped
<1>6. CallTyped(call[h])' /\ CallRefers(call[h])'
  <2>1. CASE c.send = "none"
    BY <1>5, <2>1 DEF Idle, CallTyped, CallRefers
  <2>2. CASE c.send # "none"
    <3>1. c.item \in Item(c.send) /\ c.send \in Kinds
      BY <1>3, <2>2, ItemFacts DEF Kinds
    <3>. QED
      BY <1>2, <1>3, <1>5, <2>2, <3>1 DEF CallTyped, CallRefers
  <2>. QED
    BY <2>1, <2>2
<1>7. CallsTyped' /\ \A g \in Handlers : CallRefers(call[g])'
  BY <1>1, <1>2, <1>5, <1>6, CallStep
<1>8. QueuesTyped' /\ WorkTyped' /\ QueuesRefer' /\ WorkRefers'
  BY <1>1, <1>2, RestKept
<1>. QED
  BY <1>4, <1>7, <1>8 DEF TInv, TypeOK, InDatabase

\* A merge finds a row, or none, and writes nothing yet.
LEMMA TInvMerge ==
    ASSUME TInv, NEW h \in Handlers, Merge(h)
    PROVE  TInv'
<1>. DEFINE c == call[h]
            row == c.write.row
            Merged(i) == [id |-> i, diff |-> row.value,
                          row |-> [row EXCEPT !.value = @ + ledger[i].value]]
<1>1. /\ CallTyped(c) /\ CallRefers(c) /\ c.does = "merge" /\ c.send = "xp"
      /\ UNCHANGED <<now, weekStart, trips, ledger, achieved, participation, queue, work, seen>>
  BY DEF Merge, TInv, TypeOK, InDatabase, CallsTyped, CallTyped
<1>2. c.write \in Write /\ (c.write.id = 0 \/ c.write.id \in DOMAIN ledger)
  BY <1>1 DEF CallTyped, CallRefers
<1>3. PICK write : /\ write = c.write \/ \E i \in DOMAIN ledger : write = Merged(i)
                   /\ call' = [call EXCEPT ![h] = [c EXCEPT !.does = "commit", !.write = write]]
  <2>1. CASE call' = [call EXCEPT ![h] = [c EXCEPT !.does = "commit"]]
    <3>1. [c EXCEPT !.does = "commit"] = [c EXCEPT !.does = "commit", !.write = c.write]
      BY <1>1 DEF CallTyped
    <3>. QED
      BY <2>1, <3>1
  <2>2. ASSUME NEW i \in LastRows(row.player),
               call' = [call EXCEPT ![h] = [c EXCEPT !.does = "commit",
                            !.write = IF MergesWith(row, ledger[i]) THEN Merged(i) ELSE @]]
        PROVE  \E write : /\ write = c.write \/ \E j \in DOMAIN ledger : write = Merged(j)
                          /\ call' = [call EXCEPT ![h] = [c EXCEPT !.does = "commit",
                                                                   !.write = write]]
    <3>1. i \in DOMAIN ledger
      BY DEF LastRows, RowsOf
    <3>. QED
      BY <2>2, <3>1
  <2>. QED
    BY <2>1, <2>2 DEF Merge, Set
<1>4. write \in Write /\ (write.id = 0 \/ write.id \in DOMAIN ledger)
  <2>1. ASSUME NEW i \in DOMAIN ledger, write = Merged(i)
        PROVE  write \in Write /\ write.id \in DOMAIN ledger
    <3>1. ledger \in Seq(Row) /\ DOMAIN ledger = 1..Len(ledger)
      BY DEF TInv, TypeOK, TablesTyped
    <3>2. row \in Row /\ ledger[i] \in Row /\ i \in Nat
      BY <1>2, <3>1 DEF Write
    <3>3. row.value \in Nat /\ ledger[i].value \in Nat
      BY <3>2 DEF Row
    <3>4. [row EXCEPT !.value = @ + ledger[i].value] \in Row
      BY <3>2, <3>3 DEF Row
    <3>. QED
      BY <2>1, <3>2, <3>3, <3>4 DEF Write
  <2>. QED
    BY <1>2, <1>3, <2>1
<1>5. /\ DOMAIN call' = Handlers
      /\ \A g \in Handlers : g # h => call'[g] = call[g]
      /\ call'[h] = [does |-> "commit", write |-> write, trip |-> c.trip,
                     send |-> "xp", item |-> c.item]
  BY <1>1, <1>3 DEF TInv, TypeOK, CallsTyped, CallTyped
<1>6. CallTyped(call[h])' /\ CallRefers(call[h])'
  BY <1>1, <1>4, <1>5 DEF CallTyped, CallRefers
<1>7. CallsTyped' /\ \A g \in Handlers : CallRefers(call[g])'
  BY <1>1, <1>5, <1>6, CallStep
<1>8. QueuesTyped' /\ WorkTyped' /\ QueuesRefer' /\ WorkRefers'
  BY <1>1, RestKept
<1>9. TablesTyped'
  BY <1>1 DEF TInv, TypeOK, TablesTyped
<1>. QED
  BY <1>7, <1>8, <1>9 DEF TInv, TypeOK, InDatabase

\* An upsert, then what it announces refers to the row that it wrote.
LEMMA TInvCommitXP ==
    ASSUME TInv, NEW h \in Handlers, CommitXP(h)
    PROVE  TInv'
<1>. DEFINE c == call[h]
<1>1. /\ CallTyped(c) /\ CallRefers(c) /\ c.does = "commit" /\ c.send = "xp"
      /\ UNCHANGED <<now, weekStart, trips, achieved, participation, queue, work, seen>>
      /\ ledger' = Written(ledger, c.write)
      /\ ledger \in Seq(Row)
  BY DEF CommitXP, TInv, TypeOK, InDatabase, CallsTyped, TablesTyped
<1>2. c.write \in Write /\ (c.write.id = 0 \/ c.write.id \in DOMAIN ledger)
  BY <1>1 DEF CallTyped, CallRefers
<1>3. /\ ledger' \in Seq(Row) /\ DOMAIN ledger' = DOMAIN ledger \cup {ID(c.write)}
      /\ ID(c.write) \in Nat \ {0}
  BY <1>1, <1>2, WrittenFacts
<1>4. /\ DOMAIN call' = Handlers
      /\ \A g \in Handlers : g # h => call'[g] = call[g]
      /\ call'[h] = [does |-> "send", write |-> "none", trip |-> NoTrip, send |-> "xp",
                     item |-> [id |-> ID(c.write), diff |-> c.write.diff]]
  BY <1>1 DEF CommitXP, Set, Idle, Announcement, TInv, TypeOK, CallsTyped
<1>5. [id |-> ID(c.write), diff |-> c.write.diff] \in Item("xp")
  BY <1>2, <1>3, ItemFacts DEF Write
<1>6. CallTyped(call[h])' /\ CallRefers(call[h])'
  BY <1>3, <1>4, <1>5 DEF CallTyped, CallRefers, Kinds
<1>7. CallsTyped' /\ \A g \in Handlers : CallRefers(call[g])'
  BY <1>1, <1>3, <1>4, <1>6, CallStep
<1>8. QueuesTyped' /\ WorkTyped' /\ QueuesRefer' /\ WorkRefers'
  BY <1>1, <1>3, RestKept
<1>9. TablesTyped'
  BY <1>1, <1>3 DEF TInv, TypeOK, TablesTyped
<1>. QED
  BY <1>7, <1>8, <1>9 DEF TInv, TypeOK, InDatabase

\* An item that is sent is the last of its channel.
LEMMA TInvSend ==
    ASSUME TInv, NEW kind \in Kinds, NEW item \in Item(kind), HasRoom(kind), Send(kind, item),
           UNCHANGED <<trips, ledger>>,
           kind \in {"trips", "edits"} => item \in DOMAIN trips,
           kind = "xp" => item.id \in DOMAIN ledger
    PROVE  QueuesTyped' /\ QueuesRefer'
<1>. DEFINE q == queue[kind]
<1>1. q \in Seq(Item(kind)) /\ Len(q) < Capacity /\ DOMAIN queue = Kinds /\ Capacity \in Nat
  BY PosPlayAssumption DEF TInv, TypeOK, QueuesTyped, HasRoom
<1>2. /\ DOMAIN queue' = Kinds /\ queue'[kind] = Append(q, item)
      /\ \A k \in Kinds : k # kind => queue'[k] = queue[k]
  BY <1>1 DEF Send
<1>. HIDE DEF q
<1>3. /\ Append(q, item) \in Seq(Item(kind)) /\ Len(Append(q, item)) <= Capacity
      /\ DOMAIN Append(q, item) = DOMAIN q \cup {Len(q) + 1}
      /\ Append(q, item)[Len(q) + 1] = item
      /\ \A i \in DOMAIN q : Append(q, item)[i] = q[i]
  BY <1>1, AppendFacts
<1>4. QueuesTyped'
  BY <1>2, <1>3 DEF TInv, TypeOK, QueuesTyped
<1>5. QueuesRefer'
  BY <1>2, <1>3 DEF TInv, InDatabase, QueuesRefer, Kinds, q
<1>. QED
  BY <1>4, <1>5

LEMMA TInvRegister ==
    ASSUME TInv, NEW h \in Handlers, Register(h)
    PROVE  TInv'
<1>. DEFINE c == call[h]
<1>1. /\ CallTyped(c) /\ CallRefers(c) /\ c.does = "send"
      /\ HasRoom(c.send) /\ Send(c.send, c.item)
      /\ UNCHANGED <<now, weekStart, trips, ledger, achieved, participation, work, seen>>
  BY DEF Register, TInv, TypeOK, InDatabase, CallsTyped
<1>2. c.send \in Kinds /\ c.item \in Item(c.send)
  BY <1>1 DEF CallTyped
<1>3. /\ c.send \in {"trips", "edits"} => c.item \in DOMAIN trips
      /\ c.send = "xp" => c.item.id \in DOMAIN ledger
  BY <1>1 DEF CallRefers
<1>4. /\ DOMAIN call' = Handlers
      /\ \A g \in Handlers : g # h => call'[g] = call[g]
      /\ call'[h] = Idle
  BY DEF Register, Set, TInv, TypeOK, CallsTyped
<1>. HIDE DEF c
<1>5. QueuesTyped' /\ QueuesRefer'
  BY <1>1, <1>2, <1>3, TInvSend
<1>6. CallTyped(call[h])' /\ CallRefers(call[h])'
  BY <1>4 DEF Idle, CallTyped, CallRefers
<1>7. CallsTyped' /\ \A g \in Handlers : CallRefers(call[g])'
  BY <1>1, <1>4, <1>6, CallStep
<1>8. TablesTyped' /\ WorkTyped' /\ WorkRefers'
  BY <1>1 DEF TInv, TypeOK, InDatabase, TablesTyped, WorkTyped, WorkRefers
<1>. QED
  BY <1>5, <1>7, <1>8 DEF TInv, TypeOK, InDatabase

LEMMA TInvFailCall ==
    ASSUME TInv, NEW h \in Handlers, FailCall(h)
    PROVE  TInv'
<1>1. /\ DOMAIN call' = Handlers
      /\ \A g \in Handlers : g # h => call'[g] = call[g]
      /\ call'[h] = Idle
      /\ UNCHANGED <<now, weekStart, trips, ledger, achieved, participation, queue, work, seen>>
  BY DEF FailCall, Set, TInv, TypeOK, CallsTyped
<1>2. CallTyped(call[h])' /\ CallRefers(call[h])'
  BY <1>1 DEF Idle, CallTyped, CallRefers
<1>3. CallsTyped' /\ \A g \in Handlers : CallRefers(call[g])'
  BY <1>1, <1>2, CallStep
<1>4. QueuesTyped' /\ WorkTyped' /\ QueuesRefer' /\ WorkRefers'
  BY <1>1, RestKept
<1>5. TablesTyped'
  BY <1>1 DEF TInv, TypeOK, TablesTyped
<1>. QED
  BY <1>3, <1>4, <1>5 DEF TInv, TypeOK, InDatabase

-----------------------------------------------------------------------------
\* What the processor does.
LEMMA TInvReceive ==
    ASSUME TInv, NEW kind \in Kinds, Receive(kind)
    PROVE  TInv'
<1>. DEFINE q == queue[kind]
<1>1. /\ q \in Seq(Item(kind)) /\ q # <<>> /\ Len(q) <= Capacity
      /\ DOMAIN queue = Kinds /\ Capacity \in Nat
      /\ UNCHANGED <<now, weekStart, trips, participation, call, ledger, achieved>>
  BY PosPlayAssumption DEF Receive, Unchanged, TInv, TypeOK, QueuesTyped
<1>2. /\ DOMAIN queue' = Kinds /\ queue'[kind] = Tail(q)
      /\ \A k \in Kinds : k # kind => queue'[k] = queue[k]
  BY <1>1 DEF Receive
<1>3. /\ Head(q) \in Item(kind) /\ Head(q) = q[1] /\ 1 \in DOMAIN q
      /\ Tail(q) \in Seq(Item(kind)) /\ Len(Tail(q)) <= Capacity
      /\ \A i \in DOMAIN Tail(q) : i + 1 \in DOMAIN q /\ Tail(q)[i] = q[i + 1]
  BY <1>1, TailFacts
<1>4. QueuesTyped'
  BY <1>2, <1>3 DEF TInv, TypeOK, QueuesTyped
<1>5. /\ kind \in {"trips", "edits"} => \A i \in DOMAIN q : q[i] \in DOMAIN trips
      /\ kind = "xp" => \A i \in DOMAIN q : q[i].id \in DOMAIN ledger
  BY DEF TInv, InDatabase, QueuesRefer
<1>6. QueuesRefer'
  <2>1. \A k \in {"trips", "edits"} : \A i \in DOMAIN queue'[k] : queue'[k][i] \in DOMAIN trips
    BY <1>2, <1>3, <1>5 DEF TInv, InDatabase, QueuesRefer, Kinds
  <2>2. \A i \in DOMAIN queue'["xp"] : queue'["xp"][i].id \in DOMAIN ledger
    <3>1. CASE kind = "xp"
      <4>1. queue'["xp"] = Tail(q)
        BY <1>2, <3>1
      <4>. QED
        BY <1>3, <1>5, <3>1, <4>1
    <3>2. CASE kind # "xp"
      <4>1. queue'["xp"] = queue["xp"]
        BY <1>2, <3>2 DEF Kinds
      <4>. QED
        BY <4>1 DEF TInv, InDatabase, QueuesRefer
    <3>. QED
      BY <3>1, <3>2
  <2>. QED
    BY <1>1, <2>1, <2>2 DEF QueuesRefer
<1>7. work' = [does |-> IF kind \in {"trips", "edits"} THEN "reward" ELSE "achieve",
               kind |-> kind, item |-> Head(q), rows |-> <<>>, grants |-> {}, sends |-> <<>>,
               next |-> "receive"]
  BY DEF Receive, Receiving
<1>8. WorkTyped' /\ WorkRefers'
  <2>1. WorkTyped'
    BY <1>3, <1>7 DEF WorkTyped
  <2>2. WorkRefers'
    BY <1>1, <1>3, <1>5, <1>7 DEF WorkRefers
  <2>. QED
    BY <2>1, <2>2
<1>9. DOMAIN seen' \subseteq DOMAIN ledger
  BY <1>3, <1>5 DEF Receive, TInv, TypeOK, TablesTyped
<1>10. TablesTyped'
  BY <1>1, <1>9 DEF TInv, TypeOK, TablesTyped
<1>11. CallsTyped' /\ \A g \in Handlers : CallRefers(call[g])'
  BY <1>1, CallsKept
<1>. QED
  BY <1>4, <1>6, <1>8, <1>10, <1>11 DEF TInv, TypeOK, InDatabase

\* While the processor only prepares what it writes, nothing else changes.
LEMMA WorkStep ==
    ASSUME TInv, UNCHANGED <<now, weekStart, trips, participation, call, ledger, achieved,
                             queue, seen>>,
           WorkTyped', WorkRefers'
    PROVE  TInv'
<1>1. TablesTyped'
  BY DEF TInv, TypeOK, TablesTyped
<1>2. QueuesTyped' /\ QueuesRefer'
  BY DEF TInv, TypeOK, InDatabase, QueuesTyped, QueuesRefer
<1>3. CallsTyped' /\ \A g \in Handlers : CallRefers(call[g])'
  BY CallsKept
<1>. QED
  BY <1>1, <1>2, <1>3 DEF TInv, TypeOK, InDatabase

\* What the item in work refers to is typed.
LEMMA TripRewardTyped ==
    ASSUME TInv, work.does = "reward"
    PROVE  /\ work.kind \in {"trips", "edits"} /\ work.item \in Trips
           /\ work.item \in DOMAIN trips
           /\ TripReward(work.item) \in Row
<1>1. /\ work.kind \in {"trips", "edits"} /\ work.item \in Trips
      /\ work.item \in DOMAIN trips
  BY ItemFacts DEF TInv, TypeOK, InDatabase, WorkTyped, WorkRefers
<1>2. trips[work.item] \in Trip
  BY <1>1 DEF TInv, TypeOK, TablesTyped
<1>3. /\ trips[work.item].submitted \in Nat /\ trips[work.item].editedAt \in Nat
      /\ TripPlayer[work.item] \in Players /\ TripXP[work.item] \in Nat
  BY <1>1, <1>2, PosPlayAssumption DEF Trip
<1>4. XP(TripPlayer[work.item], "TRIP_CONFIRM_REWARD", work.item,
         trips[work.item].editedAt, 1) \in Row
  BY <1>1, <1>3, XPFacts
<1>5. XP(TripPlayer[work.item], "TRIP_SUBMIT_REWARD", work.item,
         trips[work.item].submitted, TripXP[work.item]) \in Row
  BY <1>1, <1>3, XPFacts
<1>. QED
  BY <1>1, <1>4, <1>5 DEF TripReward

LEMMA ItemPlayerTyped ==
    ASSUME TInv, work.does # "receive"
    PROVE  ItemPlayer \in Players /\ GrantTime \in Nat
<1>1. work.kind \in Kinds /\ work.item \in Item(work.kind)
  BY DEF TInv, TypeOK, WorkTyped
<1>2. CASE work.kind \in {"trips", "edits"}
  <2>1. work.item \in Trips /\ work.item \in DOMAIN trips
    BY <1>1, <1>2, ItemFacts DEF TInv, InDatabase, WorkRefers
  <2>2. trips[work.item] \in Trip
    BY <2>1 DEF TInv, TypeOK, TablesTyped
  <2>. QED
    BY <1>2, <2>1, <2>2, PosPlayAssumption DEF ItemPlayer, GrantTime, Trip
<1>3. CASE work.kind = "reports"
  <2>1. work.item \in [player : Players, time : Nat]
    BY <1>1, <1>3, ItemFacts
  <2>. QED
    BY <1>3, <2>1 DEF ItemPlayer, GrantTime
<1>4. CASE work.kind = "xp"
  <2>1. work.item.id \in DOMAIN ledger /\ ledger \in Seq(Row)
    BY <1>4 DEF TInv, TypeOK, InDatabase, WorkRefers, TablesTyped
  <2>2. ledger[work.item.id] \in Row
    BY <2>1
  <2>. QED
    BY <1>4, <2>2 DEF ItemPlayer, GrantTime, Row
<1>. QED
  BY <1>1, <1>2, <1>3, <1>4 DEF Kinds

LEMMA TInvRewardTrip ==
    ASSUME TInv, RewardTrip
    PROVE  TInv'
<1>. DEFINE row == TripReward(work.item)
<1>1. /\ WorkTyped /\ WorkRefers /\ work.does = "reward"
      /\ UNCHANGED <<now, weekStart, trips, participation, call, ledger, achieved, queue, seen>>
  BY DEF RewardTrip, Unchanged, TInv, TypeOK, InDatabase
<1>2. row \in Row
  BY <1>1, TripRewardTyped
<1>. HIDE DEF row
<1>3. <<row>> \in Seq(Row)
  BY <1>2
<1>4. \/ work' = [does |-> "achieve", kind |-> work.kind, item |-> work.item, rows |-> work.rows,
                  grants |-> work.grants, sends |-> work.sends, next |-> work.next]
      \/ work' = [does |-> "commit", kind |-> work.kind, item |-> work.item, rows |-> <<row>>,
                  grants |-> work.grants, sends |-> work.sends, next |-> "achieve"]
  BY <1>1 DEF RewardTrip, WorkTyped, row
<1>5. WorkTyped'
  <2>1. CASE work'.does = "achieve"
    BY <1>1, <1>4, <2>1 DEF WorkTyped
  <2>2. CASE work'.does = "commit"
    <3>1. work' = [does |-> "commit", kind |-> work.kind, item |-> work.item, rows |-> <<row>>,
                   grants |-> work.grants, sends |-> work.sends, next |-> "achieve"]
      BY <1>4, <2>2
    <3>. QED
      BY <1>1, <1>3, <3>1 DEF WorkTyped
  <2>. QED
    BY <1>4, <2>1, <2>2
<1>6. WorkRefers'
  BY <1>1, <1>4 DEF WorkRefers
<1>. QED
  BY <1>1, <1>5, <1>6, WorkStep

\* The rewards for the achievements worth one, in the order of the table.
RewardOf(a) == XP(ItemPlayer, "ACHIEVEMENT_REWARD", a, GrantTime, XPReward[a])

Granted == {a \in Achievements : Earned(a) /\ NotYetAchieved(a)}

LEMMA GrantFacts ==
    ASSUME TInv, GrantAchievements
    PROVE  \/ work' = Receiving
           \/ \E order \in Seq(Achievements) :
                  /\ \A i \in DOMAIN order : order[i] \in Granted
                  /\ \A i, j \in DOMAIN order : order[i] = order[j] => i = j
                  /\ work' = [work EXCEPT
                         !.does = "commit", !.next = "receive",
                         !.grants = {<<ItemPlayer, a>> : a \in Granted},
                         !.rows = [i \in DOMAIN order |-> RewardOf(order[i])]]
<1>. DEFINE worth == {a \in Granted : XPReward[a] # 0}
<1>1. worth \subseteq Achievements /\ worth \subseteq Granted
  BY DEF Granted
<1>2. IsFiniteSet(worth)
  BY <1>1, FS_Subset, PosPlayAssumption
<1>3. Cardinality(worth) \in Nat
  BY <1>2, FS_CardinalityType
<1>4. CASE Granted = {}
  BY <1>4 DEF GrantAchievements, Granted
<1>5. CASE Granted # {}
  <2>1. PICK order \in SetToSeqs(worth) :
            work' = [work EXCEPT
                !.does = "commit", !.next = "receive",
                !.grants = {<<ItemPlayer, a>> : a \in Granted},
                !.rows = [i \in DOMAIN order |-> RewardOf(order[i])]]
    BY <1>5 DEF GrantAchievements, Granted, RewardOf
  <2>. HIDE DEF worth
  <2>2. /\ order \in [1..Cardinality(worth) -> worth]
        /\ \A i, j \in 1..Cardinality(worth) : i # j => order[i] # order[j]
    BY DEF SetToSeqs
  <2>3. order \in Seq(Achievements)
    BY <1>1, <1>3, <2>2
  <2>4. \A i \in DOMAIN order : order[i] \in Granted
    BY <1>1, <2>2
  <2>. QED
    BY <2>1, <2>2, <2>3, <2>4
<1>. QED
  BY <1>4, <1>5

LEMMA TInvGrant ==
    ASSUME TInv, GrantAchievements
    PROVE  TInv'
<1>1. /\ WorkTyped /\ WorkRefers /\ work.does = "achieve"
      /\ UNCHANGED <<now, weekStart, trips, participation, call, ledger, achieved, queue, seen>>
  BY DEF GrantAchievements, Unchanged, TInv, TypeOK, InDatabase
<1>2. ItemPlayer \in Players /\ GrantTime \in Nat
  BY <1>1, ItemPlayerTyped
<1>3. CASE work' = Receiving
  BY <1>1, <1>3, WorkStep DEF WorkTyped, WorkRefers, Receiving
<1>4. ASSUME NEW order \in Seq(Achievements),
             work' = [work EXCEPT
                 !.does = "commit", !.next = "receive",
                 !.grants = {<<ItemPlayer, a>> : a \in Granted},
                 !.rows = [i \in DOMAIN order |-> RewardOf(order[i])]]
      PROVE  TInv'
  <2>. DEFINE grants == {<<ItemPlayer, a>> : a \in Granted}
              rows == [i \in DOMAIN order |-> RewardOf(order[i])]
  <2>1. grants \subseteq Players \X Achievements
    BY <1>2 DEF Granted
  <2>2. \A a \in Achievements : RewardOf(a) \in Row
    BY <1>2, PosPlayAssumption, XPFacts DEF RewardOf
  <2>3. rows \in Seq(Row)
    BY <2>2
  <2>. HIDE DEF grants, rows
  <2>4. work' = [does |-> "commit", kind |-> work.kind, item |-> work.item, rows |-> rows,
                 grants |-> grants, sends |-> work.sends, next |-> "receive"]
    BY <1>1, <1>4 DEF WorkTyped, grants, rows
  <2>5. WorkTyped'
    BY <1>1, <2>1, <2>3, <2>4 DEF WorkTyped
  <2>6. WorkRefers'
    BY <1>1, <2>4 DEF WorkRefers
  <2>. QED
    BY <1>1, <2>5, <2>6, WorkStep
<1>. QED
  BY <1>3, <1>4, GrantFacts

\* The new rows of a commit follow those of the ledger.
LEMMA ConcatFacts ==
    ASSUME NEW S, NEW s \in Seq(S), NEW t \in Seq(S)
    PROVE  /\ s \o t \in Seq(S)
           /\ DOMAIN s = 1..Len(s) /\ DOMAIN t = 1..Len(t) /\ Len(s) \in Nat /\ Len(t) \in Nat
           /\ DOMAIN (s \o t) = 1..(Len(s) + Len(t))
           /\ \A i \in DOMAIN s : i \in DOMAIN (s \o t) /\ (s \o t)[i] = s[i]
           /\ \A i \in DOMAIN t :
                  Len(s) + i \in DOMAIN (s \o t) /\ (s \o t)[Len(s) + i] = t[i]
           /\ \A i \in DOMAIN (s \o t) : i \notin DOMAIN s =>
                  i - Len(s) \in DOMAIN t /\ (s \o t)[i] = t[i - Len(s)]
OBVIOUS

LEMMA TInvCommitWork ==
    ASSUME TInv, CommitWork
    PROVE  TInv'
<1>. DEFINE sends == Announcements(work.rows)
<1>1. /\ WorkTyped /\ WorkRefers /\ work.does = "commit"
      /\ ledger \in Seq(Row) /\ ledger' = ledger \o work.rows
      /\ achieved' = achieved \cup work.grants
      /\ UNCHANGED <<now, weekStart, trips, participation, call, queue, seen>>
  BY DEF CommitWork, Unchanged, TInv, TypeOK, InDatabase, TablesTyped
<1>2. work.rows \in Seq(Row)
  BY <1>1 DEF WorkTyped
<1>3. /\ ledger' \in Seq(Row) /\ DOMAIN ledger \subseteq DOMAIN ledger'
      /\ \A i \in DOMAIN work.rows : Len(ledger) + i \in DOMAIN ledger'
      /\ DOMAIN ledger' = 1..(Len(ledger) + Len(work.rows))
      /\ DOMAIN work.rows = 1..Len(work.rows) /\ Len(ledger) \in Nat /\ Len(work.rows) \in Nat
  BY <1>1, <1>2, ConcatFacts
<1>4. \A i \in DOMAIN work.rows :
          [id |-> Len(ledger) + i, diff |-> work.rows[i].value] \in Item("xp")
  <2>. SUFFICES ASSUME NEW i \in DOMAIN work.rows
                PROVE  [id |-> Len(ledger) + i, diff |-> work.rows[i].value] \in Item("xp")
    OBVIOUS
  <2>1. work.rows[i] \in Row
    BY <1>2
  <2>2. work.rows[i].value \in Nat
    BY <2>1 DEF Row
  <2>3. Len(ledger) + i \in Nat \ {0}
    BY <1>3
  <2>. QED
    BY <2>2, <2>3, ItemFacts
<1>5. sends \in Seq(Item("xp")) /\ \A i \in DOMAIN sends : sends[i].id \in DOMAIN ledger'
  BY <1>3, <1>4 DEF Announcements
<1>. HIDE DEF sends
<1>6. work' = [does |-> "send", kind |-> work.kind, item |-> work.item, rows |-> <<>>,
               grants |-> {}, sends |-> sends, next |-> work.next]
  BY <1>1 DEF CommitWork, WorkTyped, sends
<1>7. WorkTyped'
  BY <1>1, <1>5, <1>6 DEF WorkTyped
<1>8. WorkRefers'
  BY <1>1, <1>3, <1>5, <1>6 DEF WorkRefers
<1>9. TablesTyped'
  BY <1>1, <1>3 DEF TInv, TypeOK, TablesTyped, WorkTyped
<1>10. QueuesTyped' /\ QueuesRefer'
  BY <1>1, <1>3 DEF TInv, TypeOK, InDatabase, QueuesTyped, QueuesRefer
<1>11. CallsTyped' /\ \A g \in Handlers : CallRefers(call[g])'
  BY <1>1, <1>3, CallsKept
<1>. QED
  BY <1>7, <1>8, <1>9, <1>10, <1>11 DEF TInv, TypeOK, InDatabase

\* When the processor goes on with its item, or to the next, it writes and
\* sends nothing.
LEMMA GoTyped ==
    ASSUME TInv, work.does # "receive", NEW next \in {"receive", "achieve"}, work' = Go(next),
           UNCHANGED <<trips, ledger>>
    PROVE  WorkTyped' /\ WorkRefers'
<1>1. work' = [does |-> next, kind |-> work'.kind, item |-> work'.item, rows |-> <<>>,
               grants |-> {}, sends |-> <<>>, next |-> "receive"]
  BY DEF Go, Receiving
<1>2. next = "achieve" => work'.kind = work.kind /\ work'.item = work.item
  BY DEF Go, Receiving
<1>3. <<>> \in Seq(Row) /\ <<>> \in Seq(Item("xp"))
  OBVIOUS
<1>4. next = "achieve" => work'.kind \in Kinds /\ work'.item \in Item(work'.kind)
  BY <1>2 DEF TInv, TypeOK, WorkTyped
<1>5. work'.does \in {"receive", "achieve"} /\ work'.next = "receive"
  BY <1>1
<1>6. work'.rows = <<>> /\ work'.grants = {} /\ work'.sends = <<>>
  BY <1>1
<1>7. WorkTyped'
  BY <1>1, <1>3, <1>4, <1>5, <1>6 DEF WorkTyped
<1>8. WorkRefers'
  BY <1>1, <1>2 DEF TInv, InDatabase, WorkRefers
<1>. QED
  BY <1>7, <1>8

LEMMA TInvSendWork ==
    ASSUME TInv, SendWork
    PROVE  TInv'
<1>1. /\ WorkTyped /\ WorkRefers /\ work.does = "send"
      /\ work.sends \in Seq(Item("xp")) /\ work.next \in {"receive", "achieve"}
      /\ UNCHANGED <<now, weekStart, trips, participation, call, ledger, achieved, seen>>
  BY DEF SendWork, Unchanged, TInv, TypeOK, InDatabase, WorkTyped
<1>2. CASE work.sends = <<>>
  <2>1. work' = Go(work.next) /\ UNCHANGED queue
    BY <1>2 DEF SendWork
  <2>. QED
    BY <1>1, <2>1, GoTyped, WorkStep
<1>3. CASE work.sends # <<>>
  <2>1. /\ HasRoom("xp") /\ Send("xp", Head(work.sends))
        /\ work' = [does |-> "send", kind |-> work.kind, item |-> work.item, rows |-> work.rows,
                    grants |-> work.grants, sends |-> Tail(work.sends), next |-> work.next]
    BY <1>1, <1>3 DEF SendWork, WorkTyped
  <2>2. /\ Head(work.sends) \in Item("xp") /\ Head(work.sends) = work.sends[1]
        /\ 1 \in DOMAIN work.sends /\ Tail(work.sends) \in Seq(Item("xp"))
        /\ \A i \in DOMAIN Tail(work.sends) :
               i + 1 \in DOMAIN work.sends /\ Tail(work.sends)[i] = work.sends[i + 1]
    BY <1>1, <1>3, TailFacts
  <2>3. Head(work.sends).id \in DOMAIN ledger
    BY <1>1, <2>2 DEF WorkRefers
  <2>4. QueuesTyped' /\ QueuesRefer'
    BY <1>1, <2>1, <2>2, <2>3, TInvSend DEF Kinds
  <2>5. WorkTyped'
    BY <1>1, <2>1, <2>2 DEF WorkTyped
  <2>6. WorkRefers'
    BY <1>1, <2>1, <2>2 DEF WorkRefers
  <2>7. TablesTyped'
    BY <1>1 DEF TInv, TypeOK, TablesTyped
  <2>8. CallsTyped' /\ \A g \in Handlers : CallRefers(call[g])'
    BY <1>1, CallsKept
  <2>. QED
    BY <2>4, <2>5, <2>6, <2>7, <2>8 DEF TInv, TypeOK, InDatabase
<1>. QED
  BY <1>2, <1>3

LEMMA TInvFailWork ==
    ASSUME TInv, FailWork
    PROVE  TInv'
<1>1. /\ UNCHANGED <<now, weekStart, trips, participation, call, ledger, achieved, queue, seen>>
      /\ work.does # "receive"
  BY DEF FailWork, Unchanged
<1>2. PICK next \in {"receive", "achieve"} : work' = Go(next)
  BY DEF FailWork, TInv, TypeOK, WorkTyped
<1>. QED
  BY <1>1, <1>2, GoTyped, WorkStep

LEMMA TInvNext == TInv /\ [Next]_vars => TInv'
<1>. SUFFICES ASSUME TInv, [Next]_vars
              PROVE  TInv'
  OBVIOUS
<1>1. ASSUME UNCHANGED <<trips, ledger, achieved, call, queue, work, seen>>,
             now' = now, weekStart' \in Nat, participation' \subseteq Players
      PROVE  TInv'
  <2>1. TablesTyped'
    BY <1>1 DEF TInv, TypeOK, TablesTyped
  <2>2. CallsTyped' /\ \A g \in Handlers : CallRefers(call[g])'
    BY <1>1, CallsKept
  <2>3. QueuesTyped' /\ WorkTyped' /\ QueuesRefer' /\ WorkRefers'
    BY <1>1, RestKept
  <2>. QED
    BY <2>1, <2>2, <2>3 DEF TInv, TypeOK, InDatabase
<1>2. CASE UNCHANGED vars \/ NewWeek \/ \E player \in Players : ForgetActivity(player)
  BY <1>1, <1>2 DEF vars, NewWeek, ForgetActivity, TInv, TypeOK, TablesTyped
<1>3. ASSUME NEW h \in Handlers, Begin(h) \/ Continue(h) \/ FailCall(h)
      PROVE  TInv'
  BY <1>3, TInvBegin, TInvCommitTrip, TInvMerge, TInvCommitXP, TInvRegister, TInvFailCall
  DEF Continue
<1>4. CASE Process \/ FailWork
  BY <1>4, TInvReceive, TInvRewardTrip, TInvGrant, TInvCommitWork, TInvSendWork, TInvFailWork
  DEF Process
<1>. QED
  BY <1>2, <1>3, <1>4 DEF Next

\* For any players, handlers and capacity: what is written has the types of
\* the tables, what is sent is of the channel and about rows in the database,
\* and no channel holds more than it can.
THEOREM Typing == Spec => []TInv
<1>. QED
  BY TInvInit, TInvNext, PTL DEF Spec

-----------------------------------------------------------------------------
(***************************************************************************)
(* What the processor prepares to write, whatever the handlers do.         *)
(***************************************************************************)
LEMMA WorkRowsReceive ==
    ASSUME TInv, NEW kind \in Kinds, Receive(kind)
    PROVE  WorkRows'
<1>1. work'.does \in {"reward", "achieve"} /\ work'.grants = {}
  BY DEF Receive, Receiving
<1>. QED
  BY <1>1 DEF WorkRows

LEMMA WorkRowsReward ==
    ASSUME TInv, WorkRows, RewardTrip
    PROVE  /\ work.does = "reward" /\ work'.kind = work.kind /\ work'.item = work.item /\ WorkRows'
           /\ UNCHANGED <<now, weekStart, trips, participation, call, ledger, achieved, queue>>
<1>. DEFINE row == TripReward(work.item)
<1>1. /\ WorkTyped /\ work.does = "reward" /\ work.kind \in TripKinds
      /\ UNCHANGED <<now, weekStart, trips, participation, call, ledger, achieved, queue>>
      /\ work.grants = {}
  BY DEF RewardTrip, Unchanged, TInv, TypeOK, WorkTyped, TripKinds, WorkRows
<1>2. row.type = RewardType(work.kind) /\ row.cause = work.item
  BY <1>1 DEF TripReward, XP, RewardType, TripKinds
<1>. HIDE DEF row
<1>3. \/ work' = [work EXCEPT !.does = "achieve"]
      \/ work' = [work EXCEPT !.does = "commit", !.next = "achieve", !.rows = <<row>>]
  BY DEF RewardTrip, row
<1>4. work'.kind = work.kind /\ work'.item = work.item /\ work'.grants = {}
  BY <1>1, <1>3 DEF WorkTyped
<1>5. \/ work'.does = "achieve"
      \/ work'.does = "commit" /\ work'.next = "achieve" /\ work'.rows = <<row>>
  BY <1>1, <1>3 DEF WorkTyped
<1>6. WorkRows'
  BY <1>1, <1>2, <1>4, <1>5 DEF WorkRows
<1>. QED
  BY <1>1, <1>4, <1>6

\* Only achievements that the player does not have are granted, each once.
LEMMA WorkRowsGrant ==
    ASSUME TInv, GrantAchievements
    PROVE  /\ WorkRows' /\ work'.next = "receive" /\ work'.does # "reward"
           /\ UNCHANGED <<now, weekStart, trips, participation, call, ledger, achieved, queue>>
<1>1. /\ WorkTyped /\ work.does = "achieve"
      /\ UNCHANGED <<now, weekStart, trips, participation, call, ledger, achieved, queue>>
  BY DEF GrantAchievements, Unchanged, TInv, TypeOK
<1>2. CASE work' = Receiving
  BY <1>1, <1>2 DEF WorkRows, Receiving
<1>3. ASSUME NEW order \in Seq(Achievements),
             \A i \in DOMAIN order : order[i] \in Granted,
             \A i, j \in DOMAIN order : order[i] = order[j] => i = j,
             work' = [work EXCEPT
                 !.does = "commit", !.next = "receive",
                 !.grants = {<<ItemPlayer, a>> : a \in Granted},
                 !.rows = [i \in DOMAIN order |-> RewardOf(order[i])]]
      PROVE  WorkRows' /\ work'.next = "receive" /\ work'.does # "reward"
  <2>. DEFINE player == ItemPlayer
  <2>1. /\ work'.does = "commit" /\ work'.next = "receive"
        /\ work'.grants = {<<player, a>> : a \in Granted}
        /\ work'.rows = [i \in DOMAIN order |-> RewardOf(order[i])]
    BY <1>1, <1>3 DEF WorkTyped
  <2>2. \A a : /\ RewardOf(a).type = "ACHIEVEMENT_REWARD" /\ RewardOf(a).player = player
               /\ RewardOf(a).cause = a
    BY DEF RewardOf, XP
  <2>3. \A a \in Granted : <<player, a>> \notin achieved
    BY DEF Granted, NotYetAchieved
  <2>. HIDE DEF player
  <2>4. work'.grants \cap achieved' = {}
    BY <1>1, <2>1, <2>3
  <2>5. \A i \in DOMAIN work'.rows :
            /\ i \in DOMAIN order /\ work'.rows[i].cause = order[i]
            /\ work'.rows[i].type = "ACHIEVEMENT_REWARD"
            /\ <<work'.rows[i].player, work'.rows[i].cause>> \in work'.grants
    <3>. SUFFICES ASSUME NEW i \in DOMAIN order
                  PROVE  /\ work'.rows[i].cause = order[i]
                         /\ work'.rows[i].type = "ACHIEVEMENT_REWARD"
                         /\ <<work'.rows[i].player, work'.rows[i].cause>> \in work'.grants
      BY <2>1
    <3>1. work'.rows[i] = RewardOf(order[i])
      BY <2>1
    <3>2. <<player, order[i]>> \in work'.grants
      BY <1>3, <2>1
    <3>. QED
      BY <2>2, <3>1, <3>2
  <2>6. WorkRows'
    BY <1>3, <2>1, <2>4, <2>5 DEF WorkRows, Same
  <2>. QED
    BY <2>1, <2>6
<1>. QED
  BY <1>1, <1>2, <1>3, GrantFacts

\* The rows that a commit of the processor adds to the ledger.
LEMMA CommitFacts ==
    ASSUME TInv, WorkRows, CommitWork
    PROVE  /\ DOMAIN ledger \subseteq DOMAIN ledger'
           /\ \A i \in DOMAIN ledger : ledger'[i] = ledger[i]
           /\ \A i \in DOMAIN ledger' : i \notin DOMAIN ledger =>
                  /\ work.next = "achieve" =>
                         ledger'[i].type = RewardType(work.kind) /\ ledger'[i].cause = work.item
                  /\ work.next = "receive" =>
                         /\ ledger'[i].type = "ACHIEVEMENT_REWARD"
                         /\ <<ledger'[i].player, ledger'[i].cause>> \in work.grants
                  /\ \A j \in DOMAIN ledger' :
                         j \notin DOMAIN ledger /\ Same(ledger'[i], ledger'[j]) => i = j
<1>. DEFINE rows == work.rows
            n == Len(ledger)
<1>1. /\ work.does = "commit" /\ work.next \in {"receive", "achieve"}
      /\ ledger \in Seq(Row) /\ ledger' = ledger \o rows /\ rows \in Seq(Row)
  BY DEF CommitWork, TInv, TypeOK, TablesTyped, WorkTyped
<1>2. /\ DOMAIN ledger \subseteq DOMAIN ledger'
      /\ \A i \in DOMAIN ledger : ledger'[i] = ledger[i]
      /\ \A i \in DOMAIN ledger' : i \notin DOMAIN ledger =>
             i - n \in DOMAIN rows /\ ledger'[i] = rows[i - n]
      /\ DOMAIN ledger' \subseteq Nat /\ n \in Nat
      /\ DOMAIN rows = 1..Len(rows) /\ Len(rows) \in Nat
  BY <1>1, ConcatFacts
<1>3. work.next = "achieve" =>
          /\ Len(rows) = 1
          /\ rows[1].type = RewardType(work.kind) /\ rows[1].cause = work.item
  BY <1>1 DEF WorkRows
<1>4. work.next = "receive" =>
          /\ \A i \in DOMAIN rows :
                 /\ rows[i].type = "ACHIEVEMENT_REWARD"
                 /\ <<rows[i].player, rows[i].cause>> \in work.grants
          /\ \A i, j \in DOMAIN rows : Same(rows[i], rows[j]) => i = j
  BY <1>1 DEF WorkRows
<1>. HIDE DEF rows, n
<1>5. ASSUME NEW i \in DOMAIN ledger', i \notin DOMAIN ledger, work.next = "achieve"
      PROVE  i = n + 1 /\ ledger'[i].type = RewardType(work.kind) /\ ledger'[i].cause = work.item
  <2>1. i - n \in 1..1 /\ ledger'[i] = rows[i - n] /\ i \in Nat /\ n \in Nat
    BY <1>2, <1>3, <1>5
  <2>2. i = n + 1 /\ i - n = 1
    BY <2>1
  <2>3. ledger'[i] = rows[1]
    BY <2>1, <2>2
  <2>. QED
    BY <1>3, <1>5, <2>2, <2>3
<1>6. ASSUME NEW i \in DOMAIN ledger', i \notin DOMAIN ledger, work.next = "receive"
      PROVE  /\ ledger'[i].type = "ACHIEVEMENT_REWARD"
             /\ <<ledger'[i].player, ledger'[i].cause>> \in work.grants
  BY <1>2, <1>4, <1>6
<1>7. ASSUME NEW i \in DOMAIN ledger', i \notin DOMAIN ledger,
             NEW j \in DOMAIN ledger', j \notin DOMAIN ledger, Same(ledger'[i], ledger'[j])
      PROVE  i = j
  <2>1. CASE work.next = "achieve"
    BY <1>5, <1>7, <2>1
  <2>2. CASE work.next = "receive"
    <3>1. /\ i - n \in DOMAIN rows /\ j - n \in DOMAIN rows
          /\ Same(rows[i - n], rows[j - n])
      BY <1>2, <1>7
    <3>2. i - n = j - n
      BY <1>4, <2>2, <3>1
    <3>. QED
      BY <1>2, <3>2
  <2>. QED
    BY <1>1, <2>1, <2>2
<1>. QED
  BY <1>2, <1>5, <1>6, <1>7

LEMMA WorkRowsCommit ==
    ASSUME TInv, WorkRows, AchievedRows, CommitWork
    PROVE  WorkRows' /\ AchievedRows'
<1>1. /\ WorkTyped /\ work.does = "commit" /\ work.next \in {"receive", "achieve"}
      /\ achieved' = achieved \cup work.grants
  BY DEF CommitWork, TInv, TypeOK, WorkTyped
<1>2. work'.does = "send"
  BY <1>1 DEF CommitWork, WorkTyped
<1>3. WorkRows'
  BY <1>2 DEF WorkRows
<1>4. ASSUME NEW i \in DOMAIN ledger', ledger'[i].type = "ACHIEVEMENT_REWARD"
      PROVE  <<ledger'[i].player, ledger'[i].cause>> \in achieved'
  <2>1. CASE i \in DOMAIN ledger
    BY <1>1, <1>4, <2>1, CommitFacts DEF AchievedRows
  <2>2. CASE i \notin DOMAIN ledger
    BY <1>1, <1>4, <2>2, CommitFacts DEF RewardType
  <2>. QED
    BY <2>1, <2>2
<1>. QED
  BY <1>3, <1>4 DEF AchievedRows

LEMMA WorkRowsSend ==
    ASSUME TInv, SendWork \/ FailWork
    PROVE  /\ UNCHANGED <<now, weekStart, trips, participation, call, ledger, achieved>>
           /\ \A k \in TripKinds : queue'[k] = queue[k]
           /\ WorkRows' /\ work'.does \in {"send", "receive", "achieve"}
<1>1. /\ UNCHANGED <<now, weekStart, trips, participation, call, ledger, achieved>>
      /\ WorkTyped
  BY DEF SendWork, FailWork, Unchanged, TInv, TypeOK
<1>2. /\ \A k \in TripKinds : queue'[k] = queue[k]
      /\ work'.does \in {"send", "receive", "achieve"}
  <2>1. ASSUME NEW next \in {"receive", "achieve"}, work' = Go(next)
        PROVE  work'.does \in {"receive", "achieve"}
    BY <2>1 DEF Go, Receiving
  <2>2. CASE FailWork
    <3>1. UNCHANGED queue /\ \E next \in {"receive", "achieve"} : work' = Go(next)
      BY <1>1, <2>2 DEF FailWork, WorkTyped
    <3>. QED
      BY <2>1, <3>1
  <2>3. CASE SendWork /\ work.sends = <<>>
    <3>1. UNCHANGED queue /\ \E next \in {"receive", "achieve"} : work' = Go(next)
      BY <1>1, <2>3 DEF SendWork, WorkTyped
    <3>. QED
      BY <2>1, <3>1
  <2>4. CASE SendWork /\ work.sends # <<>>
    <3>1. /\ queue' = [queue EXCEPT !["xp"] = Append(@, Head(work.sends))]
          /\ work' = [work EXCEPT !.sends = Tail(@)] /\ work.does = "send"
      BY <2>4 DEF SendWork, Send
    <3>2. work'.does = "send"
      BY <1>1, <3>1 DEF WorkTyped
    <3>3. \A k \in TripKinds : queue'[k] = queue[k]
      BY <3>1 DEF TripKinds, TInv, TypeOK, QueuesTyped, Kinds
    <3>. QED
      BY <3>2, <3>3
  <2>. QED
    BY <2>2, <2>3, <2>4
<1>3. WorkRows'
  BY <1>2 DEF WorkRows
<1>. QED
  BY <1>1, <1>2, <1>3

-----------------------------------------------------------------------------
(***************************************************************************)
(* Achievements need no hypothesis: the processor alone grants them, and   *)
(* the rows that the bot's handlers rewrite are of messages.               *)
(***************************************************************************)
AchievedOnce ==
    \A i, j \in DOMAIN ledger :
        SameReward(i, j) /\ ledger[i].type = "ACHIEVEMENT_REWARD" => i = j

\* What a handler of the bot is to write, and to merge.
OfTheBot(h) ==
    LET write == call[h].write
    IN  /\ write.row.type \in {"DISCORD_PARTICIPATION", "DISCORD_REACTION_EVENT"}
        /\ call[h].does = "merge" => write.id = 0 /\ write.row.type = "DISCORD_PARTICIPATION"
        /\ write.id # 0 => /\ write.row.type = "DISCORD_PARTICIPATION"
                           /\ ledger[write.id].type = "DISCORD_PARTICIPATION"

AInv ==
    /\ WorkRows /\ AchievedRows /\ AchievedOnce
    /\ \A h \in Handlers : WritesXP(h) => OfTheBot(h)

LEMMA AInvInit == Init => AInv
<1>. SUFFICES ASSUME Init
              PROVE  AInv
  OBVIOUS
<1>1. \A h \in Handlers : ~WritesXP(h)
  BY DEF Init, Idle, WritesXP
<1>2. work.does = "receive" /\ DOMAIN ledger = {}
  BY DEF Init, Receiving
<1>. QED
  BY <1>1, <1>2 DEF AInv, WorkRows, AchievedRows, AchievedOnce

\* A handler's step that does not touch the ledger.
LEMMA AInvCall ==
    ASSUME AInv, UNCHANGED <<ledger, achieved, work>>, NEW h \in Handlers,
           \A g \in Handlers : g # h => call'[g] = call[g],
           WritesXP(h)' => OfTheBot(h)'
    PROVE  AInv'
<1>1. WorkRows' /\ AchievedRows' /\ AchievedOnce'
  BY DEF AInv, WorkRows, AchievedRows, AchievedOnce, SameReward
<1>2. \A g \in Handlers : g # h /\ WritesXP(g)' => OfTheBot(g)'
  BY DEF AInv, WritesXP, OfTheBot
<1>. QED
  BY <1>1, <1>2 DEF AInv

LEMMA AInvBegin ==
    ASSUME TInv, AInv, NEW h \in Handlers, Begin(h)
    PROVE  AInv'
<1>1. /\ UNCHANGED <<ledger, achieved, work>> /\ DOMAIN call = Handlers
      /\ \A g \in Handlers : g # h => call'[g] = call[g]
  BY DEF Begin, PostTrip, PutTrip, PostReport, React, Message, Set, TInv, TypeOK, CallsTyped
<1>2. ASSUME NEW t \in Trips, PostTrip(h, t) \/ PutTrip(h, t)
      PROVE  ~WritesXP(h)'
  <2>1. call'[h].send \in {"trips", "edits", "none"}
    BY <1>1, <1>2 DEF PostTrip, PutTrip, FirstEdit, Set, Idle
  <2>. QED
    BY <2>1 DEF WritesXP
<1>3. ASSUME NEW player \in Players, PostReport(h, player)
      PROVE  ~WritesXP(h)'
  <2>1. call'[h].send = "reports"
    BY <1>1, <1>3 DEF PostReport, Set, Idle
  <2>. QED
    BY <2>1 DEF WritesXP
<1>4. ASSUME NEW player \in Players, NEW event \in Events, React(h, player, event)
      PROVE  OfTheBot(h)'
  <2>1. /\ call'[h].does = "commit" /\ call'[h].write.id = 0
        /\ call'[h].write.row.type = "DISCORD_REACTION_EVENT"
    BY <1>1, <1>4 DEF React, Set, Idle, Insert, XP
  <2>. QED
    BY <2>1 DEF OfTheBot
<1>5. ASSUME NEW player \in Players, Message(h, player)
      PROVE  OfTheBot(h)'
  <2>1. call'[h].write.id = 0 /\ call'[h].write.row.type = "DISCORD_PARTICIPATION"
    BY <1>1, <1>5 DEF Message, Set, Idle, Insert, XP
  <2>. QED
    BY <2>1 DEF OfTheBot
<1>6. WritesXP(h)' => OfTheBot(h)'
  BY <1>2, <1>3, <1>4, <1>5 DEF Begin
<1>. QED
  BY <1>1, <1>6, AInvCall

LEMMA AInvMerge ==
    ASSUME TInv, AInv, NEW h \in Handlers, Merge(h)
    PROVE  AInv'
<1>. DEFINE c == call[h]
            row == c.write.row
<1>1. /\ CallTyped(c) /\ c.does = "merge" /\ c.send = "xp" /\ c.write \in Write
      /\ UNCHANGED <<ledger, achieved, work>> /\ DOMAIN call = Handlers
      /\ \A g \in Handlers : g # h => call'[g] = call[g]
  BY DEF Merge, Set, TInv, TypeOK, CallsTyped, CallTyped
<1>2. c.write.id = 0 /\ row.type = "DISCORD_PARTICIPATION" /\ row \in Row
  BY <1>1 DEF AInv, OfTheBot, WritesXP, Write
<1>3. /\ call'[h].does = "commit"
      /\ \/ call'[h].write = c.write
         \/ \E i \in LastRows(row.player) :
                /\ MergesWith(row, ledger[i])
                /\ call'[h].write = [id |-> i, diff |-> row.value,
                                     row |-> [row EXCEPT !.value = @ + ledger[i].value]]
  <2>1. CASE call' = [call EXCEPT ![h] = [c EXCEPT !.does = "commit"]]
    BY <1>1, <2>1 DEF CallTyped
  <2>2. ASSUME NEW i \in LastRows(row.player),
               call' = [call EXCEPT ![h] = [c EXCEPT !.does = "commit",
                   !.write = IF MergesWith(row, ledger[i])
                             THEN [id |-> i, diff |-> row.value,
                                   row |-> [row EXCEPT !.value = @ + ledger[i].value]]
                             ELSE @]]
        PROVE  /\ call'[h].does = "commit"
               /\ \/ call'[h].write = c.write
                  \/ /\ MergesWith(row, ledger[i])
                     /\ call'[h].write = [id |-> i, diff |-> row.value,
                                          row |-> [row EXCEPT !.value = @ + ledger[i].value]]
    BY <1>1, <2>2 DEF CallTyped
  <2>. QED
    BY <2>1, <2>2 DEF Merge, Set
<1>4. OfTheBot(h)'
  <2>1. CASE call'[h].write = c.write
    BY <1>2, <1>3, <2>1 DEF OfTheBot
  <2>2. ASSUME NEW i, MergesWith(row, ledger[i]),
               call'[h].write = [id |-> i, diff |-> row.value,
                                 row |-> [row EXCEPT !.value = @ + ledger[i].value]]
        PROVE  OfTheBot(h)'
    <3>1. /\ call'[h].write.id = i /\ call'[h].write.row.type = row.type
          /\ ledger'[i].type = row.type
      BY <1>1, <1>2, <2>2 DEF Row, MergesWith
    <3>. QED
      BY <1>2, <1>3, <3>1 DEF OfTheBot
  <2>. QED
    BY <1>3, <2>1, <2>2
<1>. QED
  BY <1>1, <1>4, AInvCall

\* The row that a handler of the bot writes is of no achievement, and was of
\* none: what others are about to merge with stays of messages.
LEMMA AInvCommitXP ==
    ASSUME TInv, AInv, NEW h \in Handlers, CommitXP(h)
    PROVE  AInv'
<1>. DEFINE c == call[h]
            new == c.write.row
            id == ID(c.write)
<1>1. /\ CallTyped(c) /\ CallRefers(c) /\ WritesXP(h) /\ c.does = "commit" /\ c.send = "xp"
      /\ UNCHANGED <<achieved, work>>
      /\ ledger' = Written(ledger, c.write) /\ ledger \in Seq(Row)
      /\ \A g \in Handlers : g # h => call'[g] = call[g]
      /\ call'[h].does = "send"
  BY DEF CommitXP, Set, Idle, WritesXP, TInv, TypeOK, InDatabase, CallsTyped, TablesTyped
<1>2. c.write \in Write /\ (c.write.id = 0 \/ c.write.id \in DOMAIN ledger)
  BY <1>1 DEF CallTyped, CallRefers
<1>3. /\ DOMAIN ledger' = DOMAIN ledger \cup {id} /\ ledger'[id] = new
      /\ \A i \in DOMAIN ledger : i # id => ledger'[i] = ledger[i]
      /\ c.write.id = 0 => id \notin DOMAIN ledger
      /\ c.write.id # 0 => id = c.write.id
  BY <1>1, <1>2, WrittenFacts
<1>4. /\ new.type \in {"DISCORD_PARTICIPATION", "DISCORD_REACTION_EVENT"}
      /\ id \in DOMAIN ledger => /\ ledger[id].type = "DISCORD_PARTICIPATION"
                                 /\ new.type = "DISCORD_PARTICIPATION"
  BY <1>1, <1>3 DEF AInv, OfTheBot
<1>. HIDE DEF new, id, c
<1>5. \A i \in DOMAIN ledger' : ledger'[i].type = "ACHIEVEMENT_REWARD" =>
          i \in DOMAIN ledger /\ ledger'[i] = ledger[i]
  BY <1>3, <1>4
<1>6. WorkRows' /\ AchievedRows'
  BY <1>1, <1>5 DEF AInv, WorkRows, AchievedRows
<1>7. AchievedOnce'
  <2>. SUFFICES ASSUME NEW i \in DOMAIN ledger', NEW j \in DOMAIN ledger', SameReward(i, j)',
                       ledger'[i].type = "ACHIEVEMENT_REWARD"
                PROVE  i = j
    BY DEF AchievedOnce
  <2>1. ledger'[j].type = "ACHIEVEMENT_REWARD"
    BY DEF SameReward
  <2>. QED
    BY <1>5, <2>1 DEF AInv, AchievedOnce, SameReward
<1>8. ASSUME NEW g \in Handlers, WritesXP(g)'
      PROVE  OfTheBot(g)'
  <2>1. g # h
    BY <1>1, <1>8 DEF WritesXP
  <2>2. call'[g] = call[g] /\ WritesXP(g) /\ OfTheBot(g) /\ CallRefers(call[g])
    BY <1>1, <1>8, <2>1 DEF WritesXP, AInv, TInv, InDatabase
  <2>3. \A i \in DOMAIN ledger : ledger[i].type = "DISCORD_PARTICIPATION" =>
            ledger'[i].type = "DISCORD_PARTICIPATION"
    BY <1>3, <1>4
  <2>4. call[g].write.id # 0 => call[g].write.id \in DOMAIN ledger
    BY <2>2 DEF CallRefers, WritesXP
  <2>. QED
    BY <2>2, <2>3, <2>4 DEF OfTheBot
<1>. QED
  BY <1>6, <1>7, <1>8 DEF AInv

\* What the processor commits has no twin among the achievements' rows.
LEMMA AInvCommitWork ==
    ASSUME TInv, AInv, CommitWork
    PROVE  AInv'
<1>1. /\ work.does = "commit" /\ work.next \in {"receive", "achieve"} /\ UNCHANGED call
  BY DEF CommitWork, Unchanged, TInv, TypeOK, WorkTyped
<1>2. /\ DOMAIN ledger \subseteq DOMAIN ledger'
      /\ \A i \in DOMAIN ledger : ledger'[i] = ledger[i]
  BY CommitFacts DEF AInv
<1>3. WorkRows' /\ AchievedRows'
  BY WorkRowsCommit DEF AInv
<1>4. ASSUME NEW i \in DOMAIN ledger', NEW j \in DOMAIN ledger', i \notin DOMAIN ledger,
             Same(ledger'[i], ledger'[j]), ledger'[i].type = "ACHIEVEMENT_REWARD"
      PROVE  i = j
  <2>1. work.next = "receive" /\ <<ledger'[i].player, ledger'[i].cause>> \in work.grants
    BY <1>1, <1>4, CommitFacts DEF AInv, RewardType
  <2>2. j \notin DOMAIN ledger
    BY <1>1, <1>2, <1>4, <2>1 DEF AInv, WorkRows, AchievedRows, Same
  <2>. QED
    BY <1>4, <2>2, CommitFacts DEF AInv
<1>5. AchievedOnce'
  <2>. SUFFICES ASSUME NEW i \in DOMAIN ledger', NEW j \in DOMAIN ledger', SameReward(i, j)',
                       ledger'[i].type = "ACHIEVEMENT_REWARD"
                PROVE  i = j
    BY DEF AchievedOnce
  <2>1. /\ Same(ledger'[i], ledger'[j]) /\ Same(ledger'[j], ledger'[i])
        /\ ledger'[j].type = "ACHIEVEMENT_REWARD"
    BY DEF SameReward, Same
  <2>2. CASE i \in DOMAIN ledger /\ j \in DOMAIN ledger
    BY <1>2, <2>2 DEF AInv, AchievedOnce, SameReward
  <2>. QED
    BY <1>4, <2>1, <2>2
<1>6. ASSUME NEW h \in Handlers, WritesXP(h)'
      PROVE  OfTheBot(h)'
  <2>1. WritesXP(h) /\ OfTheBot(h) /\ CallRefers(call[h])
    BY <1>1, <1>6 DEF WritesXP, AInv, TInv, InDatabase
  <2>2. call[h].write.id # 0 => call[h].write.id \in DOMAIN ledger
    BY <2>1 DEF CallRefers, WritesXP
  <2>. QED
    BY <1>1, <1>2, <2>1, <2>2 DEF OfTheBot
<1>. QED
  BY <1>3, <1>5, <1>6 DEF AInv

LEMMA AInvNext == TInv /\ AInv /\ [Next]_vars => AInv'
<1>. SUFFICES ASSUME TInv, AInv, [Next]_vars
              PROVE  AInv'
  OBVIOUS
<1>1. ASSUME UNCHANGED <<ledger, achieved, call>>, WorkRows'
      PROVE  AInv'
  BY <1>1 DEF AInv, AchievedRows, AchievedOnce, SameReward, WritesXP, OfTheBot
<1>2. CASE UNCHANGED vars \/ NewWeek \/ \E player \in Players : ForgetActivity(player)
  <2>1. UNCHANGED <<ledger, achieved, call, work>>
    BY <1>2 DEF vars, NewWeek, ForgetActivity
  <2>. QED
    BY <1>1, <2>1 DEF AInv, WorkRows
<1>3. ASSUME NEW h \in Handlers, CommitTrip(h) \/ Register(h) \/ FailCall(h)
      PROVE  AInv'
  <2>1. /\ UNCHANGED <<ledger, achieved, work>>
        /\ \A g \in Handlers : g # h => call'[g] = call[g]
        /\ CallTyped(call[h]) /\ DOMAIN call = Handlers
    BY <1>3 DEF CommitTrip, Register, FailCall, Set, TInv, TypeOK, CallsTyped
  <2>2. call'[h] = Idle \/ call'[h] = [call[h] EXCEPT !.does = "send"]
    BY <1>3, <2>1 DEF CommitTrip, Register, FailCall, Set
  <2>3. ~WritesXP(h)'
    BY <2>1, <2>2 DEF WritesXP, Idle, CallTyped
  <2>. QED
    BY <2>1, <2>3, AInvCall
<1>4. ASSUME NEW h \in Handlers, Begin(h) \/ Continue(h) \/ FailCall(h)
      PROVE  AInv'
  BY <1>3, <1>4, AInvBegin, AInvMerge, AInvCommitXP DEF Continue
<1>5. CASE Process \/ FailWork
  <2>1. ASSUME NEW kind \in Kinds, Receive(kind)
        PROVE  WorkRows' /\ UNCHANGED <<ledger, achieved, call>>
    BY <2>1, WorkRowsReceive DEF Receive, Unchanged
  <2>2. RewardTrip => WorkRows' /\ UNCHANGED <<ledger, achieved, call>>
    BY WorkRowsReward DEF AInv
  <2>3. GrantAchievements => WorkRows' /\ UNCHANGED <<ledger, achieved, call>>
    BY WorkRowsGrant
  <2>4. SendWork \/ FailWork => WorkRows' /\ UNCHANGED <<ledger, achieved, call>>
    BY WorkRowsSend
  <2>. QED
    BY <1>1, <1>5, <2>1, <2>2, <2>3, <2>4, AInvCommitWork DEF Process
<1>. QED
  BY <1>2, <1>4, <1>5 DEF Next

\* Whatever calls overlap, commit in any order or fail, and however the
\* processor's own rewards lead to further levels: an achievement gives its XP to
\* a player once. forEachAchievement reads what the player has and a later
\* transaction writes it, but only one goroutine does so.
THEOREM AchievementsRewardedOnce == Spec => []AchievedOnce
<1>1. AInv => AchievedOnce
  BY DEF AInv
<1>. QED
  BY <1>1, AInvInit, AInvNext, Typing, PTL DEF Spec

-----------------------------------------------------------------------------
(***************************************************************************)
(* What follows holds as long as calls about the same thing are apart.     *)
(***************************************************************************)
LEMMA RInvInit == Init => RInv
<1>. SUFFICES ASSUME Init
              PROVE  RInv
  OBVIOUS
<1>1. \A h \in Handlers : call[h].does = "nothing"
  BY DEF Init, Idle
<1>2. work.does = "receive" /\ \A k \in TripKinds : DOMAIN queue[k] = {}
  BY DEF Init, Receiving, TripKinds, Kinds
<1>3. DOMAIN ledger = {}
  BY DEF Init
<1>4. TripsOnce
  BY <1>1, <1>2, <1>3
  DEF TripsOnce, TripsToCommit, WritesTrip, ItemsApart, Sends, Queued, InWork, Rewarded
<1>5. WorkRows /\ AchievedRows /\ RewardedOnce
  BY <1>2, <1>3 DEF WorkRows, AchievedRows, RewardedOnce
<1>6. CallRows
  BY <1>1, <1>3 DEF Init, CallRows, WritesXP
<1>. QED
  BY <1>4, <1>5, <1>6 DEF RInv

\* The handlers of the bot keep what they are to write while rows of other
\* types are added.
LEMMA CallRowsKept ==
    ASSUME TInv, TInv', CallRows, weekStart' = weekStart, now <= now',
           DOMAIN ledger \subseteq DOMAIN ledger',
           \A i \in DOMAIN ledger : ledger'[i] = ledger[i],
           \A i \in DOMAIN ledger' : i \notin DOMAIN ledger =>
               ledger'[i].type \notin {"DISCORD_PARTICIPATION", "DISCORD_REACTION_EVENT"},
           \A h \in Handlers : WritesXP(h)' => call'[h] = call[h]
    PROVE  CallRows'
<1>1. weekStart \in Nat /\ now \in Nat /\ now' \in Nat /\ ledger \in Seq(Row)
  BY DEF TInv, TypeOK, TablesTyped
<1>2. weekStart' <= now'
  BY <1>1 DEF CallRows
<1>3. \A i \in DOMAIN ledger' :
          ledger'[i].type = "DISCORD_PARTICIPATION" => ParticipationRow(ledger'[i])
  BY DEF CallRows
<1>4. ASSUME NEW h \in Handlers, WritesXP(h)'
      PROVE  XPToWrite(h)'
  <2>1. WritesXP(h) /\ XPToWrite(h) /\ call'[h] = call[h]
    BY <1>4 DEF WritesXP, CallRows
  <2>. DEFINE write == call[h].write
  <2>2. write \in Write /\ (write.id = 0 \/ write.id \in DOMAIN ledger)
    BY <2>1 DEF TInv, TypeOK, InDatabase, CallsTyped, CallTyped, CallRefers, WritesXP
  <2>3. write.row \in Row /\ write.row.time \in Nat
    BY <2>2 DEF Write, Row
  <2>4. write.row.time <= now'
    BY <1>1, <2>1, <2>3 DEF XPToWrite
  <2>5. write.row.type = "DISCORD_REACTION_EVENT" =>
            \A i \in DOMAIN ledger' : ~Same(ledger'[i], write.row)
    BY <2>1 DEF XPToWrite, Same
  <2>. QED
    BY <2>1, <2>2, <2>4, <2>5 DEF XPToWrite
<1>. QED
  BY <1>2, <1>3, <1>4 DEF CallRows

\* The items of trips are where they were, as long as nothing is forgotten
\* and nothing appears.
LEMMA ItemsKept ==
    ASSUME NEW k \in TripKinds, NEW t \in Trips, ItemsApart(k, t), UNCHANGED queue[k],
           Registered(k, t) => Registered(k, t)',
           \A h \in Handlers : Sends(h, k, t)' => Sends(h, k, t),
           InWork(k, t)' => InWork(k, t),
           Rewarded(k, t)' => Rewarded(k, t)
    PROVE  ItemsApart(k, t)'
<1>1. Queued(k, t)' <=> Queued(k, t)
  BY DEF Queued
<1>. QED
  BY <1>1 DEF ItemsApart

LEMMA TripsKept ==
    ASSUME TripsOnce, UNCHANGED trips, \A k \in TripKinds : queue'[k] = queue[k],
           \A h \in Handlers : /\ WritesTrip(h)' => call'[h] = call[h]
                               /\ call'[h] = call[h] \/ ~(call'[h].does = "send")
                                     \/ call'[h].send \notin TripKinds,
           \A k \in TripKinds, t \in Trips :
               /\ InWork(k, t)' => InWork(k, t)
               /\ Rewarded(k, t)' => Rewarded(k, t)
    PROVE  TripsOnce'
<1>1. TripsToCommit'
  BY DEF TripsOnce, TripsToCommit, WritesTrip, Registered
<1>2. ASSUME NEW k \in TripKinds, NEW t \in Trips
      PROVE  ItemsApart(k, t)'
  <2>1. ItemsApart(k, t)
    BY DEF TripsOnce
  <2>2. Registered(k, t)' <=> Registered(k, t)
    BY DEF Registered
  <2>3. \A h \in Handlers : Sends(h, k, t)' => Sends(h, k, t)
    BY DEF Sends
  <2>. QED
    BY <2>1, <2>2, <2>3, ItemsKept
<1>. QED
  BY <1>1, <1>2 DEF TripsOnce

\* A step that does not touch the ledger, nor what the processor writes.
LEMMA RowsKept ==
    ASSUME RInv, UNCHANGED <<ledger, achieved, work>>
    PROVE  WorkRows' /\ AchievedRows' /\ RewardedOnce'
BY DEF RInv, WorkRows, AchievedRows, RewardedOnce, SameReward

LEMMA RInvBegin ==
    ASSUME TInv, TInv', RInv, NEW h \in Handlers, Begin(h)
    PROVE  RInv'
<1>1. /\ UNCHANGED <<weekStart, trips, ledger, achieved, queue, work, seen>>
      /\ now \in Nat /\ now' = now + 2
      /\ DOMAIN call' = Handlers
      /\ \A g \in Handlers : g # h => call'[g] = call[g]
      /\ call[h].does = "nothing"
  BY DEF Begin, PostTrip, PutTrip, PostReport, React, Message, Set, Stamp, IsIdle, TInv, TypeOK,
         TablesTyped, CallsTyped
<1>2. WorkRows' /\ AchievedRows' /\ RewardedOnce'
  BY <1>1, RowsKept
<1>3. \A k \in TripKinds, t \in Trips :
          /\ Rewarded(k, t)' <=> Rewarded(k, t)
          /\ InWork(k, t)' <=> InWork(k, t)
          /\ Registered(k, t)' <=> Registered(k, t)
  BY <1>1 DEF Rewarded, InWork, Registered
<1>4. ASSUME NEW t \in Trips, PostTrip(h, t) \/ PutTrip(h, t)
      PROVE  TripsOnce' /\ CallRows'
  <2>1. /\ call'[h].does = "commit" /\ call'[h].item = t
        /\ \/ t \notin DOMAIN trips /\ call'[h].send = "trips"
           \/ /\ t \in DOMAIN trips /\ trips[t] \in Trip
              /\ call'[h].send = FirstEdit(trips[t])
              /\ call'[h].trip = [trips[t] EXCEPT !.edited = TRUE, !.editedAt = now']
    BY <1>1, <1>4 DEF PostTrip, PutTrip, Set, Idle, TInv, TypeOK, TablesTyped, CallsTyped
  <2>2. /\ call'[h].send \in TripKinds => ~Registered(call'[h].send, t)
        /\ call'[h].send # "trips" => call'[h].trip.edited
        /\ call'[h].send # "xp"
    BY <2>1 DEF FirstEdit, Registered, TripKinds, Trip
  <2>3. TripsToCommit'
    BY <1>1, <2>1, <2>2 DEF RInv, TripsOnce, TripsToCommit, WritesTrip, Registered
  <2>4. \A k \in TripKinds, u \in Trips : ItemsApart(k, u)'
    <3>. SUFFICES ASSUME NEW k \in TripKinds, NEW u \in Trips
                  PROVE  ItemsApart(k, u)'
      OBVIOUS
    <3>1. \A g \in Handlers : Sends(g, k, u)' => Sends(g, k, u)
      BY <1>1, <2>1 DEF Sends
    <3>2. ItemsApart(k, u) /\ UNCHANGED queue[k]
      BY <1>1 DEF RInv, TripsOnce
    <3>. QED
      BY <1>3, <3>1, <3>2, ItemsKept
  <2>5. \A g \in Handlers : WritesXP(g)' => call'[g] = call[g]
    BY <1>1, <2>2 DEF WritesXP
  <2>. QED
    BY <1>1, <2>3, <2>4, <2>5, CallRowsKept DEF RInv, TripsOnce
<1>5. ASSUME call'[h].send \in {"reports", "xp"}
      PROVE  TripsOnce'
  <2>1. ~WritesTrip(h)' /\ call'[h].send \notin TripKinds
    <3>1. CallTyped(call[h])'
      BY DEF TInv, TypeOK, CallsTyped
    <3>. QED
      BY <1>5, <3>1 DEF WritesTrip, CallTyped, TripKinds
  <2>. QED
    BY <1>1, <1>3, <2>1, TripsKept DEF RInv, TripKinds, WritesTrip
<1>6. ASSUME NEW player \in Players, PostReport(h, player)
      PROVE  TripsOnce' /\ CallRows'
  <2>1. call'[h].does = "send" /\ call'[h].send = "reports"
    BY <1>1, <1>6 DEF PostReport, Set, Idle, TInv, TypeOK, CallsTyped
  <2>2. \A g \in Handlers : WritesXP(g)' => call'[g] = call[g]
    BY <1>1, <2>1 DEF WritesXP
  <2>. QED
    BY <1>1, <1>5, <2>1, <2>2, CallRowsKept DEF RInv
<1>7. ASSUME call'[h].send = "xp", XPToWrite(h)'
      PROVE  TripsOnce' /\ CallRows'
  <2>1. \A g \in Handlers : g # h /\ WritesXP(g)' => XPToWrite(g)'
    <3>. SUFFICES ASSUME NEW g \in Handlers, g # h, WritesXP(g)'
                  PROVE  XPToWrite(g)'
      OBVIOUS
    <3>1. call'[g] = call[g] /\ WritesXP(g) /\ XPToWrite(g)
      BY <1>1 DEF WritesXP, RInv, CallRows
    <3>2. call[g].write.row.time \in Nat
      BY <3>1 DEF WritesXP, TInv, TypeOK, CallsTyped, CallTyped, Write, Row
    <3>3. call[g].write.row.time <= now'
      BY <1>1, <3>1, <3>2 DEF XPToWrite
    <3>. QED
      BY <1>1, <3>1, <3>3 DEF XPToWrite
  <2>2. weekStart' <= now'
    BY <1>1 DEF RInv, CallRows, TInv, TypeOK, TablesTyped
  <2>. QED
    BY <1>1, <1>5, <1>7, <2>1, <2>2 DEF RInv, CallRows
<1>8. ASSUME NEW player \in Players, NEW event \in Events, React(h, player, event)
      PROVE  TripsOnce' /\ CallRows'
  <2>1. /\ call'[h].does = "commit" /\ call'[h].send = "xp"
        /\ call'[h].write = [id |-> 0, diff |-> 1, row |->
               [player |-> player, type |-> "DISCORD_REACTION_EVENT", cause |-> event,
                time |-> now', value |-> 1]]
    BY <1>1, <1>8 DEF React, Set, Idle, Insert, XP, TInv, TypeOK, CallsTyped
  <2>2. \A i \in DOMAIN ledger : ~Same(ledger[i], call'[h].write.row)
    BY <1>8, <2>1 DEF React, EarlierWins, RewardsFor, RowsOf, Same
  <2>3. XPToWrite(h)'
    BY <1>1, <2>1, <2>2 DEF XPToWrite
  <2>. QED
    BY <1>7, <2>1, <2>3
<1>9. ASSUME NEW player \in Players, Message(h, player)
      PROVE  TripsOnce' /\ CallRows'
  <2>1. /\ call'[h].does = "merge" /\ call'[h].send = "xp"
        /\ call'[h].write = [id |-> 0, diff |-> 1, row |->
               [player |-> player, type |-> "DISCORD_PARTICIPATION", cause |-> "none",
                time |-> now', value |-> 1]]
    BY <1>1, <1>9 DEF Message, Set, Idle, Insert, XP, TInv, TypeOK, CallsTyped
  <2>2. XPToWrite(h)'
    BY <1>1, <2>1 DEF XPToWrite, ParticipationRow
  <2>. QED
    BY <1>7, <2>1, <2>2
<1>. QED
  BY <1>2, <1>4, <1>6, <1>8, <1>9 DEF Begin, RInv

\* A trip that is committed has not been registered, unless nothing is sent.
LEMMA RInvCommitTrip ==
    ASSUME TInv, TInv', RInv, CallsApart, NEW h \in Handlers, CommitTrip(h)
    PROVE  RInv'
<1>. DEFINE c == call[h]
<1>1. /\ CallTyped(c) /\ WritesTrip(h)
      /\ UNCHANGED <<now, weekStart, ledger, achieved, participation, queue, work, seen>>
      /\ DOMAIN trips' = DOMAIN trips \cup {c.item}
      /\ trips'[c.item] = c.trip
      /\ \A t \in DOMAIN trips : t # c.item => trips'[t] = trips[t]
      /\ \A g \in Handlers : g # h => call'[g] = call[g]
      /\ now \in Nat
  BY DEF CommitTrip, Set, WritesTrip, TInv, TypeOK, CallsTyped, TablesTyped
<1>2. c.send \in {"trips", "edits", "none"}
  BY <1>1 DEF WritesTrip, CallTyped
<1>3. /\ call'[h] = IF c.send = "none" THEN Idle
                    ELSE [does |-> "send", write |-> c.write, trip |-> c.trip,
                          send |-> c.send, item |-> c.item]
  BY <1>1 DEF CommitTrip, Set, TInv, TypeOK, CallsTyped, CallTyped
<1>4. /\ c.send \in TripKinds => ~Registered(c.send, c.item)
      /\ c.send # "trips" => c.trip.edited
  BY <1>1 DEF RInv, TripsOnce, TripsToCommit
<1>5. WorkRows' /\ AchievedRows' /\ RewardedOnce'
  BY <1>1, RowsKept
<1>6. CallRows'
  <2>1. \A g \in Handlers : WritesXP(g)' => call'[g] = call[g]
    BY <1>1, <1>3 DEF WritesXP, Idle
  <2>. QED
    BY <1>1, <2>1, CallRowsKept DEF RInv
<1>7. TripsToCommit'
  <2>. SUFFICES ASSUME NEW g \in Handlers, WritesTrip(g)'
                PROVE  (/\ call[g].send \in TripKinds => ~Registered(call[g].send, call[g].item)
                        /\ call[g].send # "trips" => call[g].trip.edited)'
    BY DEF TripsToCommit
  <2>1. g # h
    BY <1>3 DEF WritesTrip, Idle
  <2>2. call'[g] = call[g] /\ WritesTrip(g) /\ call[g].item # c.item
    BY <1>1, <2>1 DEF WritesTrip, CallsApart
  <2>. QED
    BY <1>1, <2>2 DEF RInv, TripsOnce, TripsToCommit, Registered
<1>8. ASSUME NEW k \in TripKinds, NEW t \in Trips
      PROVE  ItemsApart(k, t)'
  <2>1. Registered(k, t) => Registered(k, t)'
    BY <1>1, <1>2, <1>4 DEF Registered, TripKinds
  <2>2. /\ ItemsApart(k, t) /\ UNCHANGED queue[k]
        /\ InWork(k, t)' <=> InWork(k, t)
        /\ Rewarded(k, t)' <=> Rewarded(k, t)
        /\ Queued(k, t)' <=> Queued(k, t)
    BY <1>1 DEF RInv, TripsOnce, InWork, Rewarded, Queued
  <2>3. \A g \in Handlers : g # h => (Sends(g, k, t)' <=> Sends(g, k, t))
    BY <1>1 DEF Sends
  <2>4. CASE c.send = k /\ c.item = t
    <3>1. ~Registered(k, t) /\ Registered(k, t)'
      BY <1>1, <1>4, <2>4 DEF Registered, TripKinds
    <3>. QED
      BY <2>2, <2>3, <3>1 DEF ItemsApart
  <2>5. CASE ~(c.send = k /\ c.item = t)
    <3>1. ~Sends(h, k, t)'
      BY <1>3, <2>5 DEF Sends, Idle
    <3>. QED
      BY <2>1, <2>2, <2>3, <3>1, ItemsKept
  <2>. QED
    BY <2>4, <2>5
<1>. QED
  BY <1>5, <1>6, <1>7, <1>8 DEF RInv, TripsOnce

\* What a merge is to update is a row of messages of this week.
LEMMA RInvMerge ==
    ASSUME TInv, TInv', RInv, NEW h \in Handlers, Merge(h)
    PROVE  RInv'
<1>. DEFINE c == call[h]
            row == c.write.row
<1>1. /\ CallTyped(c) /\ c.does = "merge" /\ c.send = "xp" /\ c.write \in Write
      /\ UNCHANGED <<now, weekStart, trips, ledger, achieved, participation, queue, work, seen>>
      /\ \A g \in Handlers : g # h => call'[g] = call[g]
      /\ now \in Nat /\ weekStart \in Nat /\ ledger \in Seq(Row)
  BY DEF Merge, Set, TInv, TypeOK, CallsTyped, TablesTyped, CallTyped
<1>2. XPToWrite(h) /\ row \in Row
  BY <1>1 DEF RInv, CallRows, WritesXP, Write
<1>3. ParticipationRow(row) /\ c.write.id = 0 /\ row.time <= now
  BY <1>1, <1>2 DEF XPToWrite
<1>4. /\ call'[h].does = "commit" /\ call'[h].send = "xp"
      /\ \/ call'[h].write = c.write
         \/ \E i \in LastRows(row.player) :
                /\ MergesWith(row, ledger[i])
                /\ call'[h].write = [id |-> i, diff |-> row.value,
                                     row |-> [row EXCEPT !.value = @ + ledger[i].value]]
  <2>1. CASE call' = [call EXCEPT ![h] = [c EXCEPT !.does = "commit"]]
    BY <1>1, <2>1 DEF TInv, TypeOK, CallsTyped, CallTyped
  <2>2. ASSUME NEW i \in LastRows(row.player),
               call' = [call EXCEPT ![h] = [c EXCEPT !.does = "commit",
                   !.write = IF MergesWith(row, ledger[i])
                             THEN [id |-> i, diff |-> row.value,
                                   row |-> [row EXCEPT !.value = @ + ledger[i].value]]
                             ELSE @]]
        PROVE  /\ call'[h].does = "commit" /\ call'[h].send = "xp"
               /\ \/ call'[h].write = c.write
                  \/ /\ MergesWith(row, ledger[i])
                     /\ call'[h].write = [id |-> i, diff |-> row.value,
                                          row |-> [row EXCEPT !.value = @ + ledger[i].value]]
    BY <1>1, <2>2 DEF TInv, TypeOK, CallsTyped, CallTyped
  <2>. QED
    BY <2>1, <2>2 DEF Merge, Set
<1>5. XPToWrite(h)'
  <2>1. CASE call'[h].write = c.write
    BY <1>1, <1>3, <1>4, <2>1 DEF XPToWrite, ParticipationRow
  <2>2. ASSUME NEW i \in LastRows(row.player), MergesWith(row, ledger[i]),
               call'[h].write = [id |-> i, diff |-> row.value,
                                 row |-> [row EXCEPT !.value = @ + ledger[i].value]]
        PROVE  XPToWrite(h)'
    <3>1. /\ i \in DOMAIN ledger /\ ledger[i].player = row.player
          /\ ledger[i].type = row.type /\ ledger[i].time > weekStart
      BY <2>2 DEF LastRows, RowsOf, MergesWith
    <3>2. ledger[i].time \in Nat
      <4>1. ledger[i] \in Row
        BY <1>1, <3>1
      <4>. QED
        BY <4>1 DEF Row
    <3>3. ledger[i].cause = row.cause
      BY <1>3, <3>1 DEF RInv, CallRows, ParticipationRow
    <3>4. /\ call'[h].write.id = i /\ call'[h].write.row.player = row.player
          /\ call'[h].write.row.type = row.type /\ call'[h].write.row.cause = row.cause
          /\ call'[h].write.row.time = row.time
      BY <1>2, <2>2 DEF Row
    <3>. QED
      BY <1>1, <1>3, <1>4, <3>1, <3>2, <3>3, <3>4 DEF XPToWrite, ParticipationRow, Same
  <2>. QED
    BY <1>4, <2>1, <2>2
<1>6. \A g \in Handlers : g # h /\ WritesXP(g)' => XPToWrite(g)'
  BY <1>1 DEF WritesXP, XPToWrite, RInv, CallRows
<1>7. CallRows'
  BY <1>1, <1>5, <1>6 DEF RInv, CallRows
<1>8. TripsOnce'
  <2>1. ~WritesTrip(h)' /\ call'[h].send \notin TripKinds
    BY <1>4 DEF WritesTrip, TripKinds
  <2>2. \A k \in TripKinds, t \in Trips :
            /\ Rewarded(k, t)' <=> Rewarded(k, t)
            /\ InWork(k, t)' <=> InWork(k, t)
    BY <1>1 DEF Rewarded, InWork
  <2>. QED
    BY <1>1, <2>1, <2>2, TripsKept DEF RInv, WritesTrip
<1>9. WorkRows' /\ AchievedRows' /\ RewardedOnce'
  BY <1>1, RowsKept
<1>. QED
  BY <1>7, <1>8, <1>9 DEF RInv

\* The row that a handler of the bot writes has no twin, or is one of messages
\* with the cause and the type that it had.
LEMMA RInvCommitXP ==
    ASSUME TInv, TInv', RInv, CallsApart, NEW h \in Handlers, CommitXP(h)
    PROVE  RInv'
<1>. DEFINE c == call[h]
            new == c.write.row
            id == ID(c.write)
<1>1. /\ CallTyped(c) /\ CallRefers(c) /\ WritesXP(h) /\ c.does = "commit" /\ c.send = "xp"
      /\ UNCHANGED <<now, weekStart, trips, achieved, participation, queue, work, seen>>
      /\ ledger' = Written(ledger, c.write) /\ ledger \in Seq(Row)
      /\ \A g \in Handlers : g # h => call'[g] = call[g]
      /\ call'[h].does = "send" /\ call'[h].send = "xp"
  BY DEF CommitXP, Set, Idle, WritesXP, TInv, TypeOK, InDatabase, CallsTyped, TablesTyped
<1>2. c.write \in Write /\ (c.write.id = 0 \/ c.write.id \in DOMAIN ledger) /\ new \in Row
  BY <1>1 DEF CallTyped, CallRefers, Write
<1>3. /\ DOMAIN ledger' = DOMAIN ledger \cup {id} /\ ledger'[id] = new
      /\ \A i \in DOMAIN ledger : i # id => ledger'[i] = ledger[i]
      /\ c.write.id = 0 => id \notin DOMAIN ledger
      /\ c.write.id # 0 => id = c.write.id
  BY <1>1, <1>2, WrittenFacts
<1>4. XPToWrite(h)
  BY <1>1 DEF RInv, CallRows
<1>5. /\ ParticipationRow(new) \/ new.type = "DISCORD_REACTION_EVENT"
      /\ new.type = "DISCORD_REACTION_EVENT" =>
             c.write.id = 0 /\ \A i \in DOMAIN ledger : ~Same(ledger[i], new)
      /\ c.write.id # 0 => Same(ledger[c.write.id], new)
  BY <1>4 DEF XPToWrite
<1>6. id \in DOMAIN ledger => Same(ledger[id], new)
  BY <1>3, <1>5
<1>. HIDE DEF new, id, c
<1>7. RewardedOnce'
  <2>. SUFFICES ASSUME NEW i \in DOMAIN ledger', NEW j \in DOMAIN ledger', i # j,
                       SameReward(i, j)', ledger'[i].type # "DISCORD_PARTICIPATION"
                PROVE  FALSE
    BY DEF RewardedOnce
  <2>1. i # id /\ j # id
    <3>1. ASSUME NEW k \in DOMAIN ledger, k # id, Same(ledger[k], new), new.type # "DISCORD_PARTICIPATION"
          PROVE  FALSE
      BY <1>5, <3>1 DEF ParticipationRow
    <3>. QED
      BY <1>3, <3>1 DEF SameReward, Same
  <2>. QED
    BY <1>3, <2>1 DEF RInv, RewardedOnce, SameReward
<1>8. AchievedRows'
  BY <1>1, <1>3, <1>5 DEF RInv, AchievedRows, ParticipationRow
<1>9. WorkRows'
  BY <1>1 DEF RInv, WorkRows
<1>10. TripsOnce'
  <2>1. ~WritesTrip(h)' /\ call'[h].send \notin TripKinds
    BY <1>1 DEF WritesTrip, TripKinds
  <2>2. \A k \in TripKinds, t \in Trips :
            /\ Rewarded(k, t)' => Rewarded(k, t)
            /\ InWork(k, t)' <=> InWork(k, t)
    BY <1>1, <1>3, <1>5 DEF Rewarded, InWork, RewardType, ParticipationRow
  <2>. QED
    BY <1>1, <2>1, <2>2, TripsKept DEF RInv, WritesTrip
<1>11. CallRows'
  <2>1. \A i \in DOMAIN ledger' :
            ledger'[i].type = "DISCORD_PARTICIPATION" => ParticipationRow(ledger'[i])
    BY <1>3, <1>5 DEF RInv, CallRows
  <2>2. ASSUME NEW g \in Handlers, WritesXP(g)'
        PROVE  XPToWrite(g)'
    <3>1. g # h
      BY <1>1, <2>2 DEF WritesXP
    <3>2. call'[g] = call[g] /\ WritesXP(g) /\ XPToWrite(g)
      BY <1>1, <2>2, <3>1 DEF WritesXP, RInv, CallRows
    <3>. DEFINE write == call[g].write
    <3>3. ~Same(new, write.row)
      BY <1>1, <3>1, <3>2 DEF CallsApart, Same, c, new
    <3>4. \A i \in DOMAIN ledger : ~Same(ledger[i], write.row) =>
              i \in DOMAIN ledger' /\ ~Same(ledger'[i], write.row)
      BY <1>3, <3>3
    <3>5. write.id # 0 => ledger'[write.id] = ledger[write.id]
      <4>1. write.id # 0 => write.id \in DOMAIN ledger /\ Same(ledger[write.id], write.row)
        BY <3>2 DEF XPToWrite, TInv, InDatabase, CallRefers, WritesXP
      <4>2. write.id # 0 => write.id # id
        BY <1>6, <3>3, <4>1 DEF Same
      <4>. QED
        BY <1>3, <4>1, <4>2
    <3>6. write.row.type = "DISCORD_REACTION_EVENT" =>
              write.id = 0 /\ \A i \in DOMAIN ledger' : ~Same(ledger'[i], write.row)
      BY <1>3, <3>2, <3>3, <3>4 DEF XPToWrite
    <3>. QED
      BY <1>1, <3>2, <3>5, <3>6 DEF XPToWrite
  <2>. QED
    BY <1>1, <2>1, <2>2 DEF RInv, CallRows
<1>. QED
  BY <1>7, <1>8, <1>9, <1>10, <1>11 DEF RInv

\* The only item of its kind about a trip goes from its handler to the channel.
LEMMA RInvRegister ==
    ASSUME TInv, TInv', RInv, NEW h \in Handlers, Register(h)
    PROVE  RInv'
<1>. DEFINE c == call[h]
            q == queue[c.send]
<1>1. /\ CallTyped(c) /\ c.does = "send" /\ Send(c.send, c.item)
      /\ UNCHANGED <<now, weekStart, trips, ledger, achieved, participation, work, seen>>
      /\ \A g \in Handlers : g # h => call'[g] = call[g]
      /\ call'[h] = Idle /\ now \in Nat
      /\ DOMAIN queue = Kinds
  BY DEF Register, Set, TInv, TypeOK, CallsTyped, TablesTyped, QueuesTyped
<1>2. c.send \in Kinds /\ c.item \in Item(c.send) /\ q \in Seq(Item(c.send))
  BY <1>1 DEF CallTyped, TInv, TypeOK, QueuesTyped
<1>3. /\ queue'[c.send] = Append(q, c.item)
      /\ \A k \in Kinds : k # c.send => queue'[k] = queue[k]
  BY <1>1, <1>2 DEF Send
<1>4. /\ DOMAIN Append(q, c.item) = DOMAIN q \cup {Len(q) + 1}
      /\ DOMAIN q = 1..Len(q) /\ Len(q) \in Nat
      /\ Append(q, c.item)[Len(q) + 1] = c.item
      /\ \A i \in DOMAIN q : Append(q, c.item)[i] = q[i]
  BY <1>2, AppendFacts
<1>5. WorkRows' /\ AchievedRows' /\ RewardedOnce'
  BY <1>1, RowsKept
<1>6. CallRows'
  <2>1. \A g \in Handlers : WritesXP(g)' => call'[g] = call[g]
    BY <1>1 DEF WritesXP, Idle
  <2>. QED
    BY <1>1, <2>1, CallRowsKept DEF RInv
<1>7. TripsToCommit'
  BY <1>1 DEF RInv, TripsOnce, TripsToCommit, WritesTrip, Registered, Idle
<1>8. ASSUME NEW k \in TripKinds, NEW t \in Trips
      PROVE  ItemsApart(k, t)'
  <2>1. /\ ItemsApart(k, t)
        /\ InWork(k, t)' <=> InWork(k, t)
        /\ Rewarded(k, t)' <=> Rewarded(k, t)
        /\ Registered(k, t)' <=> Registered(k, t)
    BY <1>1 DEF RInv, TripsOnce, InWork, Rewarded, Registered
  <2>2. /\ \A g \in Handlers : g # h => (Sends(g, k, t)' <=> Sends(g, k, t))
        /\ ~Sends(h, k, t)'
    BY <1>1 DEF Sends, Idle
  <2>3. CASE c.send = k /\ c.item = t
    <3>1. Sends(h, k, t)
      BY <1>1, <2>3 DEF Sends
    <3>2. \A g \in Handlers : ~Sends(g, k, t)'
      BY <2>1, <2>2, <3>1 DEF ItemsApart
    <3>3. Registered(k, t) /\ ~Queued(k, t) /\ ~InWork(k, t) /\ ~Rewarded(k, t)
      BY <2>1, <3>1 DEF ItemsApart
    <3>4. \A i \in DOMAIN q : q[i] # t
      BY <2>3, <3>3 DEF Queued
    <3>5. \A i, j \in DOMAIN queue'[k] : queue'[k][i] = t /\ queue'[k][j] = t => i = j
      BY <1>3, <1>4, <2>3, <3>4
    <3>. QED
      BY <2>1, <3>2, <3>3, <3>5 DEF ItemsApart
  <2>4. CASE c.send = k /\ c.item # t
    <3>1. DOMAIN queue[k] = DOMAIN q
      BY <2>4
    <3>2. \A i \in DOMAIN queue'[k] : queue'[k][i] = t => i \in DOMAIN q /\ queue[k][i] = t
      BY <1>3, <1>4, <2>4
    <3>3. \A i \in DOMAIN q : i \in DOMAIN queue'[k] /\ queue'[k][i] = q[i]
      BY <1>3, <1>4, <2>4
    <3>4. Queued(k, t)' <=> Queued(k, t)
      BY <2>4, <3>2, <3>3 DEF Queued
    <3>. QED
      BY <2>1, <2>2, <2>4, <3>2, <3>4 DEF ItemsApart
  <2>5. CASE c.send # k
    <3>1. queue'[k] = queue[k]
      BY <1>3, <2>5 DEF Kinds, TripKinds
    <3>. QED
      BY <2>1, <2>2, <3>1, ItemsKept
  <2>. QED
    BY <2>3, <2>4, <2>5
<1>. QED
  BY <1>5, <1>6, <1>7, <1>8 DEF RInv, TripsOnce

LEMMA RInvFailCall ==
    ASSUME TInv, TInv', RInv, NEW h \in Handlers, FailCall(h)
    PROVE  RInv'
<1>1. /\ UNCHANGED <<now, weekStart, trips, ledger, achieved, participation, queue, work, seen>>
      /\ \A g \in Handlers : g # h => call'[g] = call[g]
      /\ call'[h] = Idle /\ now \in Nat
  BY DEF FailCall, Set, TInv, TypeOK, CallsTyped, TablesTyped
<1>2. WorkRows' /\ AchievedRows' /\ RewardedOnce'
  BY <1>1, RowsKept
<1>3. \A g \in Handlers : WritesXP(g)' \/ WritesTrip(g)' => call'[g] = call[g]
  BY <1>1 DEF WritesXP, WritesTrip, Idle
<1>4. CallRows'
  BY <1>1, <1>3, CallRowsKept DEF RInv
<1>5. \A k \in TripKinds, t \in Trips :
          /\ Rewarded(k, t)' <=> Rewarded(k, t)
          /\ InWork(k, t)' <=> InWork(k, t)
  BY <1>1 DEF Rewarded, InWork
<1>6. \A g \in Handlers : call'[g] = call[g] \/ ~(call'[g].does = "send")
  BY <1>1 DEF Idle
<1>7. TripsOnce'
  BY <1>1, <1>3, <1>5, <1>6, TripsKept DEF RInv
<1>. QED
  BY <1>2, <1>4, <1>7 DEF RInv

-----------------------------------------------------------------------------
\* What the processor does concerns the handlers in nothing but the ledger.
LEMMA ProcessorKeeps ==
    ASSUME TInv, TInv', RInv, UNCHANGED <<now, weekStart, trips, participation, call, ledger, achieved>>
    PROVE  /\ CallRows' /\ TripsToCommit' /\ AchievedRows' /\ RewardedOnce'
           /\ \A k \in TripKinds, t \in Trips :
                  /\ Registered(k, t)' <=> Registered(k, t)
                  /\ Rewarded(k, t)' <=> Rewarded(k, t)
                  /\ \A h \in Handlers : Sends(h, k, t)' <=> Sends(h, k, t)
<1>1. CallRows'
  BY CallRowsKept DEF RInv, TInv, TypeOK, TablesTyped
<1>2. TripsToCommit' /\ AchievedRows' /\ RewardedOnce'
  BY DEF RInv, TripsOnce, TripsToCommit, WritesTrip, Registered, AchievedRows, RewardedOnce,
         SameReward
<1>3. \A k \in TripKinds, t \in Trips :
          /\ Registered(k, t)' <=> Registered(k, t)
          /\ Rewarded(k, t)' <=> Rewarded(k, t)
          /\ \A h \in Handlers : Sends(h, k, t)' <=> Sends(h, k, t)
  BY DEF Registered, Rewarded, Sends
<1>. QED
  BY <1>1, <1>2, <1>3

LEMMA RInvWork ==
    ASSUME TInv, TInv', RInv, UNCHANGED <<now, weekStart, trips, participation, call, ledger, achieved>>,
           WorkRows', \A k \in TripKinds : queue'[k] = queue[k],
           \A k \in TripKinds, t \in Trips : InWork(k, t)' => InWork(k, t)
    PROVE  RInv'
<1>1. \A k \in TripKinds, t \in Trips : ItemsApart(k, t)'
  BY ProcessorKeeps, ItemsKept DEF RInv, TripsOnce
<1>. QED
  BY <1>1, ProcessorKeeps DEF RInv, TripsOnce

\* The only item of its kind about a trip goes from the channel to the
\* processor.
LEMMA RInvReceive ==
    ASSUME TInv, TInv', RInv, NEW kind \in Kinds, Receive(kind)
    PROVE  RInv'
<1>. DEFINE q == queue[kind]
<1>1. /\ q \in Seq(Item(kind)) /\ q # <<>> /\ DOMAIN queue = Kinds
      /\ work.does = "receive"
      /\ UNCHANGED <<now, weekStart, trips, participation, call, ledger, achieved>>
  BY DEF Receive, Unchanged, TInv, TypeOK, QueuesTyped
<1>2. /\ queue'[kind] = Tail(q)
      /\ \A k \in Kinds : k # kind => queue'[k] = queue[k]
  BY <1>1 DEF Receive
<1>3. /\ Head(q) = q[1] /\ 1 \in DOMAIN q
      /\ \A i \in DOMAIN Tail(q) : i + 1 \in DOMAIN q /\ i \in Nat \ {0} /\ Tail(q)[i] = q[i + 1]
  BY <1>1, TailFacts
<1>4. work'.kind = kind /\ work'.item = q[1]
  BY <1>3 DEF Receive, Receiving
<1>5. WorkRows'
  BY WorkRowsReceive
<1>6. ASSUME NEW k \in TripKinds, NEW t \in Trips
      PROVE  ItemsApart(k, t)'
  <2>1. ItemsApart(k, t) /\ k \in Kinds /\ ~InWork(k, t)
    BY <1>1 DEF RInv, TripsOnce, TripKinds, Kinds, InWork
  <2>2. /\ Registered(k, t)' <=> Registered(k, t)
        /\ Rewarded(k, t)' <=> Rewarded(k, t)
        /\ \A h \in Handlers : Sends(h, k, t)' <=> Sends(h, k, t)
    BY <1>1, ProcessorKeeps
  <2>3. CASE kind # k
    <3>1. queue'[k] = queue[k]
      BY <1>2, <2>1, <2>3
    <3>2. ~InWork(k, t)'
      BY <1>4, <2>3 DEF InWork
    <3>. QED
      BY <2>1, <2>2, <3>1, <3>2, ItemsKept
  <2>4. CASE kind = k
    <3>1. \A i, j \in DOMAIN q : q[i] = t /\ q[j] = t => i = j
      BY <2>1, <2>4 DEF ItemsApart
    <3>2. \A i \in DOMAIN queue'[k] :
              i + 1 \in DOMAIN q /\ i \in Nat \ {0} /\ queue'[k][i] = q[i + 1]
      BY <1>2, <1>3, <2>4
    <3>3. Queued(k, t)' => Queued(k, t)
      BY <2>4, <3>2 DEF Queued
    <3>4. \A i, j \in DOMAIN queue'[k] : queue'[k][i] = t /\ queue'[k][j] = t => i = j
      <4>. SUFFICES ASSUME NEW i \in DOMAIN queue'[k], NEW j \in DOMAIN queue'[k],
                           queue'[k][i] = t, queue'[k][j] = t
                    PROVE  i = j
        OBVIOUS
      <4>1. i + 1 = j + 1 /\ i \in Nat /\ j \in Nat
        BY <3>1, <3>2
      <4>. QED
        BY <4>1
    <3>5. InWork(k, t)' => Queued(k, t) /\ ~Queued(k, t)'
      <4>. SUFFICES ASSUME InWork(k, t)'
                    PROVE  Queued(k, t) /\ ~Queued(k, t)'
        OBVIOUS
      <4>1. q[1] = t
        BY <1>4 DEF InWork
      <4>2. Queued(k, t)
        BY <1>3, <2>4, <4>1 DEF Queued
      <4>3. ASSUME NEW i \in DOMAIN queue'[k], queue'[k][i] = t
            PROVE  FALSE
        <5>1. i + 1 = 1 /\ i \in Nat \ {0}
          BY <1>3, <3>1, <3>2, <4>1, <4>3
        <5>. QED
          BY <5>1
      <4>. QED
        BY <4>2, <4>3 DEF Queued
    <3>. QED
      BY <2>1, <2>2, <3>3, <3>4, <3>5 DEF ItemsApart
  <2>. QED
    BY <2>3, <2>4
<1>. QED
  BY <1>1, <1>5, <1>6, ProcessorKeeps DEF RInv, TripsOnce

LEMMA RInvRewardTrip ==
    ASSUME TInv, TInv', RInv, RewardTrip
    PROVE  RInv'
<1>1. /\ work.does = "reward" /\ work'.kind = work.kind /\ work'.item = work.item /\ WorkRows'
      /\ UNCHANGED <<now, weekStart, trips, participation, call, ledger, achieved, queue>>
  BY WorkRowsReward DEF RInv
<1>2. \A k \in TripKinds, t \in Trips : InWork(k, t)' => InWork(k, t)
  BY <1>1 DEF InWork
<1>. QED
  BY <1>1, <1>2, RInvWork

LEMMA RInvGrant ==
    ASSUME TInv, TInv', RInv, GrantAchievements
    PROVE  RInv'
<1>1. /\ WorkRows' /\ work'.next = "receive" /\ work'.does # "reward"
      /\ UNCHANGED <<now, weekStart, trips, participation, call, ledger, achieved, queue>>
  BY WorkRowsGrant
<1>2. \A k \in TripKinds, t \in Trips : ~InWork(k, t)'
  BY <1>1 DEF InWork
<1>. QED
  BY <1>1, <1>2, RInvWork

\* What the processor writes has no twin among the rows of the ledger.
LEMMA RInvCommitWork ==
    ASSUME TInv, TInv', RInv, CommitWork
    PROVE  RInv'
<1>1. /\ WorkTyped /\ work.does = "commit" /\ work.next \in {"receive", "achieve"}
      /\ UNCHANGED <<now, weekStart, trips, participation, call, queue, seen>>
      /\ now \in Nat
  BY DEF CommitWork, Unchanged, TInv, TypeOK, TablesTyped, WorkTyped
<1>2. /\ DOMAIN ledger \subseteq DOMAIN ledger'
      /\ \A i \in DOMAIN ledger : ledger'[i] = ledger[i]
  BY CommitFacts DEF RInv
<1>3. work.next = "achieve" => work.kind \in TripKinds /\ work.grants = {}
  BY <1>1 DEF RInv, WorkRows
<1>4. work.next = "receive" => work.grants \cap achieved = {}
  BY <1>1 DEF RInv, WorkRows
<1>5. work'.does = "send"
  BY <1>1 DEF CommitWork, WorkTyped
<1>6. ASSUME NEW i \in DOMAIN ledger', i \notin DOMAIN ledger, work.next = "achieve"
      PROVE  ledger'[i].type = RewardType(work.kind) /\ ledger'[i].cause = work.item
  BY <1>6, CommitFacts DEF RInv
<1>7. ASSUME NEW i \in DOMAIN ledger', i \notin DOMAIN ledger, work.next = "receive"
      PROVE  /\ ledger'[i].type = "ACHIEVEMENT_REWARD"
             /\ <<ledger'[i].player, ledger'[i].cause>> \in work.grants
  BY <1>7, CommitFacts DEF RInv
<1>8. \A i \in DOMAIN ledger' : i \notin DOMAIN ledger =>
          ledger'[i].type \notin {"DISCORD_PARTICIPATION", "DISCORD_REACTION_EVENT"}
  BY <1>1, <1>6, <1>7 DEF RewardType
<1>9. CallRows'
  BY <1>1, <1>2, <1>8, CallRowsKept DEF RInv, TInv, TypeOK, TablesTyped
<1>10. WorkRows' /\ AchievedRows'
  BY WorkRowsCommit DEF RInv
<1>12. ASSUME NEW i \in DOMAIN ledger', NEW j \in DOMAIN ledger', i \notin DOMAIN ledger,
              Same(ledger'[i], ledger'[j])
       PROVE  i = j
  <2>1. CASE j \in DOMAIN ledger /\ work.next = "achieve"
    <3>1. InWork(work.kind, work.item)
      BY <1>1, <2>1 DEF InWork
    <3>2. work.kind \in TripKinds /\ work.item \in Trips
      BY <1>1, <1>3, <2>1, ItemFacts DEF WorkTyped, TripKinds
    <3>3. ~Rewarded(work.kind, work.item)
      BY <3>1, <3>2 DEF RInv, TripsOnce, ItemsApart
    <3>. QED
      BY <1>2, <1>6, <1>12, <2>1, <3>3 DEF Rewarded, Same
  <2>2. CASE j \in DOMAIN ledger /\ work.next = "receive"
    <3>1. <<ledger[j].player, ledger[j].cause>> \in achieved \cap work.grants
      BY <1>2, <1>7, <1>12, <2>2 DEF RInv, AchievedRows, Same
    <3>. QED
      BY <1>4, <2>2, <3>1
  <2>3. CASE j \notin DOMAIN ledger
    BY <1>12, <2>3, CommitFacts DEF RInv
  <2>. QED
    BY <1>1, <2>1, <2>2, <2>3
<1>13. RewardedOnce'
  <2>. SUFFICES ASSUME NEW i \in DOMAIN ledger', NEW j \in DOMAIN ledger',
                       SameReward(i, j)', ledger'[i].type # "DISCORD_PARTICIPATION"
                PROVE  i = j
    BY DEF RewardedOnce
  <2>1. Same(ledger'[i], ledger'[j]) /\ Same(ledger'[j], ledger'[i])
    BY DEF SameReward, Same
  <2>2. CASE i \in DOMAIN ledger /\ j \in DOMAIN ledger
    BY <1>2, <2>2 DEF RInv, RewardedOnce, SameReward
  <2>. QED
    BY <1>12, <2>1, <2>2
<1>14. TripsToCommit'
  BY <1>1 DEF RInv, TripsOnce, TripsToCommit, WritesTrip, Registered
<1>15. ASSUME NEW k \in TripKinds, NEW t \in Trips
       PROVE  ItemsApart(k, t)'
  <2>1. /\ ItemsApart(k, t) /\ UNCHANGED queue[k] /\ ~InWork(k, t)'
        /\ Registered(k, t)' <=> Registered(k, t)
        /\ Queued(k, t)' <=> Queued(k, t)
        /\ \A h \in Handlers : Sends(h, k, t)' <=> Sends(h, k, t)
    BY <1>1, <1>5 DEF RInv, TripsOnce, InWork, Registered, Queued, Sends
  <2>2. CASE InWork(k, t)
    BY <2>1, <2>2 DEF ItemsApart
  <2>3. CASE ~InWork(k, t)
    <3>1. ASSUME NEW i \in DOMAIN ledger', ledger'[i].type = RewardType(k), ledger'[i].cause = t
          PROVE  i \in DOMAIN ledger
      <4>1. CASE work.next = "receive"
        BY <1>7, <3>1, <4>1 DEF RewardType
      <4>2. CASE work.next = "achieve"
        BY <1>1, <1>3, <1>6, <2>3, <3>1, <4>2 DEF InWork, RewardType, TripKinds
      <4>. QED
        BY <1>1, <4>1, <4>2
    <3>2. Rewarded(k, t)' => Rewarded(k, t)
      BY <1>2, <3>1 DEF Rewarded
    <3>. QED
      BY <2>1, <3>2, ItemsKept
  <2>. QED
    BY <2>2, <2>3
<1>. QED
  BY <1>9, <1>10, <1>13, <1>14, <1>15 DEF RInv, TripsOnce

LEMMA RInvSendWork ==
    ASSUME TInv, TInv', RInv, SendWork \/ FailWork
    PROVE  RInv'
<1>1. /\ UNCHANGED <<now, weekStart, trips, participation, call, ledger, achieved>>
      /\ \A k \in TripKinds : queue'[k] = queue[k]
      /\ WorkRows' /\ work'.does \in {"send", "receive", "achieve"}
  BY WorkRowsSend
<1>2. \A k \in TripKinds, t \in Trips : ~InWork(k, t)'
  BY <1>1 DEF InWork
<1>. QED
  BY <1>1, <1>2, RInvWork

LEMMA RInvNext == TInv /\ TInv' /\ RInv /\ CallsApart /\ [Next]_vars => RInv'
<1>. SUFFICES ASSUME TInv, TInv', RInv, CallsApart, [Next]_vars
              PROVE  RInv'
  OBVIOUS
<1>1. ASSUME UNCHANGED <<trips, ledger, achieved, call, queue, work>>,
             now' = now, weekStart' = weekStart \/ weekStart' = now
      PROVE  RInv'
  <2>1. WorkRows' /\ AchievedRows' /\ RewardedOnce'
    BY <1>1, RowsKept
  <2>2. TripsOnce'
    BY <1>1 DEF RInv, TripsOnce, TripsToCommit, WritesTrip, ItemsApart, Registered, Sends, Queued,
                InWork, Rewarded
  <2>3. now \in Nat
    BY DEF TInv, TypeOK, TablesTyped
  <2>4. \A h \in Handlers : WritesXP(h)' => XPToWrite(h)'
    BY <1>1 DEF WritesXP, XPToWrite, RInv, CallRows
  <2>5. CallRows'
    BY <1>1, <2>3, <2>4 DEF RInv, CallRows
  <2>. QED
    BY <2>1, <2>2, <2>5 DEF RInv
<1>2. CASE UNCHANGED vars \/ NewWeek \/ \E player \in Players : ForgetActivity(player)
  BY <1>1, <1>2 DEF vars, NewWeek, ForgetActivity
<1>3. ASSUME NEW h \in Handlers, Begin(h) \/ Continue(h) \/ FailCall(h)
      PROVE  RInv'
  BY <1>3, RInvBegin, RInvCommitTrip, RInvMerge, RInvCommitXP, RInvRegister, RInvFailCall
  DEF Continue
<1>4. CASE Process \/ FailWork
  BY <1>4, RInvReceive, RInvRewardTrip, RInvGrant, RInvCommitWork, RInvSendWork DEF Process
<1>. QED
  BY <1>2, <1>3, <1>4 DEF Next

\* For any number of handlers, players, trips, events and achievements: as long
\* as calls about the same thing are apart, each trip, each confirmation, each
\* event and each achievement is rewarded once.
THEOREM NothingRewardedTwice == Spec /\ []CallsApart => []RewardedOnce
<1>1. RInv => RewardedOnce
  BY DEF RInv
<1>. QED
  BY <1>1, RInvInit, RInvNext, Typing, PTL DEF Spec

\* Under the same hypothesis: a row of a past week is never moved to this one.
THEOREM WeeksStayApart == Spec /\ []CallsApart => WeeksApart
<1>. DEFINE Kept == \A i \in DOMAIN ledger :
                        ledger[i].time <= weekStart => ledger'[i].time <= weekStart
<1>1. ASSUME TInv, RInv, [Next]_vars
      PROVE  [Kept]_vars
  <2>1. CASE UNCHANGED ledger
    BY <2>1
  <2>2. ASSUME NEW h \in Handlers, CommitXP(h)
        PROVE  Kept
    <3>. DEFINE write == call[h].write
    <3>1. /\ WritesXP(h) /\ ledger' = Written(ledger, write) /\ ledger \in Seq(Row)
          /\ CallTyped(call[h]) /\ CallRefers(call[h])
      BY <1>1, <2>2 DEF CommitXP, WritesXP, TInv, TypeOK, InDatabase, TablesTyped, CallsTyped
    <3>2. write \in Write /\ (write.id = 0 \/ write.id \in DOMAIN ledger)
      BY <3>1 DEF WritesXP, CallTyped, CallRefers
    <3>3. /\ \A i \in DOMAIN ledger : i # ID(write) => ledger'[i] = ledger[i]
          /\ ledger'[ID(write)] = write.row
          /\ write.id = 0 => ID(write) \notin DOMAIN ledger
          /\ write.id # 0 => ID(write) = write.id
      BY <3>1, <3>2, WrittenFacts
    <3>4. write.id # 0 /\ ledger[write.id].time <= weekStart => write.row.time <= weekStart
      BY <1>1, <3>1 DEF RInv, CallRows, XPToWrite
    <3>. QED
      BY <3>3, <3>4
  <2>3. CASE CommitWork
    <3>1. ledger \in Seq(Row) /\ work.rows \in Seq(Row) /\ ledger' = ledger \o work.rows
      BY <1>1, <2>3 DEF CommitWork, TInv, TypeOK, TablesTyped, WorkTyped
    <3>. QED
      BY <3>1, ConcatFacts
  <2>. QED
    BY <1>1, <2>1, <2>2, <2>3
    DEF Next, vars, Begin, Continue, Process, PostTrip, PutTrip, PostReport, React, Message,
        CommitTrip, Merge, Register, FailCall, ForgetActivity, Unchanged, Receive, RewardTrip,
        GrantAchievements, SendWork, FailWork, NewWeek
<1>2. TInv /\ RInv /\ [Next]_vars => [Kept]_vars
  BY <1>1
<1>3. WeeksApart <=> [][Kept]_vars
  BY DEF WeeksApart
<1>. HIDE DEF Kept
<1>. QED
  BY <1>2, <1>3, RInvInit, RInvNext, Typing, PTL DEF Spec

-----------------------------------------------------------------------------
(***************************************************************************)
(* What was told of a row adds up to its XP. Sums are stated by what they  *)
(* are made of, the sums of the parts: of the differences of a set's       *)
(* elements, and of those that a sequence of items tells of a row.         *)
(***************************************************************************)
IsTotal(set, diff, total) ==
    \E part \in [SUBSET set -> Int] :
        /\ part[{}] = 0 /\ part[set] = total
        /\ \A some \in SUBSET set : \A x \in set \ some : part[some \cup {x}] = part[some] + diff[x]

DiffFor(item, i) == IF item.id = i THEN item.diff ELSE 0

IsSum(items, i, sum) ==
    \E part \in [0..Len(items) -> Int] :
        /\ part[0] = 0 /\ part[Len(items)] = sum
        /\ \A n \in 1..Len(items) : part[n] = part[n - 1] + DiffFor(items[n], i)

SendsXP(h) == call[h].does = "send" /\ call[h].send = "xp"

Senders(i) == {h \in Handlers : SendsXP(h) /\ call[h].item.id = i}

Diffs == [h \in Handlers |-> call[h].item.diff]

(***************************************************************************)
(* The XP of a row has been seen, is being sent by handlers, waits in the  *)
(* channel or is still to be sent by the processor.                        *)
(***************************************************************************)
Account(i) ==
    \E a, b, c \in Int :
        /\ IsTotal(Senders(i), Diffs, a)
        /\ IsSum(queue["xp"], i, b)
        /\ IsSum(work.sends, i, c)
        /\ ledger[i].value = SeenOf(i) + a + b + c

\* What a handler is about to write adds the difference that it will tell.
AddsDiff(h) ==
    LET write == call[h].write
    IN  write.row.value = write.diff + IF write.id = 0 THEN 0 ELSE ledger[write.id].value

SInv ==
    /\ \A i \in DOMAIN seen : seen[i] \in Nat
    /\ \A i \in DOMAIN ledger : Account(i)
    /\ \A h \in Handlers : WritesXP(h) => AddsDiff(h)
    /\ work.does # "send" => work.sends = <<>>

LEMMA TotalOfNone ==
    ASSUME NEW diff, NEW total
    PROVE  IsTotal({}, diff, total) <=> total = 0
<1>1. ASSUME IsTotal({}, diff, total)
      PROVE  total = 0
  BY <1>1 DEF IsTotal
<1>2. IsTotal({}, diff, 0)
  <2>. DEFINE part == [some \in SUBSET {} |-> 0]
  <2>1. part \in [SUBSET {} -> Int] /\ part[{}] = 0
    OBVIOUS
  <2>2. \A some \in SUBSET {} : \A x \in {} \ some : part[some \cup {x}] = part[some] + diff[x]
    OBVIOUS
  <2>. HIDE DEF part
  <2>. QED
    BY <2>1, <2>2 DEF IsTotal
<1>. QED
  BY <1>1, <1>2

LEMMA TotalOfSame ==
    ASSUME NEW set, NEW diff, NEW other, NEW total, IsTotal(set, diff, total),
           \A x \in set : other[x] = diff[x]
    PROVE  IsTotal(set, other, total)
<1>1. PICK part \in [SUBSET set -> Int] :
          /\ part[{}] = 0 /\ part[set] = total
          /\ \A some \in SUBSET set : \A x \in set \ some : part[some \cup {x}] = part[some] + diff[x]
  BY DEF IsTotal
<1>2. \A some \in SUBSET set : \A x \in set \ some : part[some \cup {x}] = part[some] + other[x]
  BY <1>1
<1>. QED
  BY <1>1, <1>2 DEF IsTotal

LEMMA TotalOfMore ==
    ASSUME NEW set, NEW diff, NEW total \in Int, IsTotal(set, diff, total),
           NEW x, x \notin set, diff[x] \in Int, \A y \in set : diff[y] \in Int
    PROVE  IsTotal(set \cup {x}, diff, total + diff[x])
<1>1. PICK part \in [SUBSET set -> Int] :
          /\ part[{}] = 0 /\ part[set] = total
          /\ \A some \in SUBSET set : \A y \in set \ some : part[some \cup {y}] = part[some] + diff[y]
  BY DEF IsTotal
<1>. DEFINE more == set \cup {x}
            sum(some) == IF x \in some THEN part[some \ {x}] + diff[x] ELSE part[some]
            new == [some \in SUBSET more |-> sum(some)]
<1>2. \A some \in SUBSET more : some \ {x} \in SUBSET set
  OBVIOUS
<1>3. \A some \in SUBSET more : sum(some) \in Int
  BY <1>1, <1>2
<1>4. new \in [SUBSET more -> Int]
  BY <1>3
<1>5. new[{}] = 0 /\ new[more] = total + diff[x]
  <2>1. more \ {x} = set
    OBVIOUS
  <2>2. sum({}) = 0 /\ sum(more) = part[set] + diff[x]
    BY <1>1, <2>1
  <2>. QED
    BY <1>1, <2>2
<1>6. ASSUME NEW some \in SUBSET more, NEW y \in more \ some
      PROVE  new[some \cup {y}] = new[some] + diff[y]
  <2>1. new[some \cup {y}] = sum(some \cup {y}) /\ new[some] = sum(some)
    OBVIOUS
  <2>2. CASE y = x
    <3>1. (some \cup {y}) \ {x} = some
      BY <1>6, <2>2
    <3>. QED
      BY <1>6, <2>1, <2>2, <3>1
  <2>3. CASE y # x
    <3>1. y \in set
      BY <2>3
    <3>2. CASE x \in some
      <4>1. (some \cup {y}) \ {x} = (some \ {x}) \cup {y}
        BY <2>3
      <4>2. some \ {x} \in SUBSET set /\ y \in set \ (some \ {x})
        BY <1>2, <1>6, <3>1
      <4>3. part[(some \ {x}) \cup {y}] = part[some \ {x}] + diff[y]
        BY <1>1, <4>2
      <4>4. part[some \ {x}] \in Int
        BY <1>1, <4>2
      <4>. QED
        BY <2>1, <3>1, <3>2, <4>1, <4>3, <4>4
    <3>3. CASE x \notin some
      <4>1. some \in SUBSET set /\ y \in set \ some /\ x \notin some \cup {y}
        BY <1>6, <2>3, <3>1, <3>3
      <4>. QED
        BY <1>1, <2>1, <3>3, <4>1
    <3>. QED
      BY <3>2, <3>3
  <2>. QED
    BY <2>2, <2>3
<1>. HIDE DEF new, more
<1>7. IsTotal(more, diff, total + diff[x])
  BY <1>4, <1>5, <1>6 DEF IsTotal
<1>. QED
  BY <1>7 DEF more

LEMMA TotalOfLess ==
    ASSUME NEW set, NEW diff, NEW total \in Int, IsTotal(set, diff, total),
           NEW x \in set, diff[x] \in Int
    PROVE  IsTotal(set \ {x}, diff, total - diff[x])
<1>1. PICK part \in [SUBSET set -> Int] :
          /\ part[{}] = 0 /\ part[set] = total
          /\ \A some \in SUBSET set : \A y \in set \ some : part[some \cup {y}] = part[some] + diff[y]
  BY DEF IsTotal
<1>. DEFINE less == set \ {x}
            new == [some \in SUBSET less |-> part[some]]
<1>2. \A some \in SUBSET less : some \in SUBSET set
  OBVIOUS
<1>3. new \in [SUBSET less -> Int] /\ new[{}] = 0
  BY <1>1, <1>2
<1>4. new[less] = total - diff[x]
  <2>1. less \in SUBSET set /\ x \in set \ less /\ less \cup {x} = set
    OBVIOUS
  <2>2. part[set] = part[less] + diff[x] /\ part[less] \in Int
    BY <1>1, <2>1
  <2>. QED
    BY <1>1, <2>2
<1>5. ASSUME NEW some \in SUBSET less, NEW y \in less \ some
      PROVE  new[some \cup {y}] = new[some] + diff[y]
  <2>1. some \in SUBSET set /\ y \in set \ some /\ some \cup {y} \in SUBSET less
    OBVIOUS
  <2>. QED
    BY <1>1, <2>1
<1>. HIDE DEF new
<1>. QED
  BY <1>3, <1>4, <1>5 DEF IsTotal

LEMMA DiffTyped ==
    ASSUME NEW item \in Item("xp"), NEW i
    PROVE  DiffFor(item, i) \in Nat
<1>1. item \in [id : Nat \ {0}, diff : Nat]
  BY ItemFacts
<1>2. item.diff \in Nat
  BY <1>1
<1>. QED
  BY <1>2 DEF DiffFor

LEMMA SumOfNone ==
    ASSUME NEW items \in Seq(Item("xp")), NEW i, \A n \in DOMAIN items : items[n].id # i
    PROVE  IsSum(items, i, 0)
<1>. DEFINE part == [n \in 0..Len(items) |-> 0]
<1>1. part \in [0..Len(items) -> Int] /\ part[0] = 0 /\ part[Len(items)] = 0
  OBVIOUS
<1>2. \A n \in 1..Len(items) : part[n] = part[n - 1] + DiffFor(items[n], i)
  BY DEF DiffFor
<1>. HIDE DEF part
<1>. QED
  BY <1>1, <1>2 DEF IsSum

LEMMA SumOfEmpty ==
    ASSUME NEW i, NEW sum
    PROVE  IsSum(<<>>, i, sum) <=> sum = 0
<1>1. IsSum(<<>>, i, sum) => sum = 0
  BY DEF IsSum
<1>2. IsSum(<<>>, i, 0)
  <2>1. <<>> \in Seq(Item("xp")) /\ \A n \in DOMAIN <<>> : <<>>[n].id # i
    OBVIOUS
  <2>. QED
    BY <2>1, SumOfNone
<1>. QED
  BY <1>1, <1>2

LEMMA SumOfAppend ==
    ASSUME NEW items \in Seq(Item("xp")), NEW i, NEW sum \in Int, IsSum(items, i, sum),
           NEW item \in Item("xp")
    PROVE  IsSum(Append(items, item), i, sum + DiffFor(item, i))
<1>. DEFINE more == Append(items, item)
            len == Len(items)
<1>1. PICK part \in [0..len -> Int] :
          /\ part[0] = 0 /\ part[len] = sum
          /\ \A n \in 1..len : part[n] = part[n - 1] + DiffFor(items[n], i)
  BY DEF IsSum
<1>2. /\ Len(more) = len + 1 /\ len \in Nat /\ more[len + 1] = item
      /\ \A n \in 1..len : more[n] = items[n]
  OBVIOUS
<1>3. DiffFor(item, i) \in Int
  BY DiffTyped
<1>. HIDE DEF more, len
<1>. DEFINE new == [n \in 0..(len + 1) |-> IF n = len + 1 THEN sum + DiffFor(item, i) ELSE part[n]]
<1>4. new \in [0..(len + 1) -> Int] /\ new[0] = 0 /\ new[len + 1] = sum + DiffFor(item, i)
  BY <1>1, <1>2, <1>3
<1>5. ASSUME NEW n \in 1..(len + 1)
      PROVE  new[n] = new[n - 1] + DiffFor(more[n], i)
  <2>1. CASE n = len + 1
    BY <1>1, <1>2, <2>1
  <2>2. CASE n # len + 1
    BY <1>1, <1>2, <2>2
  <2>. QED
    BY <2>1, <2>2
<1>. HIDE DEF new
<1>6. IsSum(more, i, sum + DiffFor(item, i))
  BY <1>2, <1>4, <1>5 DEF IsSum
<1>. QED
  BY <1>6 DEF more

LEMMA SumOfTail ==
    ASSUME NEW items \in Seq(Item("xp")), items # <<>>, NEW i, NEW sum \in Int, IsSum(items, i, sum)
    PROVE  IsSum(Tail(items), i, sum - DiffFor(Head(items), i))
<1>. DEFINE rest == Tail(items)
            len == Len(rest)
            first == DiffFor(Head(items), i)
<1>1. PICK part \in [0..Len(items) -> Int] :
          /\ part[0] = 0 /\ part[Len(items)] = sum
          /\ \A n \in 1..Len(items) : part[n] = part[n - 1] + DiffFor(items[n], i)
  BY DEF IsSum
<1>2. /\ Len(items) = len + 1 /\ len \in Nat /\ items[1] = Head(items)
      /\ \A n \in 1..len : rest[n] = items[n + 1]
      /\ Head(items) \in Item("xp")
  BY TailFacts
<1>3. first \in Int
  BY <1>2, DiffTyped
<1>. HIDE DEF rest, len
<1>4. part[1] = first
  BY <1>1, <1>2, <1>3
<1>. HIDE DEF first
<1>. DEFINE new == [n \in 0..len |-> part[n + 1] - first]
<1>5. new \in [0..len -> Int] /\ new[0] = 0 /\ new[len] = sum - first
  BY <1>1, <1>2, <1>3, <1>4
<1>6. ASSUME NEW n \in 1..len
      PROVE  new[n] = new[n - 1] + DiffFor(rest[n], i)
  <2>1. n + 1 \in 1..Len(items) /\ (n + 1) - 1 = n /\ (n - 1) + 1 = n /\ n - 1 \in 0..len
    BY <1>2
  <2>2. part[n + 1] = part[n] + DiffFor(items[n + 1], i)
    BY <1>1, <2>1
  <2>3. new[n] = part[n + 1] - first /\ new[n - 1] = part[n] - first
    BY <2>1
  <2>4. items[n + 1] \in Item("xp") /\ rest[n] = items[n + 1] /\ part[n] \in Int
    BY <1>1, <1>2, <2>1
  <2>5. DiffFor(rest[n], i) \in Int
    BY <2>4, DiffTyped
  <2>. QED
    BY <1>3, <2>2, <2>3, <2>4, <2>5
<1>. HIDE DEF new
<1>7. IsSum(rest, i, sum - first)
  BY <1>2, <1>5, <1>6 DEF IsSum, len
<1>. QED
  BY <1>7 DEF rest, first

\* Each new row is told of once, with all its XP.
LEMMA SumOfAnnouncements ==
    ASSUME TInv, NEW rows \in Seq(Row), NEW n \in DOMAIN rows
    PROVE  IsSum(Announcements(rows), Len(ledger) + n, rows[n].value)
<1>. DEFINE items == Announcements(rows)
            i == Len(ledger) + n
            value == rows[n].value
            part == [m \in 0..Len(rows) |-> IF m < n THEN 0 ELSE value]
<1>1. Len(ledger) \in Nat /\ DOMAIN rows = 1..Len(rows) /\ Len(rows) \in Nat /\ n \in 1..Len(rows)
  BY DEF TInv, TypeOK, TablesTyped
<1>2. value \in Nat
  <2>1. rows[n] \in Row
    BY <1>1
  <2>. QED
    BY <2>1 DEF Row
<1>3. /\ Len(items) = Len(rows)
      /\ \A m \in 1..Len(rows) : items[m] = [id |-> Len(ledger) + m, diff |-> rows[m].value]
  BY <1>1 DEF Announcements
<1>. HIDE DEF value, items
<1>4. part \in [0..Len(items) -> Int] /\ part[0] = 0 /\ part[Len(items)] = value
  BY <1>1, <1>2, <1>3
<1>5. ASSUME NEW m \in 1..Len(items)
      PROVE  part[m] = part[m - 1] + DiffFor(items[m], i)
  <2>1. DiffFor(items[m], i) = IF m = n THEN value ELSE 0
    <3>1. m \in 1..Len(rows) /\ m \in Nat
      BY <1>1, <1>3
    <3>2. items[m].id = Len(ledger) + m /\ items[m].diff = rows[m].value
      <4>1. items[m] = [id |-> Len(ledger) + m, diff |-> rows[m].value]
        BY <1>3, <3>1
      <4>. QED
        BY ONLY <4>1
    <3>3. Len(ledger) + m = Len(ledger) + n <=> m = n
      BY <1>1, <3>1
    <3>. QED
      BY <3>2, <3>3 DEF DiffFor, value
  <2>. QED
    BY <1>1, <1>2, <1>3, <2>1
<1>. HIDE DEF part
<1>6. IsSum(items, i, value)
  BY <1>4, <1>5 DEF IsSum
<1>. QED
  BY <1>6 DEF items, value


\* Nothing is told of the rows that were there.
LEMMA SumOfOthers ==
    ASSUME TInv, NEW rows \in Seq(Row), NEW i \in DOMAIN ledger
    PROVE  IsSum(Announcements(rows), i, 0)
<1>. DEFINE items == Announcements(rows)
<1>1. Len(ledger) \in Nat /\ DOMAIN ledger = 1..Len(ledger) /\ DOMAIN rows = 1..Len(rows)
      /\ Len(rows) \in Nat
  BY DEF TInv, TypeOK, TablesTyped
<1>2. \A n \in DOMAIN rows : [id |-> Len(ledger) + n, diff |-> rows[n].value] \in Item("xp")
  <2>. SUFFICES ASSUME NEW n \in DOMAIN rows
                PROVE  [id |-> Len(ledger) + n, diff |-> rows[n].value] \in Item("xp")
    OBVIOUS
  <2>1. rows[n] \in Row
    BY <1>1
  <2>2. rows[n].value \in Nat /\ Len(ledger) + n \in Nat \ {0}
    BY <1>1, <2>1 DEF Row
  <2>. QED
    BY <2>2, ItemFacts
<1>3. items \in Seq(Item("xp")) /\ DOMAIN items = DOMAIN rows
  BY <1>1, <1>2 DEF Announcements
<1>4. ASSUME NEW n \in DOMAIN items
      PROVE  items[n].id # i
  <2>1. items[n] = [id |-> Len(ledger) + n, diff |-> rows[n].value]
    BY <1>3, <1>4 DEF Announcements
  <2>2. items[n].id = Len(ledger) + n
    BY ONLY <2>1
  <2>3. n \in Nat \ {0}
    BY <1>1, <1>3
  <2>. QED
    BY <1>1, <2>2, <2>3
<1>. HIDE DEF items
<1>5. IsSum(items, i, 0)
  BY <1>3, <1>4, SumOfNone
<1>. QED
  BY <1>5 DEF items

\* The parts of an account after a step.
LEMMA AccountHolds ==
    ASSUME NEW i, NEW a \in Int, NEW b \in Int, NEW c \in Int,
           IsTotal(Senders(i)', Diffs', a), IsSum(queue'["xp"], i, b), IsSum(work'.sends, i, c),
           ledger'[i].value = SeenOf(i)' + a + b + c
    PROVE  Account(i)'
BY DEF Account

\* The handlers that are sending, and what they send, are as they were.
LEMMA SendersKept ==
    ASSUME \A h \in Handlers : SendsXP(h)' <=> SendsXP(h),
           \A h \in Handlers : SendsXP(h) => call'[h].item = call[h].item,
           NEW i, NEW a, IsTotal(Senders(i), Diffs, a)
    PROVE  IsTotal(Senders(i)', Diffs', a)
<1>1. Senders(i)' = Senders(i)
  BY DEF Senders
<1>2. \A h \in Senders(i) : Diffs'[h] = Diffs[h]
  BY DEF Senders, Diffs
<1>3. IsTotal(Senders(i), Diffs', a)
  BY <1>2, TotalOfSame
<1>. QED
  BY <1>1, <1>3

\* A step that tells nothing and writes no XP.
LEMMA SInvQuiet ==
    ASSUME SInv, UNCHANGED <<ledger, seen>>, queue'["xp"] = queue["xp"], work'.sends = work.sends,
           \A h \in Handlers : SendsXP(h)' <=> SendsXP(h),
           \A h \in Handlers : SendsXP(h) => call'[h].item = call[h].item,
           \A h \in Handlers : WritesXP(h)' => AddsDiff(h)',
           work'.does # "send" => work'.sends = <<>>
    PROVE  SInv'
<1>1. ASSUME NEW i \in DOMAIN ledger
      PROVE  Account(i)'
  <2>1. PICK a, b, c \in Int :
            /\ IsTotal(Senders(i), Diffs, a)
            /\ IsSum(queue["xp"], i, b)
            /\ IsSum(work.sends, i, c)
            /\ ledger[i].value = SeenOf(i) + a + b + c
    BY DEF SInv, Account
  <2>2. IsTotal(Senders(i)', Diffs', a)
    BY <2>1, SendersKept
  <2>3. SeenOf(i)' = SeenOf(i)
    BY DEF SeenOf
  <2>. QED
    BY <2>1, <2>2, <2>3, AccountHolds
<1>. QED
  BY <1>1 DEF SInv

\* What a handler does but commit and send XP.
LEMMA SInvHandler ==
    ASSUME SInv, NEW h \in Handlers, \A g \in Handlers : g # h => call'[g] = call[g],
           UNCHANGED <<ledger, seen, work>>, queue'["xp"] = queue["xp"],
           ~SendsXP(h), ~SendsXP(h)', WritesXP(h)' => AddsDiff(h)'
    PROVE  SInv'
<1>1. \A g \in Handlers : SendsXP(g)' <=> SendsXP(g)
  BY DEF SendsXP
<1>2. \A g \in Handlers : SendsXP(g) => call'[g].item = call[g].item
  BY DEF SendsXP
<1>3. \A g \in Handlers : WritesXP(g)' => AddsDiff(g)'
  BY DEF SInv, WritesXP, AddsDiff
<1>. QED
  BY <1>1, <1>2, <1>3, SInvQuiet DEF SInv

LEMMA SInvInit == Init => SInv
<1>. SUFFICES ASSUME Init
              PROVE  SInv
  OBVIOUS
<1>1. DOMAIN seen = {} /\ DOMAIN ledger = {} /\ work.sends = <<>>
  BY DEF Init, Receiving
<1>2. \A h \in Handlers : ~WritesXP(h)
  BY DEF Init, Idle, WritesXP
<1>. QED
  BY <1>1, <1>2 DEF SInv

LEMMA SInvBegin ==
    ASSUME TInv, SInv, NEW h \in Handlers, Begin(h)
    PROVE  SInv'
<1>1. /\ DOMAIN call = Handlers
      /\ UNCHANGED <<ledger, seen, work, queue>>
      /\ ~SendsXP(h)
  BY DEF Begin, PostTrip, PutTrip, PostReport, React, Message, IsIdle, SendsXP, TInv, TypeOK,
         CallsTyped
<1>2. PICK state : call' = [call EXCEPT ![h] = state]
  BY DEF Begin, PostTrip, PutTrip, PostReport, React, Message, Set
<1>3. call'[h] = state /\ \A g \in Handlers : g # h => call'[g] = call[g]
  BY <1>1, <1>2
<1>4. ~SendsXP(h)' /\ (WritesXP(h)' => AddsDiff(h)')
  <2>1. CASE \E t \in Trips : PostTrip(h, t) \/ PutTrip(h, t)
    BY <1>1, <2>1 DEF PostTrip, PutTrip, FirstEdit, Set, Idle, SendsXP, WritesXP
  <2>2. CASE \E player \in Players : PostReport(h, player)
    BY <1>1, <2>2 DEF PostReport, Set, Idle, SendsXP, WritesXP
  <2>3. CASE \/ \E player \in Players, event \in Events : React(h, player, event)
             \/ \E player \in Players : Message(h, player)
    <3>1. /\ call'[h].does \in {"merge", "commit"}
          /\ call'[h].write.id = 0 /\ call'[h].write.diff = 1 /\ call'[h].write.row.value = 1
      <4>1. ASSUME NEW row, row.value = 1, NEW does \in {"merge", "commit"},
                   state = [Idle EXCEPT !.does = does, !.send = "xp", !.write = Insert(row)]
            PROVE  /\ state.does \in {"merge", "commit"}
                   /\ state.write.id = 0 /\ state.write.diff = 1 /\ state.write.row.value = 1
        BY <4>1 DEF Idle, Insert
      <4>2. PICK row, does : /\ row.value = 1 /\ does \in {"merge", "commit"}
                             /\ call' = [call EXCEPT ![h] =
                                    [Idle EXCEPT !.does = does, !.send = "xp", !.write = Insert(row)]]
        BY <2>3 DEF React, Message, Set, XP
      <4>3. state = [Idle EXCEPT !.does = does, !.send = "xp", !.write = Insert(row)]
        BY <1>1, <1>3, <4>2
      <4>. QED
        BY <1>3, <4>1, <4>2, <4>3
    <3>. QED
      BY <3>1 DEF SendsXP, AddsDiff
  <2>. QED
    BY <2>1, <2>2, <2>3 DEF Begin
<1>. QED
  BY <1>1, <1>3, <1>4, SInvHandler

LEMMA SInvCommitTrip ==
    ASSUME TInv, SInv, NEW h \in Handlers, CommitTrip(h) \/ FailCall(h)
    PROVE  SInv'
<1>1. /\ DOMAIN call = Handlers /\ CallTyped(call[h])
      /\ UNCHANGED <<ledger, seen, work, queue>>
      /\ ~SendsXP(h)
  BY DEF CommitTrip, FailCall, SendsXP, TInv, TypeOK, CallsTyped
<1>2. /\ \A g \in Handlers : g # h => call'[g] = call[g]
      /\ \/ call'[h] = Idle
         \/ call'[h] = [call[h] EXCEPT !.does = "send"] /\ call[h].send # "xp"
  BY <1>1 DEF CommitTrip, FailCall, Set
<1>3. ~SendsXP(h)' /\ ~WritesXP(h)'
  <2>1. CASE call'[h] = Idle
    BY <2>1 DEF Idle, SendsXP, WritesXP
  <2>2. CASE call'[h] = [call[h] EXCEPT !.does = "send"] /\ call[h].send # "xp"
    <3>1. call'[h].does = "send" /\ call'[h].send # "xp"
      BY <1>1, <2>2 DEF CallTyped
    <3>. QED
      BY <3>1 DEF SendsXP, WritesXP
  <2>. QED
    BY <1>2, <2>1, <2>2
<1>. QED
  BY <1>1, <1>2, <1>3, SInvHandler

\* What is merged was to be inserted, with all its XP as the difference.
LEMMA SInvMerge ==
    ASSUME TInv, RInv, SInv, NEW h \in Handlers, Merge(h)
    PROVE  SInv'
<1>. DEFINE c == call[h]
            row == c.write.row
            Merged(i) == [id |-> i, diff |-> row.value,
                          row |-> [row EXCEPT !.value = @ + ledger[i].value]]
<1>1. /\ CallTyped(c) /\ CallRefers(c) /\ c.does = "merge" /\ c.send = "xp" /\ DOMAIN call = Handlers
      /\ UNCHANGED <<now, weekStart, trips, ledger, achieved, participation, queue, work, seen>>
      /\ WritesXP(h) /\ ~SendsXP(h)
  BY DEF Merge, TInv, TypeOK, InDatabase, CallsTyped, CallTyped, WritesXP, SendsXP
<1>2. c.write \in Write /\ row \in Row /\ c.write.diff \in Nat
  BY <1>1 DEF CallTyped, Write
<1>3. c.write.id = 0 /\ row.value = c.write.diff
  <2>1. c.write.id = 0
    BY <1>1 DEF RInv, CallRows, XPToWrite
  <2>2. AddsDiff(h)
    BY <1>1 DEF SInv
  <2>. QED
    BY <1>2, <2>1, <2>2 DEF AddsDiff
<1>4. PICK write : /\ write = c.write \/ \E i \in DOMAIN ledger : write = Merged(i)
                   /\ call' = [call EXCEPT ![h] = [c EXCEPT !.does = "commit", !.write = write]]
  <2>1. CASE call' = [call EXCEPT ![h] = [c EXCEPT !.does = "commit"]]
    <3>1. [c EXCEPT !.does = "commit"] = [c EXCEPT !.does = "commit", !.write = c.write]
      BY <1>1 DEF CallTyped
    <3>. QED
      BY <2>1, <3>1
  <2>2. ASSUME NEW i \in LastRows(row.player),
               call' = [call EXCEPT ![h] = [c EXCEPT !.does = "commit",
                            !.write = IF MergesWith(row, ledger[i]) THEN Merged(i) ELSE @]]
        PROVE  \E write : /\ write = c.write \/ \E j \in DOMAIN ledger : write = Merged(j)
                          /\ call' = [call EXCEPT ![h] = [c EXCEPT !.does = "commit",
                                                                   !.write = write]]
    <3>1. i \in DOMAIN ledger
      BY DEF LastRows, RowsOf
    <3>. QED
      BY <2>2, <3>1
  <2>. QED
    BY <2>1, <2>2 DEF Merge, Set
<1>5. /\ \A g \in Handlers : g # h => call'[g] = call[g]
      /\ call'[h] = [does |-> "commit", write |-> write, trip |-> c.trip,
                     send |-> "xp", item |-> c.item]
  BY <1>1, <1>4 DEF CallTyped
<1>6. write.row.value = write.diff + IF write.id = 0 THEN 0 ELSE ledger[write.id].value
  <2>1. CASE write = c.write
    BY <1>2, <1>3, <2>1
  <2>2. ASSUME NEW i \in DOMAIN ledger, write = Merged(i)
        PROVE  write.row.value = write.diff + IF write.id = 0 THEN 0 ELSE ledger[write.id].value
    <3>1. i # 0
      BY DEF TInv, TypeOK, TablesTyped
    <3>2. write.id = i /\ write.diff = row.value /\ write.row = [row EXCEPT !.value = @ + ledger[i].value]
      BY <2>2
    <3>3. write.row.value = row.value + ledger[i].value
      BY <1>2, <3>2 DEF Row
    <3>. QED
      BY <3>1, <3>2, <3>3
  <2>. QED
    BY <1>4, <2>1, <2>2
<1>7. ~SendsXP(h)' /\ AddsDiff(h)'
  <2>1. call'[h].does = "commit" /\ call'[h].write = write
    BY <1>5
  <2>. QED
    BY <1>1, <1>6, <2>1 DEF SendsXP, AddsDiff
<1>. QED
  BY <1>1, <1>5, <1>7, SInvHandler

\* An item that is sent is told to the channel instead of by its handler.
LEMMA SInvRegister ==
    ASSUME TInv, SInv, NEW h \in Handlers, Register(h)
    PROVE  SInv'
<1>1. /\ DOMAIN call = Handlers /\ CallTyped(call[h]) /\ CallRefers(call[h]) /\ call[h].does = "send"
      /\ Send(call[h].send, call[h].item) /\ DOMAIN queue = Kinds
      /\ UNCHANGED <<ledger, seen, work>>
      /\ call' = [call EXCEPT ![h] = Idle]
  BY DEF Register, Set, TInv, TypeOK, InDatabase, CallsTyped, QueuesTyped
<1>2. /\ \A g \in Handlers : g # h => call'[g] = call[g]
      /\ call'[h] = Idle
  BY <1>1
<1>3. ~SendsXP(h)' /\ ~WritesXP(h)'
  BY <1>2 DEF Idle, SendsXP, WritesXP
<1>4. CASE call[h].send # "xp"
  <2>1. queue'["xp"] = queue["xp"]
    BY <1>1, <1>4 DEF Send, Kinds
  <2>2. ~SendsXP(h)
    BY <1>4 DEF SendsXP
  <2>. QED
    BY <1>1, <1>2, <1>3, <2>1, <2>2, SInvHandler
<1>5. CASE call[h].send = "xp"
  <2>1. PICK item \in Item("xp") : call[h].item = item
    BY <1>1, <1>5 DEF CallTyped
  <2>2. item \in [id : Nat \ {0}, diff : Nat]
    BY <2>1, ItemFacts
  <2>3. item.diff \in Nat /\ item.id \in Nat
    BY <2>2
  <2>4. queue["xp"] \in Seq(Item("xp")) /\ queue'["xp"] = Append(queue["xp"], item)
    BY <1>1, <1>5, <2>1 DEF Send, Kinds, TInv, TypeOK, QueuesTyped
  <2>5. SendsXP(h)
    BY <1>1, <1>5 DEF SendsXP
  <2>6. ASSUME NEW i \in DOMAIN ledger
        PROVE  Account(i)'
    <3>1. PICK a, b, c \in Int :
              /\ IsTotal(Senders(i), Diffs, a)
              /\ IsSum(queue["xp"], i, b)
              /\ IsSum(work.sends, i, c)
              /\ ledger[i].value = SeenOf(i) + a + b + c
      BY DEF SInv, Account
    <3>2. IsSum(queue'["xp"], i, b + DiffFor(item, i))
      BY <2>4, <3>1, SumOfAppend
    <3>3. SeenOf(i)' = SeenOf(i)
      BY <1>1 DEF SeenOf
    <3>4. DiffFor(item, i) \in Nat
      BY DiffTyped
    <3>5. \A g \in Senders(i)' : Diffs'[g] = Diffs[g]
      BY <1>2, <1>3 DEF Senders, Diffs, SendsXP
    <3>6. SeenOf(i) \in Nat
      BY DEF SInv, SeenOf
    <3>7. ledger'[i].value = ledger[i].value /\ work'.sends = work.sends
      BY <1>1
    <3>8. CASE item.id = i
      <4>1. Senders(i)' = Senders(i) \ {h} /\ h \in Senders(i)
        BY <1>2, <1>3, <2>1, <2>5, <3>8 DEF Senders, SendsXP
      <4>2. Diffs[h] = item.diff
        BY <2>1 DEF Diffs
      <4>3. IsTotal(Senders(i) \ {h}, Diffs, a - item.diff)
        BY <2>3, <3>1, <4>1, <4>2, TotalOfLess
      <4>4. IsTotal(Senders(i)', Diffs', a - item.diff)
        BY <3>5, <4>1, <4>3, TotalOfSame
      <4>5. DiffFor(item, i) = item.diff
        BY <3>8 DEF DiffFor
      <4>6. ledger[i].value = SeenOf(i) + (a - item.diff) + (b + DiffFor(item, i)) + c
        BY <2>3, <3>1, <3>6, <4>5
      <4>. QED
        BY <2>3, <3>1, <3>2, <3>3, <3>4, <3>7, <4>4, <4>6, AccountHolds
    <3>9. CASE item.id # i
      <4>1. Senders(i)' = Senders(i)
        BY <1>2, <1>3, <2>1, <3>9 DEF Senders, SendsXP
      <4>2. IsTotal(Senders(i)', Diffs', a)
        BY <3>1, <3>5, <4>1, TotalOfSame
      <4>3. DiffFor(item, i) = 0
        BY <3>9 DEF DiffFor
      <4>4. ledger[i].value = SeenOf(i) + a + (b + DiffFor(item, i)) + c
        BY <3>1, <4>3
      <4>. QED
        BY <3>1, <3>2, <3>3, <3>4, <3>7, <4>2, <4>4, AccountHolds
    <3>. QED
      BY <3>8, <3>9
  <2>7. \A g \in Handlers : WritesXP(g)' => AddsDiff(g)'
    BY <1>1, <1>2, <1>3 DEF SInv, WritesXP, AddsDiff
  <2>. QED
    BY <1>1, <2>6, <2>7 DEF SInv
<1>. QED
  BY <1>4, <1>5

\* What the processor does but commit, send and receive XP.
LEMMA SInvWork ==
    ASSUME SInv, UNCHANGED <<ledger, seen, call>>, queue'["xp"] = queue["xp"], work.does # "send",
           work'.sends = <<>>
    PROVE  SInv'
<1>1. work.sends = <<>>
  BY DEF SInv
<1>2. \A h \in Handlers : SendsXP(h)' <=> SendsXP(h)
  BY DEF SendsXP
<1>3. \A h \in Handlers : WritesXP(h)' => AddsDiff(h)'
  BY DEF SInv, WritesXP, AddsDiff
<1>. QED
  BY <1>1, <1>2, <1>3, SInvQuiet

LEMMA SInvPrepare ==
    ASSUME TInv, SInv, RewardTrip \/ GrantAchievements \/ FailWork
    PROVE  SInv'
<1>1. /\ UNCHANGED <<ledger, seen, call, queue>> /\ work.does # "send" /\ WorkTyped
  BY DEF RewardTrip, GrantAchievements, FailWork, Unchanged, TInv, TypeOK
<1>2. work.sends = <<>>
  BY <1>1 DEF SInv
<1>3. work'.sends = <<>>
  <2>1. CASE RewardTrip
    BY <1>1, <1>2, <2>1 DEF RewardTrip, WorkTyped
  <2>2. CASE GrantAchievements
    <3>1. CASE work' = Receiving
      BY <3>1 DEF Receiving
    <3>2. ASSUME NEW grants, NEW rows,
                 work' = [work EXCEPT !.does = "commit", !.next = "receive", !.grants = grants,
                                      !.rows = rows]
          PROVE  work'.sends = <<>>
      BY <1>1, <1>2, <3>2 DEF WorkTyped
    <3>. QED
      BY <2>2, <3>1, <3>2, GrantFacts
  <2>3. CASE FailWork
    BY <2>3 DEF FailWork, Go, Receiving
  <2>. QED
    BY <2>1, <2>2, <2>3
<1>. QED
  BY <1>1, <1>3, SInvWork

\* An item that is received is seen instead of being in the channel.
LEMMA SInvReceive ==
    ASSUME TInv, SInv, NEW kind \in Kinds, Receive(kind)
    PROVE  SInv'
<1>1. /\ UNCHANGED <<ledger, call>> /\ work.does = "receive" /\ work'.sends = <<>>
      /\ DOMAIN queue = Kinds /\ queue[kind] # <<>>
      /\ queue' = [queue EXCEPT ![kind] = Tail(queue[kind])]
      /\ queue["xp"] \in Seq(Item("xp"))
  BY DEF Receive, Receiving, Unchanged, TInv, TypeOK, QueuesTyped, Kinds
<1>2. CASE kind # "xp"
  <2>1. queue'["xp"] = queue["xp"] /\ UNCHANGED seen
    BY <1>1, <1>2 DEF Receive, Kinds
  <2>. QED
    BY <1>1, <2>1, SInvWork
<1>3. CASE kind = "xp"
  <2>. DEFINE q == queue["xp"]
  <2>1. q \in Seq(Item("xp")) /\ q # <<>> /\ queue'["xp"] = Tail(q)
    BY <1>1, <1>3 DEF Kinds
  <2>2. PICK item \in Item("xp") : item = Head(q)
    BY <2>1, TailFacts
  <2>3. item \in [id : Nat \ {0}, diff : Nat]
    BY <2>2, ItemFacts
  <2>4. item.diff \in Nat
    BY <2>3
  <2>5. seen' = [i \in DOMAIN seen \cup {item.id} |->
                     SeenOf(i) + IF i = item.id THEN item.diff ELSE 0]
    BY <1>3, <2>2 DEF Receive
  <2>. HIDE DEF q
  <2>6. ASSUME NEW i
        PROVE  SeenOf(i) \in Nat /\ SeenOf(i)' = SeenOf(i) + DiffFor(item, i)
               /\ SeenOf(i)' \in Nat
    <3>1. SeenOf(i) \in Nat
      BY DEF SInv, SeenOf
    <3>2. CASE i \in DOMAIN seen \cup {item.id}
      BY <2>4, <2>5, <3>1, <3>2 DEF SeenOf, DiffFor
    <3>3. CASE i \notin DOMAIN seen \cup {item.id}
      BY <2>5, <3>1, <3>3 DEF SeenOf, DiffFor
    <3>. QED
      BY <3>1, <3>2, <3>3
  <2>7. \A i \in DOMAIN seen' : seen'[i] \in Nat
    BY <2>6 DEF SeenOf
  <2>8. ASSUME NEW i \in DOMAIN ledger
        PROVE  Account(i)'
    <3>1. PICK a, b, c \in Int :
              /\ IsTotal(Senders(i), Diffs, a)
              /\ IsSum(queue["xp"], i, b)
              /\ IsSum(work.sends, i, c)
              /\ ledger[i].value = SeenOf(i) + a + b + c
      BY DEF SInv, Account
    <3>2. IsSum(queue'["xp"], i, b - DiffFor(item, i))
      BY <2>1, <2>2, <3>1, SumOfTail DEF q
    <3>3. IsTotal(Senders(i)', Diffs', a)
      BY <1>1, <3>1, SendersKept DEF SendsXP
    <3>4. DiffFor(item, i) \in Nat
      BY DiffTyped
    <3>5. work'.sends = work.sends
      BY <1>1 DEF SInv
    <3>6. ledger'[i].value = SeenOf(i)' + a + (b - DiffFor(item, i)) + c
      BY <1>1, <2>6, <3>1, <3>4
    <3>. QED
      BY <3>1, <3>2, <3>3, <3>4, <3>5, <3>6, AccountHolds
  <2>9. \A h \in Handlers : WritesXP(h)' => AddsDiff(h)'
    BY <1>1 DEF SInv, WritesXP, AddsDiff
  <2>. QED
    BY <1>1, <2>7, <2>8, <2>9 DEF SInv
<1>. QED
  BY <1>2, <1>3

\* What the processor sends goes from its list to the channel.
LEMMA SInvSendWork ==
    ASSUME TInv, SInv, SendWork
    PROVE  SInv'
<1>1. /\ UNCHANGED <<ledger, seen, call>> /\ work.does = "send" /\ WorkTyped
      /\ DOMAIN queue = Kinds /\ queue["xp"] \in Seq(Item("xp"))
      /\ work.sends \in Seq(Item("xp"))
  BY DEF SendWork, Unchanged, TInv, TypeOK, QueuesTyped, WorkTyped, Kinds
<1>2. \A h \in Handlers : WritesXP(h)' => AddsDiff(h)'
  BY <1>1 DEF SInv, WritesXP, AddsDiff
<1>3. \A h \in Handlers : (SendsXP(h)' <=> SendsXP(h)) /\ call'[h].item = call[h].item
  BY <1>1 DEF SendsXP
<1>4. CASE work.sends = <<>>
  <2>1. work'.sends = <<>> /\ UNCHANGED queue
    <3>1. work' = Go(work.next) /\ UNCHANGED queue
      BY <1>4 DEF SendWork
    <3>. QED
      BY <3>1 DEF Go, Receiving
  <2>. QED
    BY <1>1, <1>2, <1>3, <1>4, <2>1, SInvQuiet
<1>5. CASE work.sends # <<>>
  <2>1. PICK item \in Item("xp") : item = Head(work.sends)
    BY <1>1, <1>5, TailFacts
  <2>2. /\ queue'["xp"] = Append(queue["xp"], item)
        /\ work'.sends = Tail(work.sends) /\ work'.does = "send"
    BY <1>1, <1>5, <2>1 DEF SendWork, Send, Kinds, WorkTyped
  <2>3. ASSUME NEW i \in DOMAIN ledger
        PROVE  Account(i)'
    <3>1. PICK a, b, c \in Int :
              /\ IsTotal(Senders(i), Diffs, a)
              /\ IsSum(queue["xp"], i, b)
              /\ IsSum(work.sends, i, c)
              /\ ledger[i].value = SeenOf(i) + a + b + c
      BY DEF SInv, Account
    <3>2. IsSum(queue'["xp"], i, b + DiffFor(item, i))
      BY <1>1, <2>2, <3>1, SumOfAppend
    <3>3. IsSum(work'.sends, i, c - DiffFor(item, i))
      BY <1>1, <1>5, <2>1, <2>2, <3>1, SumOfTail
    <3>4. IsTotal(Senders(i)', Diffs', a)
      BY <1>3, <3>1, SendersKept
    <3>5. DiffFor(item, i) \in Nat
      BY DiffTyped
    <3>6. SeenOf(i)' = SeenOf(i) /\ SeenOf(i) \in Nat
      BY <1>1 DEF SInv, SeenOf
    <3>7. ledger'[i].value = SeenOf(i)' + a + (b + DiffFor(item, i)) + (c - DiffFor(item, i))
      BY <1>1, <3>1, <3>5, <3>6
    <3>. QED
      BY <3>1, <3>2, <3>3, <3>4, <3>5, <3>7, AccountHolds
  <2>. QED
    BY <1>1, <1>2, <2>2, <2>3 DEF SInv
<1>. QED
  BY <1>4, <1>5

\* A row gets what its handler will tell of it.
LEMMA SInvCommitXP ==
    ASSUME TInv, TInv', RInv, CallsApart, SInv, NEW h \in Handlers, CommitXP(h)
    PROVE  SInv'
<1>0. PICK write, id : write = call[h].write /\ id = ID(write)
  OBVIOUS
<1>1. /\ CallTyped(call[h]) /\ CallRefers(call[h]) /\ WritesXP(h) /\ DOMAIN call = Handlers
      /\ call[h].does = "commit" /\ call[h].send = "xp"
      /\ UNCHANGED <<queue, work, seen>>
      /\ ledger' = Written(ledger, write) /\ ledger \in Seq(Row)
  BY <1>0 DEF CommitXP, WritesXP, TInv, TypeOK, InDatabase, CallsTyped, TablesTyped
<1>2. write \in Write /\ (write.id = 0 \/ write.id \in DOMAIN ledger)
  BY <1>0, <1>1 DEF CallTyped, CallRefers
<1>3. /\ DOMAIN ledger' = DOMAIN ledger \cup {id} /\ ledger'[id] = write.row
      /\ \A i \in DOMAIN ledger : i # id => ledger'[i] = ledger[i]
      /\ write.id = 0 => id \notin DOMAIN ledger
      /\ write.id # 0 => id = write.id
      /\ id \in Nat \ {0}
  BY <1>0, <1>1, <1>2, WrittenFacts
<1>4. /\ \A g \in Handlers : g # h => call'[g] = call[g]
      /\ call'[h] = [does |-> "send", write |-> "none", trip |-> NoTrip, send |-> "xp",
                     item |-> [id |-> id, diff |-> write.diff]]
  BY <1>0, <1>1 DEF CommitXP, Set, Idle, Announcement
<1>5. /\ write.row.value = write.diff + IF write.id = 0 THEN 0 ELSE ledger[write.id].value
      /\ write.diff \in Nat
  <2>1. AddsDiff(h)
    BY <1>1 DEF SInv
  <2>. QED
    BY <1>0, <1>2, <2>1 DEF AddsDiff, Write
<1>6. ~SendsXP(h) /\ SendsXP(h)' /\ ~WritesXP(h)'
      /\ call'[h].item.id = id /\ call'[h].item.diff = write.diff
  BY <1>1, <1>4 DEF SendsXP, WritesXP
<1>7. ASSUME NEW g \in Handlers, WritesXP(g)'
      PROVE  AddsDiff(g)'
  <2>1. g # h /\ WritesXP(g) /\ call'[g] = call[g]
    BY <1>4, <1>6, <1>7 DEF WritesXP
  <2>2. AddsDiff(g)
    BY <2>1 DEF SInv
  <2>3. XPToWrite(g) /\ XPToWrite(h) /\ ~Same(call[g].write.row, write.row)
    BY <1>0, <1>1, <2>1 DEF RInv, CallRows, CallsApart
  <2>4. call[g].write.id = 0 \/ call[g].write.id \in DOMAIN ledger
    BY <2>1 DEF TInv, InDatabase, CallRefers, WritesXP
  <2>5. call[g].write.id # id \/ call[g].write.id = 0
    <3>1. ASSUME call[g].write.id = id, call[g].write.id # 0
          PROVE  FALSE
      <4>1. write.id = id
        BY <1>3, <2>4, <3>1
      <4>2. Same(ledger[id], call[g].write.row) /\ Same(ledger[id], write.row)
        BY <1>0, <1>2, <2>3, <3>1, <4>1 DEF XPToWrite
      <4>. QED
        BY <2>3, <4>2 DEF Same
    <3>. QED
      BY <3>1
  <2>6. call[g].write.id # 0 => ledger'[call[g].write.id] = ledger[call[g].write.id]
    BY <1>3, <2>4, <2>5
  <2>. QED
    BY <2>1, <2>2, <2>6 DEF AddsDiff
<1>8. ASSUME NEW i, NEW a \in Int, IsTotal(Senders(i), Diffs, a),
             \A g \in Senders(i) : Diffs[g] \in Int
      PROVE  /\ i # id => IsTotal(Senders(i)', Diffs', a)
             /\ i = id => IsTotal(Senders(i)', Diffs', a + write.diff)
  <2>1. \A g \in Senders(i) : g # h /\ Diffs'[g] = Diffs[g]
    BY <1>4, <1>6 DEF Senders, Diffs
  <2>2. IsTotal(Senders(i), Diffs', a)
    BY <1>8, <2>1, TotalOfSame
  <2>3. CASE i # id
    <3>1. Senders(i)' = Senders(i)
      BY <1>4, <1>6, <2>3 DEF Senders, SendsXP
    <3>. QED
      BY <2>2, <2>3, <3>1
  <2>4. CASE i = id
    <3>1. Senders(i)' = Senders(i) \cup {h} /\ h \notin Senders(i)
      BY <1>4, <1>6, <2>4 DEF Senders, SendsXP
    <3>2. Diffs'[h] = write.diff
      BY <1>6 DEF Diffs
    <3>3. \A g \in Senders(i) : Diffs'[g] \in Int
      BY <1>8, <2>1
    <3>4. Diffs'[h] \in Int
      BY <1>5, <3>2
    <3>5. IsTotal(Senders(i) \cup {h}, Diffs', a + Diffs'[h])
      BY <2>2, <3>1, <3>3, <3>4, TotalOfMore
    <3>. QED
      BY <2>4, <3>1, <3>2, <3>5
  <2>. QED
    BY <2>3, <2>4
<1>9. ASSUME NEW i, NEW g \in Senders(i)
      PROVE  Diffs[g] \in Int /\ i \in DOMAIN ledger
  <2>1. g \in Handlers /\ SendsXP(g) /\ call[g].item.id = i
    BY <1>9 DEF Senders
  <2>2. call[g].item \in Item("xp") /\ call[g].item.id \in DOMAIN ledger
    BY <2>1 DEF SendsXP, TInv, TypeOK, CallsTyped, CallTyped, InDatabase, CallRefers
  <2>3. call[g].item \in [id : Nat \ {0}, diff : Nat]
    BY <2>2, ItemFacts
  <2>4. call[g].item.diff \in Nat
    BY <2>3
  <2>. QED
    BY <2>1, <2>2, <2>4 DEF Diffs
<1>10. \A i : SeenOf(i)' = SeenOf(i) /\ SeenOf(i) \in Nat
  BY <1>1 DEF SInv, SeenOf
<1>11. ASSUME NEW i \in DOMAIN ledger
       PROVE  Account(i)'
  <2>1. PICK a, b, c \in Int :
            /\ IsTotal(Senders(i), Diffs, a)
            /\ IsSum(queue["xp"], i, b)
            /\ IsSum(work.sends, i, c)
            /\ ledger[i].value = SeenOf(i) + a + b + c
    BY DEF SInv, Account
  <2>2. IsSum(queue'["xp"], i, b) /\ IsSum(work'.sends, i, c)
    BY <1>1, <2>1
  <2>3. CASE i # id
    <3>1. ledger'[i].value = SeenOf(i)' + a + b + c
      BY <1>3, <1>10, <2>1, <2>3
    <3>2. IsTotal(Senders(i)', Diffs', a)
      BY <1>8, <1>9, <2>1, <2>3
    <3>. QED
      BY <2>1, <2>2, <3>1, <3>2, AccountHolds
  <2>4. CASE i = id
    <3>1. write.id = i /\ write.id # 0
      BY <1>3, <2>4
    <3>2. ledger'[i].value = write.diff + ledger[i].value
      BY <1>3, <1>5, <2>4, <3>1
    <3>3. ledger'[i].value = SeenOf(i)' + (a + write.diff) + b + c
      BY <1>5, <1>10, <2>1, <3>2
    <3>4. IsTotal(Senders(i)', Diffs', a + write.diff)
      BY <1>8, <1>9, <2>1, <2>4
    <3>5. a + write.diff \in Int
      BY <1>5
    <3>. QED
      BY <2>1, <2>2, <3>3, <3>4, <3>5, AccountHolds
  <2>. QED
    BY <2>3, <2>4
<1>12. ASSUME id \notin DOMAIN ledger
       PROVE  Account(id)'
  <2>1. Senders(id) = {} /\ SeenOf(id) = 0
    BY <1>9, <1>12 DEF SeenOf, TInv, TypeOK, TablesTyped
  <2>2. IsTotal(Senders(id), Diffs, 0)
    BY <2>1, TotalOfNone
  <2>3. IsTotal(Senders(id)', Diffs', 0 + write.diff)
    <3>1. \A g \in Senders(id) : Diffs[g] \in Int
      BY <2>1
    <3>. QED
      BY <1>8, <2>2, <3>1
  <2>4. queue["xp"] \in Seq(Item("xp")) /\ \A n \in DOMAIN queue["xp"] : queue["xp"][n].id # id
    BY <1>12 DEF TInv, TypeOK, QueuesTyped, InDatabase, QueuesRefer, Kinds
  <2>5. work.sends \in Seq(Item("xp")) /\ \A n \in DOMAIN work.sends : work.sends[n].id # id
    BY <1>12 DEF TInv, TypeOK, WorkTyped, InDatabase, WorkRefers
  <2>6. IsSum(queue'["xp"], id, 0) /\ IsSum(work'.sends, id, 0)
    BY <1>1, <2>4, <2>5, SumOfNone
  <2>7. write.id = 0
    BY <1>2, <1>3, <1>12
  <2>8. ledger'[id].value = SeenOf(id)' + (0 + write.diff) + 0 + 0
    <3>1. ledger'[id].value = write.diff
      BY <1>3, <1>5, <2>7
    <3>2. SeenOf(id)' = 0
      BY <1>10, <2>1
    <3>. QED
      BY <1>5, <3>1, <3>2
  <2>9. 0 + write.diff \in Int
    BY <1>5
  <2>. QED
    BY <2>3, <2>6, <2>8, <2>9, AccountHolds
<1>13. \A i \in DOMAIN ledger' : Account(i)'
  BY <1>3, <1>11, <1>12
<1>14. (\A i \in DOMAIN seen' : seen'[i] \in Nat) /\ (work'.does # "send" => work'.sends = <<>>)
  BY <1>1 DEF SInv
<1>. QED
  BY <1>7, <1>13, <1>14 DEF SInv

\* New rows are told of by the processor.
LEMMA SInvCommitWork ==
    ASSUME TInv, SInv, CommitWork
    PROVE  SInv'
<1>1. /\ UNCHANGED <<call, queue, seen>> /\ WorkTyped /\ work.does = "commit"
      /\ ledger \in Seq(Row) /\ work.rows \in Seq(Row) /\ ledger' = ledger \o work.rows
      /\ queue["xp"] \in Seq(Item("xp"))
  BY DEF CommitWork, Unchanged, TInv, TypeOK, TablesTyped, WorkTyped, QueuesTyped, Kinds
<1>2. work'.sends = Announcements(work.rows) /\ work'.does = "send"
  BY <1>1 DEF CommitWork, WorkTyped
<1>3. work.sends = <<>>
  BY <1>1 DEF SInv
<1>4. /\ \A i \in DOMAIN ledger : i \in DOMAIN ledger' /\ ledger'[i] = ledger[i]
      /\ DOMAIN ledger = 1..Len(ledger) /\ Len(ledger) \in Nat
      /\ \A i \in DOMAIN ledger' : i \notin DOMAIN ledger =>
             /\ i - Len(ledger) \in DOMAIN work.rows /\ ledger'[i] = work.rows[i - Len(ledger)]
      /\ DOMAIN ledger' \subseteq Nat
  BY <1>1, ConcatFacts
<1>5. \A h \in Handlers : (SendsXP(h)' <=> SendsXP(h)) /\ call'[h].item = call[h].item
  BY <1>1 DEF SendsXP
<1>6. ASSUME NEW h \in Handlers, WritesXP(h)'
      PROVE  AddsDiff(h)'
  <2>1. WritesXP(h) /\ AddsDiff(h) /\ call'[h] = call[h]
    BY <1>1, <1>6 DEF SInv, WritesXP
  <2>2. call[h].write.id = 0 \/ call[h].write.id \in DOMAIN ledger
    BY <2>1 DEF TInv, InDatabase, CallRefers, WritesXP
  <2>. QED
    BY <1>4, <2>1, <2>2 DEF AddsDiff
<1>7. \A i : SeenOf(i)' = SeenOf(i) /\ SeenOf(i) \in Nat
  BY <1>1 DEF SInv, SeenOf
<1>8. ASSUME NEW i \in DOMAIN ledger
      PROVE  Account(i)'
  <2>1. PICK a, b, c \in Int :
            /\ IsTotal(Senders(i), Diffs, a)
            /\ IsSum(queue["xp"], i, b)
            /\ IsSum(work.sends, i, c)
            /\ ledger[i].value = SeenOf(i) + a + b + c
    BY DEF SInv, Account
  <2>2. c = 0
    BY <1>3, <2>1, SumOfEmpty
  <2>3. IsTotal(Senders(i)', Diffs', a)
    BY <1>5, <2>1, SendersKept
  <2>4. IsSum(work'.sends, i, 0)
    BY <1>1, <1>2, <1>4, SumOfOthers
  <2>5. ledger'[i].value = SeenOf(i)' + a + b + 0
    BY <1>4, <1>7, <2>1, <2>2
  <2>6. IsSum(queue'["xp"], i, b)
    BY <1>1, <2>1
  <2>. QED
    BY <2>1, <2>3, <2>4, <2>5, <2>6, AccountHolds
<1>9. ASSUME NEW i \in DOMAIN ledger', i \notin DOMAIN ledger
      PROVE  Account(i)'
  <2>1. PICK n \in DOMAIN work.rows : i = Len(ledger) + n /\ ledger'[i] = work.rows[n]
    <3>1. i \in Nat /\ i = Len(ledger) + (i - Len(ledger))
      BY <1>4
    <3>. QED
      BY <1>4, <1>9, <3>1
  <2>2. Senders(i) = {}
    BY <1>9 DEF Senders, SendsXP, TInv, InDatabase, CallRefers
  <2>3. IsTotal(Senders(i), Diffs, 0)
    BY <2>2, TotalOfNone
  <2>4. IsTotal(Senders(i)', Diffs', 0)
    BY <1>5, <2>3, SendersKept
  <2>5. \A m \in DOMAIN queue["xp"] : queue["xp"][m].id # i
    BY <1>9 DEF TInv, InDatabase, QueuesRefer
  <2>6. IsSum(queue'["xp"], i, 0)
    BY <1>1, <2>5, SumOfNone
  <2>7. PICK value : value = work.rows[n].value
    OBVIOUS
  <2>8. IsSum(work'.sends, i, value)
    BY <1>1, <1>2, <2>1, <2>7, SumOfAnnouncements
  <2>9. value \in Nat /\ ledger'[i].value = value
    <3>1. work.rows[n] \in Row
      BY <1>1
    <3>. QED
      BY <2>1, <2>7, <3>1 DEF Row
  <2>10. SeenOf(i)' = 0
    BY <1>7, <1>9 DEF SeenOf, TInv, TypeOK, TablesTyped
  <2>11. ledger'[i].value = SeenOf(i)' + 0 + 0 + value
    BY <2>9, <2>10
  <2>. QED
    BY <2>4, <2>6, <2>8, <2>9, <2>11, AccountHolds
<1>10. \A i \in DOMAIN ledger' : Account(i)'
  BY <1>8, <1>9
<1>11. \A i \in DOMAIN seen' : seen'[i] \in Nat
  BY <1>1 DEF SInv
<1>. QED
  BY <1>2, <1>6, <1>10, <1>11 DEF SInv

LEMMA SInvNext == TInv /\ TInv' /\ RInv /\ CallsApart /\ SInv /\ [Next]_vars => SInv'
<1>. SUFFICES ASSUME TInv, TInv', RInv, CallsApart, SInv, [Next]_vars
              PROVE  SInv'
  OBVIOUS
<1>1. ASSUME UNCHANGED <<ledger, call, queue, work, seen>>
      PROVE  SInv'
  <2>1. \A h \in Handlers : (SendsXP(h)' <=> SendsXP(h)) /\ (WritesXP(h)' => AddsDiff(h)')
    BY <1>1 DEF SInv, SendsXP, WritesXP, AddsDiff
  <2>. QED
    BY <1>1, <2>1, SInvQuiet DEF SInv
<1>2. CASE UNCHANGED vars \/ NewWeek \/ \E player \in Players : ForgetActivity(player)
  BY <1>1, <1>2 DEF vars, NewWeek, ForgetActivity
<1>3. ASSUME NEW h \in Handlers, Begin(h) \/ Continue(h) \/ FailCall(h)
      PROVE  SInv'
  BY <1>3, SInvBegin, SInvCommitTrip, SInvMerge, SInvCommitXP, SInvRegister DEF Continue
<1>4. CASE Process \/ FailWork
  BY <1>4, SInvReceive, SInvPrepare, SInvCommitWork, SInvSendWork DEF Process
<1>. QED
  BY <1>2, <1>3, <1>4 DEF Next

\* Under the same hypothesis: once everything is handled, the differences from
\* which levels are computed add up, row by row, to the XP of the ledger.
THEOREM AllSeen == Spec /\ []CallsApart => []SeenAll
<1>1. TInv /\ SInv => SeenAll
  <2>. SUFFICES ASSUME TInv, SInv, AllIdle, NEW i \in DOMAIN ledger
                PROVE  SeenOf(i) = ledger[i].value
    BY DEF SeenAll
  <2>1. PICK a, b, c \in Int :
            /\ IsTotal(Senders(i), Diffs, a)
            /\ IsSum(queue["xp"], i, b)
            /\ IsSum(work.sends, i, c)
            /\ ledger[i].value = SeenOf(i) + a + b + c
    BY DEF SInv, Account
  <2>2. Senders(i) = {} /\ queue["xp"] = <<>> /\ work.sends = <<>>
    BY DEF AllIdle, IsIdle, Kinds, Senders, SendsXP, SInv
  <2>3. a = 0 /\ b = 0 /\ c = 0
    BY <2>1, <2>2, TotalOfNone, SumOfEmpty
  <2>4. SeenOf(i) \in Nat
    BY DEF SInv, SeenOf
  <2>. QED
    BY <2>1, <2>3, <2>4
<1>. QED
  BY <1>1, SInvInit, SInvNext, RInvInit, RInvNext, Typing, PTL DEF Spec

=============================================================================

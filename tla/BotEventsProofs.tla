-------------------------- MODULE BotEventsProofs --------------------------
(***************************************************************************)
(* For any users, events, handlers and administrators: the maps of the bot *)
(* keep their types, and the answers of choice quizzes are rewarded as     *)
(* they should be, whatever overlaps.                                      *)
(***************************************************************************)
EXTENDS BotEvents, TLAPS

(***************************************************************************)
(* Private messages are numbered as they are sent, and the last one to a   *)
(* user is the one that is looked up for him.                              *)
(***************************************************************************)
LastMessages ==
    \A e \in Events, u \in Users :
        /\ u \in DOMAIN SentChoicesTo[e] <=> sent[e][u] > 0
        /\ u \in DOMAIN SentChoicesTo[e] => SentChoicesTo[e][u] = DM(e, u, sent[e][u])

WasSent(dm) == dm.number \in 1..sent[dm.event][dm.to]

About(h, dm) == call[h].does \in {"personal", "answer"} /\ call[h].dm = dm

(***************************************************************************)
(* What is stored or handled has been sent, and the handler that is about  *)
(* to store the data of a message is the first to touch them.              *)
(***************************************************************************)
Messages ==
    /\ \A k \in DOMAIN ongoing : k \in PrivateMessages => WasSent(k)
    /\ \A h \in Handlers : call[h].does \in {"personal", "answer"} => WasSent(call[h].dm)
    /\ \A h \in Handlers : call[h].does = "personal" =>
           /\ call[h].dm \notin DOMAIN ongoing
           /\ \A g \in Handlers : g # h => ~About(g, call[h].dm)
    /\ \A answer \in answers : sent[answer.event][answer.user] > 0

\* The answer with the data is one that was given.
AnswersGiven ==
    \A k \in DOMAIN ongoing : k \in PrivateMessages /\ ongoing[k].Answered =>
        \E answer \in AnswersOf(k.event, k.to) : answer.right = ongoing[k].right

(***************************************************************************)
(* Of an event and a user. An answer that came in time is with the data of *)
(* the only message until the event's goroutine has visited the user, whom *)
(* it must visit.                                                          *)
(***************************************************************************)
InTime(e, u) == \E answer \in AnswersOf(e, u) : ~answer.late

AllRight(e, u) == \A answer \in AnswersOf(e, u) : answer.right

Due(e, u) == sent[e][u] = 1 /\ InTime(e, u)

Kept(e, u) ==
    Due(e, u) /\ routine[e].at \notin {"cleaning", "over"} =>
        DM(e, u, 1) \in DOMAIN ongoing /\ ongoing[DM(e, u, 1)].Answered

Settled(e, u) == content[e][u] \in {"right", "not rewarded"}

Visits(e, u) ==
    routine[e].at = "rewarding" =>
        /\ routine[e].by = "time"
        /\ InTime(e, u) => u \in routine[e].must
        /\ u \notin routine[e].visited => content[e][u] = "nothing"
        /\ u \in routine[e].visited /\ Due(e, u) /\ AllRight(e, u) => Settled(e, u)

Told(e, u) == \E answer \in AnswersOf(e, u) : answer.right <=> content[e][u] # "wrong"

Rewarded(e, u) ==
    /\ xp[e][u] <= 1
    /\ xp[e][u] = 1 <=> content[e][u] = "right"
    /\ content[e][u] # "nothing" =>
           /\ Told(e, u)
           /\ routine[e].by = "time" /\ routine[e].at \in {"rewarding", "cleaning", "over"}
    /\ /\ routine[e].at \in {"cleaning", "over"} /\ routine[e].by = "time"
       /\ Due(e, u) /\ AllRight(e, u)
       => Settled(e, u)

RewardsDue ==
    \A e \in Events, u \in Users : Sort[e] = "choice" =>
        Kept(e, u) /\ Visits(e, u) /\ Rewarded(e, u)

IInv == TypeOK /\ LastMessages /\ Messages /\ AnswersGiven /\ RewardsDue

-----------------------------------------------------------------------------
LEMMA IInvInit == Init => IInv
<1>. SUFFICES ASSUME Init
              PROVE  IInv
  OBVIOUS
<1>1. Unborn \in Routine
  BY DEF Unborn, Routine
<1>2. /\ DOMAIN ongoing = {} /\ \A e \in Events : DOMAIN SentChoicesTo[e] = {}
      /\ \A e \in Events, u \in Users : sent[e][u] = 0 /\ xp[e][u] = 0 /\ content[e][u] = "nothing"
      /\ \A e \in Events : routine[e].at = "unborn"
      /\ answers = {} /\ \A h \in Handlers : call[h].does = "nothing"
  BY DEF Init, Unborn, Idle
<1>3. TypeOK
  BY <1>1, <1>2 DEF Init, TypeOK, CallTyped, Contents
<1>4. LastMessages /\ Messages /\ AnswersGiven
  BY <1>2 DEF LastMessages, Messages, AnswersGiven
<1>5. RewardsDue
  BY <1>2 DEF RewardsDue, Kept, Visits, Rewarded, Due
<1>. QED
  BY <1>3, <1>4, <1>5 DEF IInv

\* The calls of the others are as they were.
LEMMA CallStep ==
    ASSUME TypeOK, NEW h \in Handlers, DOMAIN call' = DOMAIN call, CallTyped(call'[h]),
           \A g \in Handlers : g # h => call'[g] = call[g]
    PROVE  DOMAIN call' = Handlers /\ \A g \in Handlers : CallTyped(call'[g])
BY DEF TypeOK

\* What does not touch messages, answers or events changes no reward.
LEMMA Still ==
    ASSUME IInv, UNCHANGED <<ongoing, routine, SentChoicesTo, xp, content, sent, answers>>
    PROVE  LastMessages' /\ AnswersGiven' /\ RewardsDue'
<1>1. LastMessages' /\ AnswersGiven'
  BY DEF IInv, LastMessages, AnswersGiven, AnswersOf
<1>2. ASSUME NEW e \in Events, NEW u \in Users, Sort[e] = "choice"
      PROVE  (Kept(e, u) /\ Visits(e, u) /\ Rewarded(e, u))'
  <2>1. Kept(e, u) /\ Visits(e, u) /\ Rewarded(e, u)
    BY <1>2 DEF IInv, RewardsDue
  <2>2. Kept(e, u)'
    BY <2>1 DEF Kept, Due, InTime, AnswersOf
  <2>3. Visits(e, u)'
    BY <2>1 DEF Visits, Settled, Due, InTime, AllRight, AnswersOf
  <2>4. Rewarded(e, u)'
    BY <2>1 DEF Rewarded, Settled, Told, Due, InTime, AllRight, AnswersOf
  <2>. QED
    BY <2>2, <2>3, <2>4
<1>. QED
  BY <1>1, <1>2 DEF RewardsDue

\* A handler begins or gives up. If it is to handle an answer, the data of the
\* message are stored.
LEMMA IInvCall ==
    ASSUME IInv, NEW h \in Handlers, DOMAIN call' = DOMAIN call, CallTyped(call'[h]),
           \A g \in Handlers : g # h => call'[g] = call[g],
           call'[h].does # "personal",
           call'[h].does = "answer" => call'[h].dm \in DOMAIN ongoing \cap PrivateMessages,
           UNCHANGED <<ongoing, routine, stopChan, stopping, SentChoicesTo, xp, content, sent, answers>>,
           AttemptTally' \in [Events -> [Users -> Nat]]
    PROVE  IInv'
<1>1. DOMAIN call' = Handlers /\ \A g \in Handlers : CallTyped(call'[g])
  BY CallStep DEF IInv
<1>2. TypeOK'
  BY <1>1 DEF IInv, TypeOK
<1>3. Messages'
  <2>1. \A k \in DOMAIN ongoing' : k \in PrivateMessages => WasSent(k)'
    BY DEF IInv, Messages, WasSent
  <2>2. \A g \in Handlers : call'[g].does \in {"personal", "answer"} => WasSent(call[g].dm)'
    BY DEF IInv, Messages, WasSent
  <2>3. ASSUME NEW g \in Handlers, call'[g].does = "personal"
        PROVE  /\ call'[g].dm \notin DOMAIN ongoing'
               /\ \A f \in Handlers : f # g => ~(About(f, call[g].dm))'
    <3>1. /\ g # h /\ call'[g] = call[g] /\ call[g].dm \notin DOMAIN ongoing
          /\ \A f \in Handlers : f # g => ~About(f, call[g].dm)
      BY <2>3 DEF IInv, Messages
    <3>. QED
      BY <3>1 DEF About
  <2>4. \A answer \in answers' : sent'[answer.event][answer.user] > 0
    BY DEF IInv, Messages
  <2>. QED
    BY <2>1, <2>2, <2>3, <2>4 DEF Messages
<1>. QED
  BY <1>2, <1>3, Still DEF IInv

\* All that a handler does before it stores something.
LEMMA IInvBegin ==
    ASSUME IInv, NEW h \in Handlers,
           \/ Fail(h) \/ StoreAttempts(h)
           \/ \E key \in DOMAIN ongoing :
                  \/ \E u \in Users : React(h, u, key) \/ ReactToQuestion(h, u, key)
                  \/ \E right \in BOOLEAN :
                         \/ ReactToChoices(h, key, right)
                         \/ \E u \in Users : AnswerQuiz(h, u, key, right)
    PROVE  IInv'
<1>1. TypeOK /\ CallTyped(call[h]) /\ DOMAIN call = Handlers
  BY DEF IInv, TypeOK
<1>2. UNCHANGED <<ongoing, routine, stopChan, stopping, SentChoicesTo, xp, content, sent, answers>>
  BY DEF Fail, StoreAttempts, React, ReactToQuestion, ReactToChoices, AnswerQuiz
<1>3. ASSUME NEW key \in DOMAIN ongoing, ongoing[key].is \in {"reaction", "quiz", "choice"}
      PROVE  /\ ongoing[key].event \in Events
             /\ ongoing[key].is = Sort[ongoing[key].event]
  BY <1>1, <1>3 DEF TypeOK, PersonalDatas, Event
<1>4. CallTyped(Idle)
  BY DEF CallTyped
<1>5. ASSUME Fail(h) \/ StoreAttempts(h)
      PROVE  IInv'
  <2>1. /\ DOMAIN call' = DOMAIN call /\ call'[h] = Idle
        /\ \A g \in Handlers : g # h => call'[g] = call[g]
    BY <1>1, <1>5 DEF Fail, StoreAttempts, Return
  <2>2. AttemptTally' \in [Events -> [Users -> Nat]]
    <3>1. CASE Fail(h)
      BY <1>1, <3>1 DEF Fail, TypeOK
    <3>2. CASE StoreAttempts(h)
      <4>1. call[h] \in [does : {"wrong"}, event : Events, user : Users, attempts : Nat]
        BY <1>1, <3>2 DEF StoreAttempts, CallTyped, Idle
      <4>. QED
        BY <1>1, <3>2, <4>1 DEF StoreAttempts, TypeOK
    <3>. QED
      BY <1>5, <3>1, <3>2
  <2>. QED
    BY <1>2, <1>4, <2>1, <2>2, IInvCall DEF Idle
<1>6. ASSUME NEW c, CallTyped(c), call' = [call EXCEPT ![h] = c], UNCHANGED AttemptTally,
             c.does # "personal",
             c.does = "answer" => c.dm \in DOMAIN ongoing \cap PrivateMessages
      PROVE  IInv'
  <2>1. /\ DOMAIN call' = DOMAIN call /\ call'[h] = c
        /\ \A g \in Handlers : g # h => call'[g] = call[g]
    BY <1>1, <1>6
  <2>2. AttemptTally' \in [Events -> [Users -> Nat]]
    BY <1>1, <1>6 DEF TypeOK
  <2>. QED
    BY <1>2, <1>6, <2>1, <2>2, IInvCall
<1>7. ASSUME NEW key \in DOMAIN ongoing, NEW u \in Users, React(h, u, key)
      PROVE  IInv'
  <2>. DEFINE c == [does |-> "win", event |-> ongoing[key].event, user |-> u]
  <2>1. call' = [call EXCEPT ![h] = c] /\ UNCHANGED AttemptTally /\ ongoing[key].is = "reaction"
    BY <1>7 DEF React, Calls
  <2>2. CallTyped(c)
    BY <1>3, <2>1 DEF CallTyped
  <2>. QED
    BY <1>6, <2>1, <2>2
<1>8. ASSUME NEW key \in DOMAIN ongoing, NEW u \in Users, ReactToQuestion(h, u, key)
      PROVE  IInv'
  <2>. DEFINE c == [does |-> "options", event |-> ongoing[key].event, user |-> u]
  <2>1. call' = [call EXCEPT ![h] = c] /\ UNCHANGED AttemptTally /\ ongoing[key].is = "choice"
    BY <1>8 DEF ReactToQuestion, Calls
  <2>2. CallTyped(c)
    BY <1>3, <2>1 DEF CallTyped
  <2>. QED
    BY <1>6, <2>1, <2>2
<1>9. ASSUME NEW dm \in DOMAIN ongoing, NEW right \in BOOLEAN, ReactToChoices(h, dm, right)
      PROVE  IInv'
  <2>. DEFINE c == [does |-> "answer", dm |-> dm, right |-> right]
  <2>1. call' = [call EXCEPT ![h] = c] /\ UNCHANGED AttemptTally /\ ongoing[dm].is = "personal"
    BY <1>9 DEF ReactToChoices, Calls
  <2>2. dm \in PrivateMessages
    <3>1. \A e \in Events : Event(e).is \in {"reaction", "quiz", "choice"}
      BY BotEventsAssumption DEF Event
    <3>2. \A e \in Events : ongoing[dm] # Event(e)
      BY <2>1, <3>1
    <3>. QED
      BY <1>1, <3>2 DEF TypeOK
  <2>3. CallTyped(c)
    BY <2>2 DEF CallTyped
  <2>. QED
    BY <1>6, <2>1, <2>2, <2>3
<1>10. ASSUME NEW key \in DOMAIN ongoing, NEW right \in BOOLEAN, NEW u \in Users,
              AnswerQuiz(h, u, key, right)
       PROVE  IInv'
  <2>. DEFINE e == ongoing[key].event
              wrong == [does |-> "wrong", event |-> e, user |-> u, attempts |-> AttemptTally[e][u] + 1]
              win == [does |-> "win", event |-> e, user |-> u]
  <2>1. /\ call' = [call EXCEPT ![h] = wrong] \/ call' = [call EXCEPT ![h] = win]
        /\ UNCHANGED AttemptTally /\ ongoing[key].is = "quiz"
    BY <1>10 DEF AnswerQuiz, Calls
  <2>2. e \in Events /\ Sort[e] # "choice"
    BY <1>3, <2>1
  <2>. HIDE DEF e
  <2>3. AttemptTally[e][u] + 1 \in Nat
    BY <1>1, <2>2 DEF TypeOK
  <2>4. CallTyped(wrong) /\ CallTyped(win)
    BY <2>2, <2>3 DEF CallTyped
  <2>. QED
    BY <1>6, <2>1, <2>4
<1>. QED
  BY <1>5, <1>7, <1>8, <1>9, <1>10

-----------------------------------------------------------------------------
(***************************************************************************)
(* The life of an event. Its goroutine stores events and deletes messages. *)
(***************************************************************************)
LEMMA RoutineKeeps ==
    ASSUME IInv, UNCHANGED <<SentChoicesTo, call, sent, answers>>,
           \A k \in DOMAIN ongoing' : k \in PrivateMessages =>
               k \in DOMAIN ongoing /\ ongoing'[k] = ongoing[k]
    PROVE  LastMessages' /\ Messages' /\ AnswersGiven'
<1>1. LastMessages'
  BY DEF IInv, LastMessages
<1>2. Messages'
  <2>1. \A h \in Handlers : call[h].does = "personal" => CallTyped(call[h])
    BY DEF IInv, TypeOK
  <2>2. \A h \in Handlers : call[h].does = "personal" => call[h].dm \in PrivateMessages
    BY <2>1 DEF CallTyped, Idle
  <2>3. \A h \in Handlers : call'[h].does = "personal" => call'[h].dm \notin DOMAIN ongoing'
    BY <2>2 DEF IInv, Messages
  <2>. QED
    BY <2>3 DEF IInv, Messages, WasSent, About
<1>3. AnswersGiven'
  BY DEF IInv, AnswersGiven, AnswersOf
<1>. QED
  BY <1>1, <1>2, <1>3

OngoingOK ==
    \A k \in DOMAIN ongoing :
        \/ k \in PrivateMessages /\ ongoing[k] \in PersonalDatas /\ ongoing[k].event = k.event
        \/ k \notin PrivateMessages /\ \E e \in Events : Key[e] = k /\ ongoing[k] = Event(e)

\* What a goroutine stores or deletes keeps the map's type.
LEMMA OngoingTyped ==
    ASSUME TypeOK, \A k \in DOMAIN ongoing' :
               \/ k \in DOMAIN ongoing /\ ongoing'[k] = ongoing[k]
               \/ k \notin PrivateMessages /\ \E e \in Events : Key[e] = k /\ ongoing'[k] = Event(e)
               \/ /\ k \in PrivateMessages /\ ongoing'[k] \in PersonalDatas
                  /\ ongoing'[k].event = k.event
    PROVE  OngoingOK'
BY DEF TypeOK, OngoingOK

\* No reward changes and nothing that is still to be looked at is deleted.
LEMMA RewardsKept ==
    ASSUME IInv, NEW e \in Events, NEW u \in Users, Sort[e] = "choice",
           UNCHANGED <<sent, answers>>, xp'[e][u] = xp[e][u], content'[e][u] = content[e][u],
           routine'[e] = routine[e],
           routine[e].at \notin {"cleaning", "over"} /\ DM(e, u, 1) \in DOMAIN ongoing =>
               DM(e, u, 1) \in DOMAIN ongoing' /\ ongoing'[DM(e, u, 1)] = ongoing[DM(e, u, 1)]
    PROVE  (Kept(e, u) /\ Visits(e, u) /\ Rewarded(e, u))'
<1>1. routine[e].at \in {"unborn", "waiting", "rewarding", "cleaning", "over"}
  BY DEF IInv, TypeOK, Routine
<1>2. Kept(e, u) /\ Visits(e, u) /\ Rewarded(e, u)
  BY DEF IInv, RewardsDue
<1>3. /\ Due(e, u)' <=> Due(e, u)
      /\ InTime(e, u)' <=> InTime(e, u)
      /\ AllRight(e, u)' <=> AllRight(e, u)
      /\ AnswersOf(e, u)' = AnswersOf(e, u)
  BY DEF Due, InTime, AllRight, AnswersOf
<1>4. Kept(e, u)'
  BY <1>1, <1>2, <1>3 DEF Kept
<1>5. Visits(e, u)'
  BY <1>2, <1>3 DEF Visits, Settled
<1>6. Rewarded(e, u)'
  BY <1>2, <1>3 DEF Rewarded, Settled, Told
<1>. QED
  BY <1>4, <1>5, <1>6

LEMMA StoredFacts ==
    ASSUME NEW map, NEW key, NEW value
    PROVE  /\ DOMAIN Stored(map, key, value) = DOMAIN map \cup {key}
           /\ Stored(map, key, value)[key] = value
           /\ \A k \in DOMAIN map : k # key => Stored(map, key, value)[k] = map[k]
BY DEF Stored

LEMMA DeletedFacts ==
    ASSUME NEW map, NEW key
    PROVE  /\ DOMAIN Deleted(map, key) = DOMAIN map \ {key}
           /\ \A k \in DOMAIN map : k # key => Deleted(map, key)[k] = map[k]
BY DEF Deleted, Restrict

LEMMA DMFacts ==
    /\ \A e \in Events, u \in Users, n \in Nat : DM(e, u, n) \in PrivateMessages
    /\ \A e, f \in Events, u, v \in Users, m, n \in Nat :
           DM(e, u, m) = DM(f, v, n) => e = f /\ u = v /\ m = n
BY DEF DM, PrivateMessages

LEMMA IInvStartEvent ==
    ASSUME IInv, NEW e \in Events, StartEvent(e)
    PROVE  IInv'
<1>1. /\ routine[e].at = "unborn" /\ routine \in [Events -> Routine]
      /\ routine' = [routine EXCEPT ![e].at = "waiting"]
      /\ ongoing' = Stored(ongoing, Key[e], Event(e))
      /\ UNCHANGED <<stopChan, stopping, SentChoicesTo, AttemptTally, xp, content, call, sent, answers>>
  BY DEF StartEvent, IInv, TypeOK
<1>2. Key[e] \notin PrivateMessages
  BY BotEventsAssumption
<1>3. /\ DOMAIN ongoing' = DOMAIN ongoing \cup {Key[e]} /\ ongoing'[Key[e]] = Event(e)
      /\ \A k \in DOMAIN ongoing : k # Key[e] => ongoing'[k] = ongoing[k]
  <2>. DEFINE key == Key[e]
              value == Event(e)
  <2>1. ongoing' = Stored(ongoing, key, value)
    BY <1>1
  <2>. HIDE DEF key, value
  <2>2. /\ DOMAIN ongoing' = DOMAIN ongoing \cup {key} /\ ongoing'[key] = value
        /\ \A k \in DOMAIN ongoing : k # key => ongoing'[k] = ongoing[k]
    BY <2>1 DEF Stored
  <2>. QED
    BY <2>2 DEF key, value
<1>4. routine' \in [Events -> Routine] /\ routine'[e].at = "waiting"
      /\ \A f \in Events : f # e => routine'[f] = routine[f]
  BY <1>1 DEF Routine
<1>5. TypeOK'
  <2>1. TypeOK
    BY DEF IInv
  <2>2. OngoingOK'
    BY <1>2, <1>3, <2>1, OngoingTyped
  <2>. QED
    BY <1>1, <1>4, <2>1, <2>2 DEF TypeOK, OngoingOK
<1>6. LastMessages' /\ Messages' /\ AnswersGiven'
  BY <1>1, <1>2, <1>3, RoutineKeeps
<1>7. ASSUME NEW f \in Events, NEW u \in Users, Sort[f] = "choice"
      PROVE  (Kept(f, u) /\ Visits(f, u) /\ Rewarded(f, u))'
  <2>1. DM(f, u, 1) \in DOMAIN ongoing =>
            DM(f, u, 1) \in DOMAIN ongoing' /\ ongoing'[DM(f, u, 1)] = ongoing[DM(f, u, 1)]
    BY <1>2, <1>3, DMFacts
  <2>2. /\ Due(f, u)' <=> Due(f, u)
        /\ InTime(f, u)' <=> InTime(f, u)
        /\ AllRight(f, u)' <=> AllRight(f, u)
        /\ AnswersOf(f, u)' = AnswersOf(f, u)
    BY <1>1 DEF Due, InTime, AllRight, AnswersOf
  <2>3. Kept(f, u) /\ Visits(f, u) /\ Rewarded(f, u)
    BY <1>7 DEF IInv, RewardsDue
  <2>4. Kept(f, u)'
    BY <1>1, <1>4, <2>1, <2>2, <2>3 DEF Kept
  <2>5. Visits(f, u)' /\ Rewarded(f, u)'
    <3>1. CASE f = e
      <4>1. xp[f][u] <= 1 /\ xp[f][u] # 1 /\ content[f][u] = "nothing"
        BY <1>1, <2>3, <3>1 DEF Rewarded
      <4>. QED
        BY <1>1, <1>4, <3>1, <4>1 DEF Visits, Rewarded, Settled
    <3>2. CASE f # e
      BY <1>1, <1>4, <2>2, <2>3, <3>2 DEF Visits, Rewarded, Settled, Told
    <3>. QED
      BY <3>1, <3>2
  <2>. QED
    BY <2>4, <2>5
<1>. QED
  BY <1>5, <1>6, <1>7 DEF IInv, RewardsDue

\* An administrator does not touch what is rewarded.
LEMMA IInvStop ==
    ASSUME IInv, NEW a \in Admins, SendStop(a) \/ \E key \in DOMAIN ongoing : StopEvent(a, key)
    PROVE  IInv'
<1>1. /\ UNCHANGED <<ongoing, routine, SentChoicesTo, AttemptTally, xp, content, call, sent, answers>>
      /\ TypeOK
  BY DEF SendStop, StopEvent, IInv
<1>2. stopChan' \in [Events -> {0, 1}] /\ stopping' \in [Admins -> SUBSET Events]
  <2>1. CASE SendStop(a)
    BY <1>1, <2>1 DEF SendStop, TypeOK
  <2>2. ASSUME NEW key \in DOMAIN ongoing, StopEvent(a, key)
        PROVE  stopChan' \in [Events -> {0, 1}] /\ stopping' \in [Admins -> SUBSET Events]
    <3>1. ongoing[key].event \in Events
      BY <1>1 DEF TypeOK, PersonalDatas, Event
    <3>. QED
      BY <1>1, <2>2, <3>1 DEF StopEvent, TypeOK
  <2>. QED
    BY <2>1, <2>2
<1>3. TypeOK'
  BY <1>1, <1>2 DEF TypeOK
<1>4. Messages'
  BY <1>1 DEF IInv, Messages, WasSent, About
<1>. QED
  BY <1>1, <1>3, <1>4, Still DEF IInv

\* What the goroutine of an event does when it deletes nothing; xp changes only
\* for its event.
LEMMA IInvRoutine ==
    ASSUME IInv, NEW e \in Events, routine' \in [Events -> Routine],
           \A f \in Events : f # e => routine'[f] = routine[f] /\ xp'[f] = xp[f] /\ content'[f] = content[f],
           stopChan' \in [Events -> {0, 1}], xp' \in [Events -> [Users -> Nat]],
           content' \in [Events -> [Users -> Contents]],
           \A k \in DOMAIN ongoing' : k \in DOMAIN ongoing /\ ongoing'[k] = ongoing[k],
           \A f \in Events, u \in Users : f # e /\ DM(f, u, 1) \in DOMAIN ongoing =>
               DM(f, u, 1) \in DOMAIN ongoing',
           UNCHANGED <<stopping, SentChoicesTo, AttemptTally, call, sent, answers>>,
           \A u \in Users : Sort[e] = "choice" => (Kept(e, u) /\ Visits(e, u) /\ Rewarded(e, u))'
    PROVE  IInv'
<1>1. TypeOK'
  <2>1. TypeOK
    BY DEF IInv
  <2>2. OngoingOK'
    BY <2>1, OngoingTyped
  <2>. QED
    BY <2>1, <2>2 DEF TypeOK, OngoingOK
<1>2. LastMessages' /\ Messages' /\ AnswersGiven'
  BY RoutineKeeps
<1>3. RewardsDue'
  <2>1. ASSUME NEW f \in Events, NEW u \in Users, Sort[f] = "choice", f # e
        PROVE  (Kept(f, u) /\ Visits(f, u) /\ Rewarded(f, u))'
    BY <2>1, RewardsKept
  <2>. QED
    BY <2>1 DEF RewardsDue
<1>. QED
  BY <1>1, <1>2, <1>3 DEF IInv

\* Of an event that goes on.
LEMMA RangingTyped ==
    ASSUME TypeOK, NEW e \in Events, NEW at \in {"rewarding", "cleaning"}, NEW by \in {"stop", "time"},
           routine' = [routine EXCEPT ![e] = Ranging(e, at, by)]
    PROVE  /\ routine' \in [Events -> Routine]
           /\ routine'[e] = Ranging(e, at, by)
           /\ \A f \in Events : f # e => routine'[f] = routine[f]
<1>1. Ranging(e, at, by) \in Routine
  BY DEF Ranging, Routine, TypeOK
<1>. QED
  BY <1>1 DEF TypeOK

\* The answers are as they were.
LEMMA SameAnswers ==
    ASSUME UNCHANGED <<sent, answers>>, NEW e, NEW u
    PROVE  /\ Due(e, u)' <=> Due(e, u)
           /\ InTime(e, u)' <=> InTime(e, u)
           /\ AllRight(e, u)' <=> AllRight(e, u)
           /\ AnswersOf(e, u)' = AnswersOf(e, u)
BY DEF Due, InTime, AllRight, AnswersOf

\* A stopped event has given no reward; when its time is up, who has answered
\* is to be visited.
LEMMA IInvWaited ==
    ASSUME IInv, NEW e \in Events, ReceiveStop(e) \/ TimeIsUp(e)
    PROVE  IInv'
<1>1. /\ TypeOK /\ routine[e].at = "waiting"
      /\ UNCHANGED <<ongoing, stopping, SentChoicesTo, AttemptTally, xp, content, call, sent, answers>>
      /\ stopChan' \in [Events -> {0, 1}]
  BY DEF IInv, TypeOK, ReceiveStop, TimeIsUp
<1>2. PICK at \in {"rewarding", "cleaning"}, by \in {"stop", "time"} :
          /\ routine' = [routine EXCEPT ![e] = Ranging(e, at, by)]
          /\ Sort[e] = "choice" => (by = "time" <=> at = "rewarding")
  BY DEF ReceiveStop, TimeIsUp
<1>3. /\ routine' \in [Events -> Routine]
      /\ routine'[e] = Ranging(e, at, by)
      /\ \A f \in Events : f # e => routine'[f] = routine[f]
  BY <1>1, <1>2, RangingTyped
<1>4. ASSUME NEW u \in Users, Sort[e] = "choice"
      PROVE  (Kept(e, u) /\ Visits(e, u) /\ Rewarded(e, u))'
  <2>1. /\ Due(e, u)' <=> Due(e, u)
        /\ InTime(e, u)' <=> InTime(e, u)
    BY <1>1, SameAnswers
  <2>2. Kept(e, u) /\ Rewarded(e, u)
    BY <1>4 DEF IInv, RewardsDue
  <2>3. xp'[e][u] <= 1 /\ xp'[e][u] # 1 /\ content'[e][u] = "nothing"
    BY <1>1, <2>2 DEF Rewarded
  <2>4. /\ routine'[e].at = at /\ routine'[e].by = by
        /\ routine'[e].must = DOMAIN SentChoicesTo[e] /\ routine'[e].visited = {}
    BY <1>3 DEF Ranging
  <2>5. Kept(e, u)'
    BY <1>1, <2>1, <2>2 DEF Kept
  <2>6. InTime(e, u) => u \in routine'[e].must
    <3>1. InTime(e, u) => sent[e][u] > 0
      BY DEF InTime, AnswersOf, IInv, Messages
    <3>. QED
      BY <2>4, <3>1 DEF IInv, LastMessages
  <2>7. Visits(e, u)'
    BY <1>2, <1>4, <2>1, <2>3, <2>4, <2>6 DEF Visits
  <2>8. Rewarded(e, u)'
    BY <1>2, <1>4, <2>3, <2>4 DEF Rewarded
  <2>. QED
    BY <2>5, <2>7, <2>8
<1>. QED
  BY <1>1, <1>3, <1>4, IInvRoutine DEF TypeOK

\* Whoever was to be rewarded has been visited.
LEMMA IInvAllRewarded ==
    ASSUME IInv, NEW e \in Events, AllRewarded(e)
    PROVE  IInv'
<1>1. /\ TypeOK /\ routine[e].at = "rewarding" /\ routine[e].must \subseteq routine[e].visited
      /\ UNCHANGED <<ongoing, stopChan, stopping, SentChoicesTo, AttemptTally, xp, content, call, sent, answers>>
      /\ routine' = [routine EXCEPT ![e] = Ranging(e, "cleaning", "time")]
  BY DEF IInv, AllRewarded
<1>2. /\ routine' \in [Events -> Routine]
      /\ routine'[e] = Ranging(e, "cleaning", "time")
      /\ \A f \in Events : f # e => routine'[f] = routine[f]
  BY <1>1, RangingTyped
<1>3. ASSUME NEW u \in Users, Sort[e] = "choice"
      PROVE  (Kept(e, u) /\ Visits(e, u) /\ Rewarded(e, u))'
  <2>1. /\ Due(e, u)' <=> Due(e, u)
        /\ AllRight(e, u)' <=> AllRight(e, u)
        /\ AnswersOf(e, u)' = AnswersOf(e, u)
    BY <1>1, SameAnswers
  <2>2. Visits(e, u) /\ Rewarded(e, u)
    BY <1>3 DEF IInv, RewardsDue
  <2>3. routine'[e].at = "cleaning" /\ routine'[e].by = "time"
    BY <1>2 DEF Ranging
  <2>4. Due(e, u) /\ AllRight(e, u) => Settled(e, u)
    BY <1>1, <2>2 DEF Visits, Due
  <2>. QED
    BY <1>1, <2>1, <2>2, <2>3, <2>4 DEF Kept, Visits, Rewarded, Settled, Told
<1>. QED
  BY <1>1, <1>2, <1>3, IInvRoutine DEF TypeOK

\* A visit marks the user.
LEMMA VisitTyped ==
    ASSUME TypeOK, NEW e \in Events, NEW u \in Users,
           routine' = [routine EXCEPT ![e].visited = @ \cup {u}]
    PROVE  /\ routine' \in [Events -> Routine]
           /\ routine'[e].at = routine[e].at /\ routine'[e].by = routine[e].by
           /\ routine'[e].must = routine[e].must
           /\ routine'[e].visited = routine[e].visited \cup {u}
           /\ \A f \in Events : f # e => routine'[f] = routine[f]
<1>. DEFINE r == [routine[e] EXCEPT !.visited = @ \cup {u}]
<1>1. /\ routine[e] \in Routine /\ routine \in [Events -> Routine]
      /\ routine' = [routine EXCEPT ![e] = r]
  BY DEF TypeOK
<1>2. /\ r \in Routine
      /\ r.at = routine[e].at /\ r.by = routine[e].by /\ r.must = routine[e].must
      /\ r.visited = routine[e].visited \cup {u}
  BY <1>1 DEF Routine
<1>. HIDE DEF r
<1>3. routine'[e] = r /\ \A f \in Events : f # e => routine'[f] = routine[f]
  BY <1>1
<1>4. routine' \in [Events -> Routine]
  BY <1>1, <1>2
<1>. QED
  BY <1>2, <1>3, <1>4

\* A right answer is rewarded once, that of the only message if there is one.
LEMMA IInvGiveReward ==
    ASSUME IInv, NEW e \in Events, NEW v \in Users, GiveReward(e, v)
    PROVE  IInv'
<1>. DEFINE dm == SentChoicesTo[e][v]
<1>1. /\ TypeOK /\ routine[e].at = "rewarding"
      /\ v \in DOMAIN SentChoicesTo[e] \ routine[e].visited
      /\ UNCHANGED <<ongoing, stopChan, stopping, SentChoicesTo, AttemptTally, call, sent, answers>>
      /\ routine' = [routine EXCEPT ![e].visited = @ \cup {v}]
  BY DEF IInv, GiveReward
<1>2. /\ routine' \in [Events -> Routine]
      /\ routine'[e].at = "rewarding" /\ routine'[e].by = routine[e].by
      /\ routine'[e].must = routine[e].must
      /\ routine'[e].visited = routine[e].visited \cup {v}
      /\ \A f \in Events : f # e => routine'[f] = routine[f]
  BY <1>1, VisitTyped
<1>3. dm = DM(e, v, sent[e][v]) /\ dm \in PrivateMessages /\ dm.event = e /\ dm.to = v
  <2>1. dm = DM(e, v, sent[e][v]) /\ dm \in PrivateMessages
    BY <1>1 DEF IInv, LastMessages, TypeOK
  <2>. QED
    BY <2>1 DEF DM
<1>. HIDE DEF dm
<1>4. \/ /\ dm \in DOMAIN ongoing /\ ongoing[dm].Answered
         /\ \E gained \in {0, Reward(e, v, ongoing[dm])} :
                /\ xp' = [xp EXCEPT ![e][v] = @ + gained]
                /\ content' = [content EXCEPT ![e][v] = Content(ongoing[dm], gained)]
      \/ /\ dm \in DOMAIN ongoing => ~ongoing[dm].Answered
         /\ UNCHANGED <<xp, content>>
  BY DEF GiveReward, dm
<1>5. xp \in [Events -> [Users -> Nat]] /\ content \in [Events -> [Users -> Contents]]
  BY <1>1 DEF TypeOK
<1>6. /\ xp' \in [Events -> [Users -> Nat]] /\ content' \in [Events -> [Users -> Contents]]
      /\ \A f \in Events : f # e => xp'[f] = xp[f] /\ content'[f] = content[f]
      /\ \A u \in Users : u # v => xp'[e][u] = xp[e][u] /\ content'[e][u] = content[e][u]
      /\ \/ /\ dm \in DOMAIN ongoing => ~ongoing[dm].Answered
            /\ xp'[e][v] = xp[e][v] /\ content'[e][v] = content[e][v]
         \/ /\ dm \in DOMAIN ongoing /\ ongoing[dm].Answered
            /\ \/ ~ongoing[dm].right /\ xp'[e][v] = xp[e][v] /\ content'[e][v] = "wrong"
               \/ ongoing[dm].right /\ xp'[e][v] = xp[e][v] /\ content'[e][v] = "not rewarded"
               \/ ongoing[dm].right /\ xp[e][v] = 0 /\ xp'[e][v] = 1 /\ content'[e][v] = "right"
  <2>1. CASE /\ dm \in DOMAIN ongoing => ~ongoing[dm].Answered
             /\ UNCHANGED <<xp, content>>
    BY <1>5, <2>1
  <2>2. ASSUME dm \in DOMAIN ongoing, ongoing[dm].Answered,
               NEW gained \in {0, Reward(e, v, ongoing[dm])},
               xp' = [xp EXCEPT ![e][v] = @ + gained],
               content' = [content EXCEPT ![e][v] = Content(ongoing[dm], gained)]
        PROVE  /\ xp' \in [Events -> [Users -> Nat]] /\ content' \in [Events -> [Users -> Contents]]
               /\ \A f \in Events : f # e => xp'[f] = xp[f] /\ content'[f] = content[f]
               /\ \A u \in Users : u # v => xp'[e][u] = xp[e][u] /\ content'[e][u] = content[e][u]
               /\ \/ ~ongoing[dm].right /\ xp'[e][v] = xp[e][v] /\ content'[e][v] = "wrong"
                  \/ ongoing[dm].right /\ xp'[e][v] = xp[e][v] /\ content'[e][v] = "not rewarded"
                  \/ ongoing[dm].right /\ xp[e][v] = 0 /\ xp'[e][v] = 1 /\ content'[e][v] = "right"
    <3>. DEFINE told == Content(ongoing[dm], gained)
    <3>1. /\ gained \in {0, 1}
          /\ gained = 1 => ongoing[dm].right /\ xp[e][v] = 0
      BY <2>2 DEF Reward
    <3>2. /\ told \in Contents
          /\ \/ ~ongoing[dm].right /\ gained = 0 /\ told = "wrong"
             \/ ongoing[dm].right /\ gained = 0 /\ told = "not rewarded"
             \/ ongoing[dm].right /\ gained = 1 /\ told = "right"
      BY <3>1 DEF Content, Contents
    <3>3. content' = [content EXCEPT ![e][v] = told]
      BY <2>2
    <3>. HIDE DEF told
    <3>4. /\ xp' \in [Events -> [Users -> Nat]]
          /\ \A f \in Events : f # e => xp'[f] = xp[f]
          /\ \A u \in Users : u # v => xp'[e][u] = xp[e][u]
          /\ xp'[e][v] = xp[e][v] + gained /\ xp[e][v] \in Nat
      BY <1>5, <2>2, <3>1
    <3>5. /\ content' \in [Events -> [Users -> Contents]]
          /\ \A f \in Events : f # e => content'[f] = content[f]
          /\ \A u \in Users : u # v => content'[e][u] = content[e][u]
          /\ content'[e][v] = told
      BY <1>5, <3>2, <3>3
    <3>6. gained = 0 => xp'[e][v] = xp[e][v]
      BY <3>4
    <3>7. gained = 1 /\ xp[e][v] = 0 => xp'[e][v] = 1
      BY <3>4
    <3>. QED
      BY <3>1, <3>2, <3>4, <3>5, <3>6, <3>7, Zenon
  <2>. QED
    BY <1>4, <2>1, <2>2
<1>7. ASSUME dm \in DOMAIN ongoing, ongoing[dm].Answered
      PROVE  \E answer \in AnswersOf(e, v) : answer.right = ongoing[dm].right
  BY <1>3, <1>7 DEF IInv, AnswersGiven
<1>8. ASSUME NEW u \in Users, Sort[e] = "choice"
      PROVE  (Kept(e, u) /\ Visits(e, u) /\ Rewarded(e, u))'
  <2>1. /\ Due(e, u)' <=> Due(e, u)
        /\ InTime(e, u)' <=> InTime(e, u)
        /\ AllRight(e, u)' <=> AllRight(e, u)
        /\ AnswersOf(e, u)' = AnswersOf(e, u)
    BY <1>1, SameAnswers
  <2>2. Kept(e, u) /\ Visits(e, u) /\ Rewarded(e, u)
    BY <1>8 DEF IInv, RewardsDue
  <2>3. Kept(e, u)'
    BY <1>1, <1>2, <2>1, <2>2 DEF Kept
  <2>4. CASE u # v
    BY <1>1, <1>2, <1>6, <2>1, <2>2, <2>3, <2>4 DEF Visits, Rewarded, Settled, Told
  <2>5. CASE u = v
    <3>1. routine[e].by = "time"
      BY <1>1, <2>2 DEF Visits
    <3>2. Rewarded(e, u)'
      <4>1. xp'[e][u] <= 1 /\ (xp'[e][u] = 1 <=> content'[e][u] = "right")
        <5>1. xp[e][u] <= 1 /\ xp[e][u] # 1
          BY <1>1, <2>2, <2>5 DEF Visits, Rewarded
        <5>2. CASE content'[e][u] = content[e][u] /\ xp'[e][u] = xp[e][u]
          BY <2>2, <5>2 DEF Rewarded
        <5>3. CASE content'[e][u] \in {"wrong", "not rewarded"} /\ xp'[e][u] = xp[e][u]
          BY <5>1, <5>3
        <5>4. CASE content'[e][u] = "right" /\ xp'[e][u] = 1
          BY <5>4
        <5>. QED
          BY <1>6, <2>5, <5>2, <5>3, <5>4, Zenon
      <4>2. content'[e][u] # "nothing" => Told(e, u)'
        <5>1. CASE content'[e][u] = content[e][u]
          BY <2>1, <2>2, <5>1 DEF Rewarded, Told
        <5>2. CASE /\ dm \in DOMAIN ongoing /\ ongoing[dm].Answered
                   /\ ongoing[dm].right <=> content'[e][u] # "wrong"
          BY <1>7, <2>1, <2>5, <5>2 DEF Told
        <5>. QED
          BY <1>6, <2>5, <5>1, <5>2
      <4>. QED
        BY <1>2, <2>1, <3>1, <4>1, <4>2 DEF Rewarded
    <3>3. ASSUME Due(e, u), AllRight(e, u)
          PROVE  Settled(e, u)'
      <4>1. dm = DM(e, u, 1) /\ dm \in DOMAIN ongoing /\ ongoing[dm].Answered
        BY <1>1, <1>3, <2>2, <2>5, <3>3 DEF Kept, Due
      <4>2. ongoing[dm] \in PersonalDatas
        BY <1>1, <1>3, <4>1 DEF TypeOK
      <4>3. ongoing[dm].right
        BY <1>7, <2>5, <3>3, <4>1, <4>2 DEF AllRight, PersonalDatas
      <4>4. content'[e][v] \in {"right", "not rewarded"}
        <5>1. \/ ~ongoing[dm].right /\ content'[e][v] = "wrong"
              \/ content'[e][v] = "not rewarded"
              \/ content'[e][v] = "right"
          BY <1>6, <4>1, Zenon
        <5>. QED
          BY <4>3, <5>1
      <4>. QED
        BY <2>5, <4>4 DEF Settled
    <3>4. Visits(e, u)'
      <4>1. /\ InTime(e, u) => u \in routine'[e].must
            /\ u \in routine'[e].visited
        BY <1>1, <1>2, <2>2, <2>5 DEF Visits
      <4>. QED
        BY <1>2, <2>1, <3>1, <3>3, <4>1 DEF Visits
    <3>. QED
      BY <2>3, <3>2, <3>4
  <2>. QED
    BY <2>4, <2>5
<1>9. stopChan' \in [Events -> {0, 1}]
  BY <1>1 DEF TypeOK
<1>10. /\ \A k \in DOMAIN ongoing' : k \in DOMAIN ongoing /\ ongoing'[k] = ongoing[k]
       /\ \A f \in Events, u \in Users : f # e /\ DM(f, u, 1) \in DOMAIN ongoing =>
              DM(f, u, 1) \in DOMAIN ongoing'
  BY <1>1
<1>11. \A f \in Events : f # e => routine'[f] = routine[f] /\ xp'[f] = xp[f] /\ content'[f] = content[f]
  BY <1>2, <1>6
<1>. QED
  BY <1>1, <1>2, <1>6, <1>8, <1>9, <1>10, <1>11, IInvRoutine

\* The messages of an event are deleted when nothing looks at them any more.
LEMMA IInvClean ==
    ASSUME IInv, NEW e \in Events, (\E v \in Users : Cleanup(e, v)) \/ EndEvent(e)
    PROVE  IInv'
<1>1. /\ TypeOK /\ routine[e].at = "cleaning"
      /\ UNCHANGED <<stopChan, stopping, SentChoicesTo, AttemptTally, xp, content, call, sent, answers>>
  BY DEF IInv, Cleanup, EndEvent
<1>2. /\ routine' \in [Events -> Routine]
      /\ routine'[e].at \in {"cleaning", "over"} /\ routine'[e].by = routine[e].by
      /\ \A f \in Events : f # e => routine'[f] = routine[f]
  <2>1. CASE \E v \in Users : Cleanup(e, v)
    <3>1. PICK v \in Users : routine' = [routine EXCEPT ![e].visited = @ \cup {v}]
      BY <2>1 DEF Cleanup
    <3>. QED
      BY <1>1, <3>1, VisitTyped
  <2>2. CASE EndEvent(e)
    <3>1. routine' = [routine EXCEPT ![e].at = "over"] /\ routine \in [Events -> Routine]
      BY <1>1, <2>2 DEF EndEvent, TypeOK
    <3>. QED
      BY <3>1 DEF Routine
  <2>. QED
    BY <2>1, <2>2
<1>3. PICK key : /\ ongoing' = Deleted(ongoing, key)
                 /\ key \in PrivateMessages => key.event = e
  <2>1. ASSUME NEW v \in Users, Cleanup(e, v)
        PROVE  SentChoicesTo[e][v].event = e /\ ongoing' = Deleted(ongoing, SentChoicesTo[e][v])
    <3>1. v \in DOMAIN SentChoicesTo[e] /\ ongoing' = Deleted(ongoing, SentChoicesTo[e][v])
      BY <2>1 DEF Cleanup
    <3>2. SentChoicesTo[e][v] = DM(e, v, sent[e][v])
      BY <3>1 DEF IInv, LastMessages
    <3>. QED
      BY <3>1, <3>2 DEF DM
  <2>2. CASE EndEvent(e)
    BY <2>2, BotEventsAssumption DEF EndEvent
  <2>. QED
    BY <2>1, <2>2
<1>4. /\ DOMAIN ongoing' = DOMAIN ongoing \ {key}
      /\ \A k \in DOMAIN ongoing' : ongoing'[k] = ongoing[k]
  BY <1>3 DEF Deleted, Restrict
<1>5. ASSUME NEW f \in Events, NEW u \in Users, f # e, DM(f, u, 1) \in DOMAIN ongoing
      PROVE  DM(f, u, 1) \in DOMAIN ongoing'
  <2>1. DM(f, u, 1) \in PrivateMessages /\ DM(f, u, 1).event = f
    BY DEF DM, PrivateMessages
  <2>. QED
    BY <1>3, <1>4, <1>5, <2>1
<1>6. ASSUME NEW u \in Users, Sort[e] = "choice"
      PROVE  (Kept(e, u) /\ Visits(e, u) /\ Rewarded(e, u))'
  <2>1. /\ Due(e, u)' <=> Due(e, u)
        /\ AllRight(e, u)' <=> AllRight(e, u)
        /\ AnswersOf(e, u)' = AnswersOf(e, u)
    BY <1>1, SameAnswers
  <2>2. Rewarded(e, u)
    BY <1>6 DEF IInv, RewardsDue
  <2>. QED
    BY <1>1, <1>2, <2>1, <2>2 DEF Kept, Visits, Rewarded, Settled, Told
<1>7. stopChan' \in [Events -> {0, 1}] /\ xp' \in [Events -> [Users -> Nat]]
      /\ content' \in [Events -> [Users -> Contents]]
      /\ \A f \in Events : f # e => xp'[f] = xp[f] /\ content'[f] = content[f]
  BY <1>1 DEF TypeOK
<1>. QED
  BY <1>1, <1>2, <1>4, <1>5, <1>6, <1>7, IInvRoutine

-----------------------------------------------------------------------------
(***************************************************************************)
(* Users.                                                                  *)
(***************************************************************************)
\* Only reaction events and quizzes are won at once.
LEMMA IInvWin ==
    ASSUME IInv, NEW h \in Handlers, Win(h)
    PROVE  IInv'
<1>1. /\ TypeOK /\ CallTyped(call[h]) /\ call[h].does = "win"
      /\ UNCHANGED <<ongoing, routine, stopChan, stopping, SentChoicesTo, AttemptTally, content, sent, answers>>
      /\ xp' = [xp EXCEPT ![call[h].event][call[h].user] = @ + 1]
      /\ call' = [call EXCEPT ![h] = Idle]
  BY DEF IInv, TypeOK, Win, Return
<1>2. call[h] \in [does : {"win"}, event : {e \in Events : Sort[e] # "choice"}, user : Users]
  BY <1>1 DEF CallTyped, Idle
<1>3. call[h].event \in Events /\ Sort[call[h].event] # "choice" /\ call[h].user \in Users
  BY <1>2
<1>4. /\ xp' \in [Events -> [Users -> Nat]]
      /\ \A e \in Events : Sort[e] = "choice" => xp'[e] = xp[e]
  BY <1>1, <1>3 DEF TypeOK
<1>5. /\ DOMAIN call' = DOMAIN call /\ call'[h] = Idle /\ h \in DOMAIN call
      /\ \A g \in Handlers : g # h => call'[g] = call[g]
  BY <1>1 DEF TypeOK
<1>6. DOMAIN call' = Handlers /\ \A g \in Handlers : CallTyped(call'[g])
  BY <1>1, <1>5 DEF TypeOK, CallTyped
<1>7. TypeOK'
  BY <1>1, <1>4, <1>6 DEF TypeOK
<1>8. Messages'
  <2>1. call'[h].does = "nothing"
    BY <1>5 DEF Idle
  <2>2. ASSUME NEW g \in Handlers, call'[g].does \in {"personal", "answer"}
        PROVE  g # h /\ call'[g] = call[g]
    BY <1>5, <2>1, <2>2
  <2>3. \A g \in Handlers : call'[g].does \in {"personal", "answer"} => WasSent(call[g].dm)'
    BY <1>1, <2>2 DEF IInv, Messages, WasSent
  <2>4. ASSUME NEW g \in Handlers, call'[g].does = "personal"
        PROVE  /\ call'[g].dm \notin DOMAIN ongoing'
               /\ \A f \in Handlers : f # g => ~(About(f, call[g].dm))'
    BY <1>1, <2>2, <2>4 DEF IInv, Messages, About
  <2>. QED
    BY <1>1, <2>2, <2>3, <2>4 DEF IInv, Messages, WasSent
<1>9. LastMessages' /\ AnswersGiven'
  BY <1>1 DEF IInv, LastMessages, AnswersGiven, AnswersOf
<1>10. RewardsDue'
  <2>1. ASSUME NEW e \in Events, NEW u \in Users, Sort[e] = "choice"
        PROVE  (Kept(e, u) /\ Visits(e, u) /\ Rewarded(e, u))'
    BY <1>1, <1>4, <2>1, RewardsKept
  <2>. QED
    BY <2>1 DEF RewardsDue
<1>. QED
  BY <1>7, <1>8, <1>9, <1>10 DEF IInv

\* A message that is sent to a user is a new one; if he had answered, it is his
\* second, and nothing is due to him.
LEMMA IInvSendOptions ==
    ASSUME IInv, NEW h \in Handlers, SendOptions(h)
    PROVE  IInv'
<1>1. TypeOK /\ CallTyped(call[h]) /\ call[h].does = "options"
  BY DEF IInv, TypeOK, SendOptions
<1>2. call[h] \in [does : {"options"}, event : Events, user : Users]
  BY <1>1 DEF CallTyped, Idle
<1>3. PICK e \in Events, u \in Users, n \in Nat :
          e = call[h].event /\ u = call[h].user /\ n = sent[e][u] + 1
  <2>1. \A e \in Events, u \in Users : sent[e][u] + 1 \in Nat
    BY <1>1 DEF TypeOK
  <2>. QED
    BY <1>2, <2>1
<1>4. /\ UNCHANGED <<ongoing, routine, stopChan, stopping, AttemptTally, xp, content, answers>>
      /\ sent' = [sent EXCEPT ![e][u] = @ + 1]
      /\ SentChoicesTo' = [SentChoicesTo EXCEPT ![e] = Stored(@, u, DM(e, u, n))]
      /\ call' = [call EXCEPT ![h] = [does |-> "personal", event |-> e, dm |-> DM(e, u, n)]]
  BY <1>3 DEF SendOptions
<1>5. n \in Nat /\ n > 0 /\ DM(e, u, n) \in PrivateMessages
  BY <1>1, <1>3, DMFacts DEF TypeOK
<1>6. /\ sent' \in [Events -> [Users -> Nat]] /\ sent'[e][u] = n
      /\ \A f \in Events, v \in Users : f # e \/ v # u => sent'[f][v] = sent[f][v]
      /\ \A f \in Events, v \in Users : sent'[f][v] >= sent[f][v]
  BY <1>1, <1>3, <1>4 DEF TypeOK
<1>7. ~WasSent(DM(e, u, n)) /\ WasSent(DM(e, u, n))'
  <2>1. DM(e, u, n).event = e /\ DM(e, u, n).to = u /\ DM(e, u, n).number = n
    BY DEF DM
  <2>2. sent[e][u] \in Nat
    BY <1>1, <1>3 DEF TypeOK
  <2>3. /\ WasSent(DM(e, u, n)) <=> n \in 1..sent[e][u]
        /\ WasSent(DM(e, u, n))' <=> n \in 1..sent'[e][u]
    BY <2>1 DEF WasSent
  <2>4. n \notin 1..sent[e][u] /\ n \in 1..n
    BY <1>3, <2>2
  <2>. QED
    BY <1>6, <2>3, <2>4
<1>8. \A k \in PrivateMessages : WasSent(k) => WasSent(k)'
  <2>1. ASSUME NEW k \in PrivateMessages
        PROVE  sent'[k.event][k.to] >= sent[k.event][k.to]
               /\ sent'[k.event][k.to] \in Nat /\ sent[k.event][k.to] \in Nat
    BY <1>1, <1>6, <2>1 DEF TypeOK, PrivateMessages
  <2>. QED
    BY <2>1 DEF WasSent
<1>9. /\ DOMAIN call' = DOMAIN call
      /\ call'[h] = [does |-> "personal", event |-> e, dm |-> DM(e, u, n)]
      /\ \A g \in Handlers : g # h => call'[g] = call[g]
  BY <1>1, <1>4 DEF TypeOK
<1>10. CallTyped(call'[h])
  <2>1. DM(e, u, n).event = e
    BY DEF DM
  <2>. QED
    BY <1>3, <1>5, <1>9, <2>1 DEF CallTyped
<1>11. DOMAIN call' = Handlers /\ \A g \in Handlers : CallTyped(call'[g])
  BY <1>1, <1>9, <1>10, CallStep
<1>12. /\ DOMAIN SentChoicesTo' = Events
       /\ \A f \in Events : f # e => SentChoicesTo'[f] = SentChoicesTo[f]
       /\ DOMAIN SentChoicesTo'[e] = DOMAIN SentChoicesTo[e] \cup {u}
       /\ SentChoicesTo'[e][u] = DM(e, u, n)
       /\ \A v \in DOMAIN SentChoicesTo[e] : v # u => SentChoicesTo'[e][v] = SentChoicesTo[e][v]
  BY <1>1, <1>3, <1>4 DEF TypeOK, Stored
<1>13. TypeOK'
  <2>1. \A f \in Events :
            /\ DOMAIN SentChoicesTo'[f] \subseteq Users
            /\ \A v \in DOMAIN SentChoicesTo'[f] :
                   /\ SentChoicesTo'[f][v] \in PrivateMessages
                   /\ SentChoicesTo'[f][v].event = f /\ SentChoicesTo'[f][v].to = v
    <3>1. \A f \in Events :
              /\ DOMAIN SentChoicesTo[f] \subseteq Users
              /\ \A v \in DOMAIN SentChoicesTo[f] :
                     /\ SentChoicesTo[f][v] \in PrivateMessages
                     /\ SentChoicesTo[f][v].event = f /\ SentChoicesTo[f][v].to = v
      BY <1>1 DEF TypeOK
    <3>2. DM(e, u, n).event = e /\ DM(e, u, n).to = u
      BY DEF DM
    <3>3. ASSUME NEW v \in DOMAIN SentChoicesTo'[e]
          PROVE  /\ v \in Users /\ SentChoicesTo'[e][v] \in PrivateMessages
                 /\ SentChoicesTo'[e][v].event = e /\ SentChoicesTo'[e][v].to = v
      BY <1>3, <1>5, <1>12, <3>1, <3>2, <3>3
    <3>. QED
      BY <1>12, <3>1, <3>3
  <2>. QED
    BY <1>1, <1>4, <1>6, <1>11, <1>12, <2>1 DEF TypeOK
<1>14. LastMessages'
  <2>1. ASSUME NEW f \in Events, NEW v \in Users
        PROVE  /\ v \in DOMAIN SentChoicesTo'[f] <=> sent'[f][v] > 0
               /\ v \in DOMAIN SentChoicesTo'[f] => SentChoicesTo'[f][v] = DM(f, v, sent'[f][v])
    <3>1. CASE f = e /\ v = u
      BY <1>5, <1>6, <1>12, <3>1
    <3>2. CASE f # e \/ v # u
      BY <1>6, <1>12, <3>2 DEF IInv, LastMessages
    <3>. QED
      BY <3>1, <3>2
  <2>. QED
    BY <2>1 DEF LastMessages
<1>15. Messages'
  <2>1. \A g \in Handlers : call[g].does \in {"personal", "answer"} =>
            call[g].dm \in PrivateMessages /\ WasSent(call[g].dm) /\ call[g].dm # DM(e, u, n)
    <3>1. ASSUME NEW g \in Handlers, call[g].does \in {"personal", "answer"}
          PROVE  call[g].dm \in PrivateMessages
      <4>1. CallTyped(call[g])
        BY <1>1 DEF TypeOK
      <4>. QED
        BY <3>1, <4>1 DEF CallTyped, Idle
    <3>. QED
      BY <1>7, <3>1 DEF IInv, Messages
  <2>2. call'[h].does = "personal" /\ call'[h].dm = DM(e, u, n)
    BY <1>9
  <2>3. \A g \in Handlers : call'[g].does \in {"personal", "answer"} => WasSent(call[g].dm)'
    <3>1. WasSent(call[h].dm)'
      BY <1>7, <2>2 DEF WasSent
    <3>2. ASSUME NEW g \in Handlers, g # h, call[g].does \in {"personal", "answer"}
          PROVE  WasSent(call[g].dm)'
      <4>. DEFINE dm == call[g].dm
      <4>1. dm \in PrivateMessages /\ WasSent(dm)
        BY <2>1, <3>2
      <4>2. dm.number \in 1..sent'[dm.event][dm.to]
        BY <1>8, <4>1 DEF WasSent
      <4>. QED
        BY <1>9, <3>2, <4>2 DEF WasSent
    <3>. QED
      BY <1>9, <3>1, <3>2
  <2>4. ASSUME NEW g \in Handlers, call'[g].does = "personal"
        PROVE  /\ call'[g].dm \notin DOMAIN ongoing'
               /\ \A f \in Handlers : f # g => ~(About(f, call[g].dm))'
    <3>1. CASE g = h
      <4>1. DM(e, u, n) \notin DOMAIN ongoing
        BY <1>5, <1>7 DEF IInv, Messages
      <4>. QED
        BY <1>4, <1>9, <2>1, <2>2, <3>1, <4>1 DEF About
    <3>2. CASE g # h
      BY <1>4, <1>9, <2>1, <2>2, <2>4, <3>2 DEF IInv, Messages, About
    <3>. QED
      BY <3>1, <3>2
  <2>5. \A k \in DOMAIN ongoing' : k \in PrivateMessages => WasSent(k)'
    BY <1>4, <1>8 DEF IInv, Messages
  <2>6. \A answer \in answers' : sent'[answer.event][answer.user] > 0
    <3>1. ASSUME NEW answer \in answers
          PROVE  sent'[answer.event][answer.user] > 0
      <4>1. answer.event \in Events /\ answer.user \in Users
        BY <1>1 DEF TypeOK
      <4>2. /\ sent[answer.event][answer.user] \in Nat /\ sent'[answer.event][answer.user] \in Nat
            /\ sent'[answer.event][answer.user] >= sent[answer.event][answer.user]
            /\ sent[answer.event][answer.user] > 0
        BY <1>1, <1>6, <4>1 DEF TypeOK, IInv, Messages
      <4>. QED
        BY <4>2
    <3>. QED
      BY <1>4, <3>1
  <2>. QED
    BY <2>3, <2>4, <2>5, <2>6 DEF Messages
<1>16. AnswersGiven'
  BY <1>4 DEF IInv, AnswersGiven, AnswersOf
<1>17. RewardsDue'
  <2>1. ASSUME NEW f \in Events, NEW v \in Users, Sort[f] = "choice"
        PROVE  (Kept(f, v) /\ Visits(f, v) /\ Rewarded(f, v))'
    <3>1. Kept(f, v) /\ Visits(f, v) /\ Rewarded(f, v)
      BY <2>1 DEF IInv, RewardsDue
    <3>2. /\ InTime(f, v)' <=> InTime(f, v)
          /\ AllRight(f, v)' <=> AllRight(f, v)
          /\ AnswersOf(f, v)' = AnswersOf(f, v)
      BY <1>4 DEF InTime, AllRight, AnswersOf
    <3>3. Due(f, v)' => Due(f, v)
      <4>1. CASE f = e /\ v = u
        <5>1. InTime(e, u) => sent[e][u] > 0
          BY DEF InTime, AnswersOf, IInv, Messages
        <5>2. sent[e][u] \in Nat /\ n = sent[e][u] + 1
          BY <1>1, <1>3 DEF TypeOK
        <5>. QED
          BY <1>6, <3>2, <4>1, <5>1, <5>2 DEF Due
      <4>2. CASE f # e \/ v # u
        BY <1>6, <3>2, <4>2 DEF Due
      <4>. QED
        BY <4>1, <4>2
    <3>. QED
      BY <1>4, <3>1, <3>2, <3>3 DEF Kept, Visits, Rewarded, Settled, Told
  <2>. QED
    BY <2>1 DEF RewardsDue
<1>. QED
  BY <1>13, <1>14, <1>15, <1>16, <1>17 DEF IInv

\* The handler is the first to store something by the message.
LEMMA IInvStorePersonalData ==
    ASSUME IInv, NEW h \in Handlers, StorePersonalData(h)
    PROVE  IInv'
<1>1. /\ TypeOK /\ CallTyped(call[h]) /\ call[h].does = "personal"
      /\ UNCHANGED <<routine, stopChan, stopping, SentChoicesTo, AttemptTally, xp, content, sent, answers>>
      /\ call' = [call EXCEPT ![h] = Idle]
  BY DEF IInv, TypeOK, StorePersonalData, Return
<1>2. /\ call[h] \in [does : {"personal"}, event : Events, dm : PrivateMessages]
      /\ call[h].dm.event = call[h].event
  BY <1>1 DEF CallTyped, Idle
<1>3. PICK dm \in PrivateMessages, data \in PersonalDatas :
          /\ dm = call[h].dm /\ ~data.Answered /\ data.event = dm.event
          /\ ongoing' = Stored(ongoing, dm, data)
  <2>1. /\ PersonalData(call[h].event, FALSE, FALSE) \in PersonalDatas
        /\ ~PersonalData(call[h].event, FALSE, FALSE).Answered
        /\ PersonalData(call[h].event, FALSE, FALSE).event = call[h].dm.event
    BY <1>2 DEF PersonalData, PersonalDatas
  <2>. QED
    BY <1>2, <2>1 DEF StorePersonalData
<1>4. dm \notin DOMAIN ongoing /\ WasSent(dm)
      /\ \A g \in Handlers : g # h => ~About(g, dm)
  BY <1>1, <1>3 DEF IInv, Messages
<1>5. /\ DOMAIN ongoing' = DOMAIN ongoing \cup {dm} /\ ongoing'[dm] = data
      /\ \A k \in DOMAIN ongoing : ongoing'[k] = ongoing[k]
  BY <1>3, <1>4 DEF Stored
<1>6. /\ DOMAIN call' = DOMAIN call /\ call'[h] = Idle
      /\ \A g \in Handlers : g # h => call'[g] = call[g]
  BY <1>1 DEF TypeOK
<1>7. TypeOK'
  <2>1. DOMAIN call' = Handlers /\ \A g \in Handlers : CallTyped(call'[g])
    BY <1>1, <1>6, CallStep DEF CallTyped
  <2>2. OngoingOK'
    BY <1>1, <1>3, <1>5, OngoingTyped
  <2>. QED
    BY <1>1, <2>1, <2>2 DEF TypeOK, OngoingOK
<1>8. Messages'
  <2>1. call'[h].does = "nothing"
    BY <1>6 DEF Idle
  <2>2. ASSUME NEW g \in Handlers, call'[g].does \in {"personal", "answer"}
        PROVE  g # h /\ call'[g] = call[g]
    BY <1>6, <2>1, <2>2
  <2>3. \A g \in Handlers : call'[g].does \in {"personal", "answer"} => WasSent(call[g].dm)'
    BY <1>1, <2>2 DEF IInv, Messages, WasSent
  <2>4. ASSUME NEW g \in Handlers, call'[g].does = "personal"
        PROVE  /\ call'[g].dm \notin DOMAIN ongoing'
               /\ \A f \in Handlers : f # g => ~(About(f, call[g].dm))'
    <3>1. g # h /\ call'[g] = call[g] /\ call[g].does = "personal" /\ call[g].dm # dm
      BY <1>4, <2>2, <2>4 DEF About
    <3>. QED
      BY <1>5, <2>2, <3>1 DEF IInv, Messages, About
  <2>5. \A k \in DOMAIN ongoing' : k \in PrivateMessages => WasSent(k)'
    BY <1>1, <1>4, <1>5 DEF IInv, Messages, WasSent
  <2>. QED
    BY <1>1, <2>3, <2>4, <2>5 DEF IInv, Messages
<1>9. LastMessages'
  BY <1>1 DEF IInv, LastMessages
<1>10. AnswersGiven'
  BY <1>1, <1>3, <1>5 DEF IInv, AnswersGiven, AnswersOf
<1>11. RewardsDue'
  <2>1. ASSUME NEW e \in Events, NEW u \in Users, Sort[e] = "choice"
        PROVE  (Kept(e, u) /\ Visits(e, u) /\ Rewarded(e, u))'
    BY <1>1, <1>5, <2>1, RewardsKept
  <2>. QED
    BY <2>1 DEF RewardsDue
<1>. QED
  BY <1>7, <1>8, <1>9, <1>10, <1>11 DEF IInv

\* An answer in time is kept with the data of the message it is about; a late
\* one changes nothing.
LEMMA IInvStoreAnswer ==
    ASSUME IInv, NEW h \in Handlers, StoreAnswer(h)
    PROVE  IInv'
<1>1. /\ TypeOK /\ CallTyped(call[h]) /\ call[h].does = "answer"
      /\ UNCHANGED <<routine, stopChan, stopping, SentChoicesTo, AttemptTally, xp, content, sent>>
      /\ call' = [call EXCEPT ![h] = Idle]
  BY DEF IInv, TypeOK, StoreAnswer, Return
<1>2. call[h] \in [does : {"answer"}, dm : PrivateMessages, right : BOOLEAN]
  BY <1>1 DEF CallTyped, Idle
<1>3. PICK dm \in PrivateMessages, right \in BOOLEAN : dm = call[h].dm /\ right = call[h].right
  BY <1>2
<1>4. PICK data : data = PersonalData(dm.event, TRUE, right)
  OBVIOUS
<1>5. PICK given : given = [event |-> dm.event, user |-> dm.to, right |-> right,
                            late |-> routine[dm.event].at # "waiting"]
  OBVIOUS
<1>6. /\ data \in PersonalDatas /\ data.Answered /\ data.right = right /\ data.event = dm.event
      /\ dm.event \in Events /\ dm.to \in Users
      /\ dm = DM(dm.event, dm.to, dm.number)
  BY <1>3, <1>4 DEF PersonalData, PersonalDatas, PrivateMessages, DM
<1>7. /\ given \in [event : Events, user : Users, right : BOOLEAN, late : BOOLEAN]
      /\ given.event = dm.event /\ given.user = dm.to /\ given.right = right
      /\ given.late <=> routine[dm.event].at # "waiting"
  BY <1>3, <1>5, <1>6
<1>8. ongoing' = Stored(ongoing, dm, data) /\ answers' = answers \cup {given}
  BY <1>3, <1>4, <1>5 DEF StoreAnswer
<1>9. WasSent(dm) /\ sent[dm.event][dm.to] \in Nat
  BY <1>1, <1>3, <1>6 DEF IInv, Messages, TypeOK
<1>10. /\ DOMAIN ongoing' = DOMAIN ongoing \cup {dm} /\ ongoing'[dm] = data
       /\ \A k \in DOMAIN ongoing : k # dm => ongoing'[k] = ongoing[k]
  BY <1>8 DEF Stored
<1>11. /\ DOMAIN call' = DOMAIN call /\ call'[h] = Idle
       /\ \A g \in Handlers : g # h => call'[g] = call[g]
  BY <1>1 DEF TypeOK
<1>12. TypeOK'
  <2>1. DOMAIN call' = Handlers /\ \A g \in Handlers : CallTyped(call'[g])
    BY <1>1, <1>11, CallStep DEF CallTyped
  <2>2. OngoingOK'
    BY <1>1, <1>6, <1>10, OngoingTyped
  <2>3. answers' \subseteq [event : Events, user : Users, right : BOOLEAN, late : BOOLEAN]
    BY <1>1, <1>7, <1>8 DEF TypeOK
  <2>. QED
    BY <1>1, <2>1, <2>2, <2>3 DEF TypeOK, OngoingOK
<1>13. Messages'
  <2>1. call'[h].does = "nothing"
    BY <1>11 DEF Idle
  <2>2. ASSUME NEW g \in Handlers, call'[g].does \in {"personal", "answer"}
        PROVE  g # h /\ call'[g] = call[g]
    BY <1>11, <2>1, <2>2
  <2>3. \A g \in Handlers : call'[g].does \in {"personal", "answer"} => WasSent(call[g].dm)'
    BY <1>1, <2>2 DEF IInv, Messages, WasSent
  <2>4. ASSUME NEW g \in Handlers, call'[g].does = "personal"
        PROVE  /\ call'[g].dm \notin DOMAIN ongoing'
               /\ \A f \in Handlers : f # g => ~(About(f, call[g].dm))'
    <3>1. /\ g # h /\ call'[g] = call[g] /\ call[g].does = "personal"
          /\ call[g].dm \notin DOMAIN ongoing
          /\ \A f \in Handlers : f # g => ~About(f, call[g].dm)
      BY <2>2, <2>4 DEF IInv, Messages
    <3>2. call[g].dm # dm
      BY <1>1, <1>3, <3>1 DEF About
    <3>. QED
      BY <1>10, <2>2, <3>1, <3>2 DEF About
  <2>5. \A k \in DOMAIN ongoing' : k \in PrivateMessages => WasSent(k)'
    BY <1>1, <1>9, <1>10 DEF IInv, Messages, WasSent
  <2>6. \A answer \in answers' : sent'[answer.event][answer.user] > 0
    BY <1>1, <1>7, <1>8, <1>9 DEF IInv, Messages, WasSent
  <2>. QED
    BY <2>3, <2>4, <2>5, <2>6 DEF Messages
<1>14. LastMessages'
  BY <1>1 DEF IInv, LastMessages
<1>15. \A e, u : AnswersOf(e, u)' =
           IF e = dm.event /\ u = dm.to THEN AnswersOf(e, u) \cup {given} ELSE AnswersOf(e, u)
  BY <1>7, <1>8 DEF AnswersOf
<1>16. AnswersGiven'
  <2>1. ASSUME NEW k \in DOMAIN ongoing', k \in PrivateMessages, ongoing'[k].Answered
        PROVE  \E answer \in AnswersOf(k.event, k.to)' : answer.right = ongoing'[k].right
    <3>1. CASE k = dm
      BY <1>6, <1>7, <1>10, <1>15, <3>1
    <3>2. CASE k # dm
      <4>1. k \in DOMAIN ongoing /\ ongoing'[k] = ongoing[k]
        BY <1>10, <3>2
      <4>2. PICK answer \in AnswersOf(k.event, k.to) : answer.right = ongoing[k].right
        BY <2>1, <4>1 DEF IInv, AnswersGiven
      <4>. QED
        BY <1>15, <4>1, <4>2
    <3>. QED
      BY <3>1, <3>2
  <2>. QED
    BY <2>1 DEF AnswersGiven
<1>17. RewardsDue'
  <2>1. ASSUME NEW e \in Events, NEW u \in Users, Sort[e] = "choice"
        PROVE  (Kept(e, u) /\ Visits(e, u) /\ Rewarded(e, u))'
    <3>1. Kept(e, u) /\ Visits(e, u) /\ Rewarded(e, u)
      BY <2>1 DEF IInv, RewardsDue
    <3>2. CASE e = dm.event /\ u = dm.to
      <4>1. AnswersOf(e, u)' = AnswersOf(e, u) \cup {given}
        BY <1>15, <3>2
      <4>2. AllRight(e, u)' => AllRight(e, u)
        BY <4>1 DEF AllRight
      <4>3. routine[e].at # "waiting" => (InTime(e, u)' <=> InTime(e, u))
        BY <1>7, <3>2, <4>1 DEF InTime
      <4>4. Due(e, u)' => DM(e, u, 1) = dm
        <5>1. dm.number \in 1..sent[e][u]
          BY <1>9, <3>2 DEF WasSent
        <5>2. sent[e][u] = 1 => dm.number = 1
          BY <5>1
        <5>. QED
          BY <1>1, <1>6, <3>2, <5>2 DEF Due
      <4>5. Kept(e, u)'
        BY <1>6, <1>10, <4>4 DEF Kept
      <4>6. Visits(e, u)' /\ Rewarded(e, u)'
        BY <1>1, <3>1, <4>1, <4>2, <4>3 DEF Visits, Rewarded, Settled, Told, Due
      <4>. QED
        BY <4>5, <4>6
    <3>3. CASE e # dm.event \/ u # dm.to
      <4>1. AnswersOf(e, u)' = AnswersOf(e, u)
        BY <1>15, <3>3
      <4>2. /\ Due(e, u)' <=> Due(e, u)
            /\ InTime(e, u)' <=> InTime(e, u)
            /\ AllRight(e, u)' <=> AllRight(e, u)
        BY <1>1, <4>1 DEF Due, InTime, AllRight
      <4>3. DM(e, u, 1) # dm
        BY <3>3 DEF DM
      <4>4. Kept(e, u)'
        BY <1>1, <1>10, <3>1, <4>2, <4>3 DEF Kept
      <4>. QED
        BY <1>1, <3>1, <4>1, <4>2, <4>4 DEF Visits, Rewarded, Settled, Told
    <3>. QED
      BY <3>2, <3>3
  <2>. QED
    BY <2>1 DEF RewardsDue
<1>. QED
  BY <1>12, <1>13, <1>14, <1>16, <1>17 DEF IInv

-----------------------------------------------------------------------------
LEMMA IInvNext == IInv /\ [Next]_vars => IInv'
<1>. SUFFICES ASSUME IInv, [Next]_vars
              PROVE  IInv'
  OBVIOUS
<1>1. ASSUME NEW e \in Events, StartEvent(e) \/ EventRoutine(e)
      PROVE  IInv'
  BY <1>1, IInvStartEvent, IInvWaited, IInvAllRewarded, IInvGiveReward, IInvClean DEF EventRoutine
<1>2. ASSUME NEW a \in Admins, SendStop(a) \/ \E key \in DOMAIN ongoing : StopEvent(a, key)
      PROVE  IInv'
  BY <1>2, IInvStop
<1>3. ASSUME NEW h \in Handlers, Handle(h)
      PROVE  IInv'
  <2>1. CASE StoreAttempts(h)
    BY <2>1, IInvBegin
  <2>. QED
    BY <1>3, <2>1, IInvWin, IInvSendOptions, IInvStorePersonalData, IInvStoreAnswer DEF Handle
<1>4. ASSUME NEW h \in Handlers,
             \/ Fail(h)
             \/ \E key \in DOMAIN ongoing :
                    \/ \E u \in Users : React(h, u, key) \/ ReactToQuestion(h, u, key)
                    \/ \E right \in BOOLEAN :
                           \/ ReactToChoices(h, key, right)
                           \/ \E u \in Users : AnswerQuiz(h, u, key, right)
      PROVE  IInv'
  BY <1>4, IInvBegin
<1>5. CASE UNCHANGED vars
  <2>1. TypeOK' /\ Messages'
    BY <1>5 DEF vars, IInv, TypeOK, Messages, WasSent, About
  <2>. QED
    BY <1>5, <2>1, Still DEF vars, IInv
<1>. QED
  BY <1>1, <1>2, <1>3, <1>4, <1>5 DEF Next

\* What the maps and the goroutines hold, and what is due to whom, in every
\* reachable state.
THEOREM Invariant == Spec => []IInv
BY IInvInit, IInvNext, PTL DEF Spec

\* The maps keep their types: what is stored by a private message is the data
\* of the event whose choices the message has, what is stored by another key is
\* an event that has this key, and the message that is looked up for a user and
\* an event was sent to him with the choices of this event.
THEOREM Typing == Spec => []TypeOK
<1>1. IInv => TypeOK
  BY DEF IInv
<1>. QED
  BY <1>1, Invariant, PTL

\* Whatever overlaps (reactions, answers, the end of the quiz, its stop), the
\* answers of a choice quiz are rewarded once, only if right and never if the
\* quiz was cancelled; and whose only answer was right and came in time has been
\* rewarded when the quiz is over, or told that he could not be.
THEOREM AnswersRewarded == Spec => []ChoiceRewards
<1>1. IInv => ChoiceRewards
  BY DEF IInv, RewardsDue, Rewarded, Settled, Told, Due, InTime, AllRight, ChoiceRewards
<1>. QED
  BY <1>1, Invariant, PTL

=============================================================================

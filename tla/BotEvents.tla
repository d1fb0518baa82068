----------------------------- MODULE BotEvents ------------------------------
(***************************************************************************)
(* The events of the game on Discord: discordbot/posplay.go. An event is   *)
(* won by reacting to a message, by a private message that begins with a   *)
(* trigger (a quiz), or by reacting to a private message with choices (a   *)
(* choice quiz), whose answers are rewarded when it ends.                  *)
(*                                                                         *)
(* Discord's client calls each handler in a goroutine of its own; an event *)
(* has one too, which waits for its end. What they share are sync.Maps:    *)
(* each access is a step, between two of them messages are sent, and any   *)
(* may fail. Which answers are late is history that the code does not keep.*)
(* The XP is that of posplay.RegisterEventWinCallback (module PosPlay).    *)
(***************************************************************************)
EXTENDS Naturals, FiniteSets, Functions

CONSTANTS Users, Handlers, Admins,
          Events,
          Sort,              \* "reaction", "quiz" or "choice"
          Key,               \* the event's message, or its trigger
          MaxAttempts,       \* of a quiz, 0 for any number
          MaxSent,           \* bound on the private messages to a user
          MaxStarted         \* bound on the events that are started

\* The private messages with choices: of an event, to a user.
PrivateMessages == [event : Events, to : Users, number : Nat]

\* Messages have different IDs, of which no trigger is one.
ASSUME BotEventsAssumption ==
    /\ \A e \in Events : Key[e] \notin PrivateMessages
    /\ Sort \in [Events -> {"reaction", "quiz", "choice"}]
    /\ MaxAttempts \in Nat /\ MaxSent \in Nat /\ MaxStarted \in Nat

VARIABLES ongoing,           \* events by key, and personal data by private message
          routine,           \* the goroutine of each event
          stopChan,          \* how many values it holds, at most one
          stopping,          \* the event that each admin's command is stopping
          SentChoicesTo,     \* the private message that each user was sent last
          AttemptTally,
          xp,                \* rewards of each user for each event
          content,           \* what giveRewards has told each user, of each event
          call,              \* what each handler is doing
          sent,              \* private messages with choices: how many of each user
          answers            \* the answers of choice quizzes that were stored

vars == <<ongoing, routine, stopChan, stopping, SentChoicesTo, AttemptTally, xp, content, call, sent, answers>>

DM(e, u, n) == [event |-> e, to |-> u, number |-> n]

\* A value of the map ongoing.
Event(e) == [is |-> Sort[e], event |-> e, Answered |-> FALSE, right |-> FALSE]

PersonalData(e, answered, right) ==
    [is |-> "personal", event |-> e, Answered |-> answered, right |-> right]

Routine == [at : {"unborn", "waiting", "rewarding", "cleaning", "over"},
            by : {"none", "stop", "time"},
            must : SUBSET Users, visited : SUBSET Users]

Unborn == [at |-> "unborn", by |-> "none", must |-> {}, visited |-> {}]

Idle == [does |-> "nothing"]

Init ==
    /\ ongoing = <<>>
    /\ routine = [e \in Events |-> Unborn]
    /\ stopChan = [e \in Events |-> 0]
    /\ stopping = [a \in Admins |-> {}]
    /\ SentChoicesTo = [e \in Events |-> <<>>]
    /\ AttemptTally = [e \in Events |-> [u \in Users |-> 0]]
    /\ xp = [e \in Events |-> [u \in Users |-> 0]]
    /\ content = [e \in Events |-> [u \in Users |-> "nothing"]]
    /\ call = [h \in Handlers |-> Idle]
    /\ sent = [e \in Events |-> [u \in Users |-> 0]]
    /\ answers = {}

-----------------------------------------------------------------------------
(***************************************************************************)
(* Maps.                                                                   *)
(***************************************************************************)
Stored(map, key, value) == [k \in DOMAIN map \cup {key} |-> IF k = key THEN value ELSE map[k]]

Deleted(map, key) == Restrict(map, DOMAIN map \ {key})

-----------------------------------------------------------------------------
(***************************************************************************)
(* The life of an event.                                                   *)
(***************************************************************************)
\* StartReactionEvent, StartQuizEvent, StartMultipleChoiceQuizEvent, by a
\* command or by a script.
StartEvent(e) ==
    /\ routine[e].at = "unborn"
    /\ Cardinality({x \in Events : routine[x].at # "unborn"}) < MaxStarted
    /\ routine' = [routine EXCEPT ![e].at = "waiting"]
    /\ ongoing' = Stored(ongoing, Key[e], Event(e))
    /\ UNCHANGED <<stopChan, stopping, SentChoicesTo, AttemptTally, xp, content, call, sent, answers>>

\* StopEvent loads the event, then sends to its channel, which holds one value.
StopEvent(a, key) ==
    /\ stopping[a] = {}
    /\ key \in DOMAIN ongoing /\ ongoing[key].is # "personal"
    /\ stopping' = [stopping EXCEPT ![a] = {ongoing[key].event}]
    /\ UNCHANGED <<ongoing, routine, stopChan, SentChoicesTo, AttemptTally, xp, content, call, sent, answers>>

SendStop(a) ==
    /\ \E e \in stopping[a] : stopChan[e] = 0 /\ stopChan' = [stopChan EXCEPT ![e] = 1]
    /\ stopping' = [stopping EXCEPT ![a] = {}]
    /\ UNCHANGED <<ongoing, routine, SentChoicesTo, AttemptTally, xp, content, call, sent, answers>>

\* A range over SentChoicesTo visits the users that are there when it begins,
\* and perhaps those that come meanwhile.
Ranging(e, at, by) ==
    [at |-> at, by |-> by, must |-> DOMAIN SentChoicesTo[e], visited |-> {}]

ReceiveStop(e) ==
    /\ routine[e].at = "waiting" /\ stopChan[e] = 1
    /\ stopChan' = [stopChan EXCEPT ![e] = 0]
    /\ routine' = [routine EXCEPT ![e] = Ranging(e, "cleaning", "stop")]
    /\ UNCHANGED <<ongoing, stopping, SentChoicesTo, AttemptTally, xp, content, call, sent, answers>>

TimeIsUp(e) ==
    /\ routine[e].at = "waiting"
    /\ routine' = [routine EXCEPT ![e] =
           Ranging(e, IF Sort[e] = "choice" THEN "rewarding" ELSE "cleaning", "time")]
    /\ UNCHANGED <<ongoing, stopChan, stopping, SentChoicesTo, AttemptTally, xp, content, call, sent, answers>>

RewardAnyAnswer(e, u, data) == IF xp[e][u] = 0 THEN 1 ELSE 0         \* (mutant)

\* What RegisterEventWinCallback adds for a user and the answer he gave, if
\* nothing fails.
Reward(e, u, data) == IF data.right /\ xp[e][u] = 0 THEN 1 ELSE 0

Content(data, gained) ==
    IF ~data.right THEN "wrong" ELSE IF gained = 1 THEN "right" ELSE "not rewarded"

\* giveRewards, for one user: the data of the message that he was sent last.
\* The callback may fail, for a user who does not play or when a statement or
\* the commit fails, which adds nothing.
GiveReward(e, u) ==
    LET dm == SentChoicesTo[e][u]
    IN  /\ routine[e].at = "rewarding"
        /\ u \in DOMAIN SentChoicesTo[e] \ routine[e].visited
        /\ routine' = [routine EXCEPT ![e].visited = @ \cup {u}]
        /\ \/ /\ dm \in DOMAIN ongoing /\ ongoing[dm].Answered
              /\ \E gained \in {0, Reward(e, u, ongoing[dm])} :
                     /\ xp' = [xp EXCEPT ![e][u] = @ + gained]
                     /\ content' = [content EXCEPT ![e][u] = Content(ongoing[dm], gained)]
           \/ /\ dm \in DOMAIN ongoing => ~ongoing[dm].Answered
              /\ UNCHANGED <<xp, content>>
        /\ UNCHANGED <<ongoing, stopChan, stopping, SentChoicesTo, AttemptTally, call, sent, answers>>

AllRewarded(e) ==
    /\ routine[e].at = "rewarding" /\ routine[e].must \subseteq routine[e].visited
    /\ routine' = [routine EXCEPT ![e] = Ranging(e, "cleaning", "time")]
    /\ UNCHANGED <<ongoing, stopChan, stopping, SentChoicesTo, AttemptTally, xp, content, call, sent, answers>>

\* cleanup, for one user.
Cleanup(e, u) ==
    /\ routine[e].at = "cleaning"
    /\ u \in DOMAIN SentChoicesTo[e] \ routine[e].visited
    /\ routine' = [routine EXCEPT ![e].visited = @ \cup {u}]
    /\ ongoing' = Deleted(ongoing, SentChoicesTo[e][u])
    /\ UNCHANGED <<stopChan, stopping, SentChoicesTo, AttemptTally, xp, content, call, sent, answers>>

EndUnlessStopped(e) ==                                               \* (mutant)
    /\ routine[e].at = "cleaning" /\ routine[e].must \subseteq routine[e].visited
    /\ routine' = [routine EXCEPT ![e].at = "over"]
    /\ ongoing' = IF routine[e].by = "stop" THEN ongoing ELSE Deleted(ongoing, Key[e])
    /\ UNCHANGED <<stopChan, stopping, SentChoicesTo, AttemptTally, xp, content, call, sent, answers>>

EndEvent(e) ==
    /\ routine[e].at = "cleaning" /\ routine[e].must \subseteq routine[e].visited
    /\ routine' = [routine EXCEPT ![e].at = "over"]
    /\ ongoing' = Deleted(ongoing, Key[e])
    /\ UNCHANGED <<stopChan, stopping, SentChoicesTo, AttemptTally, xp, content, call, sent, answers>>

EventRoutine(e) ==
    \/ ReceiveStop(e) \/ TimeIsUp(e) \/ AllRewarded(e) \/ EndEvent(e)
    \/ \E u \in Users : GiveReward(e, u) \/ Cleanup(e, u)

-----------------------------------------------------------------------------
(***************************************************************************)
(* Users.                                                                  *)
(***************************************************************************)
Calls(h, doing) == call[h] = Idle /\ call' = [call EXCEPT ![h] = doing]

Return(h) == call' = [call EXCEPT ![h] = Idle]

\* HandleReaction, to the message of a reaction event: the callback reads that
\* the user has no reward for it.
React(h, u, key) ==
    /\ key \in DOMAIN ongoing /\ ongoing[key].is = "reaction"
    /\ xp[ongoing[key].event][u] = 0
    /\ Calls(h, [does |-> "win", event |-> ongoing[key].event, user |-> u])
    /\ UNCHANGED <<ongoing, routine, stopChan, stopping, SentChoicesTo, AttemptTally, xp, content, sent, answers>>

Win(h) ==
    /\ call[h].does = "win"
    /\ xp' = [xp EXCEPT ![call[h].event][call[h].user] = @ + 1]
    /\ Return(h)
    /\ UNCHANGED <<ongoing, routine, stopChan, stopping, SentChoicesTo, AttemptTally, content, sent, answers>>

\* To that of a choice quiz: sendMultipleChoiceQuizOptions.
ReactToQuestion(h, u, key) ==
    /\ key \in DOMAIN ongoing /\ ongoing[key].is = "choice"
    /\ u \notin DOMAIN SentChoicesTo[ongoing[key].event]
    /\ Calls(h, [does |-> "options", event |-> ongoing[key].event, user |-> u])
    /\ UNCHANGED <<ongoing, routine, stopChan, stopping, SentChoicesTo, AttemptTally, xp, content, sent, answers>>

SendOptions(h) ==
    LET e == call[h].event
        u == call[h].user
    IN  /\ call[h].does = "options"
        /\ sent[e][u] < MaxSent
        /\ sent' = [sent EXCEPT ![e][u] = @ + 1]
        /\ SentChoicesTo' = [SentChoicesTo EXCEPT ![e] = Stored(@, u, DM(e, u, sent[e][u] + 1))]
        /\ call' = [call EXCEPT ![h] =
               [does |-> "personal", event |-> e, dm |-> DM(e, u, sent[e][u] + 1)]]
        /\ UNCHANGED <<ongoing, routine, stopChan, stopping, AttemptTally, xp, content, answers>>

StorePersonalData(h) ==
    /\ call[h].does = "personal"
    /\ ongoing' = Stored(ongoing, call[h].dm, PersonalData(call[h].event, FALSE, FALSE))
    /\ Return(h)
    /\ UNCHANGED <<routine, stopChan, stopping, SentChoicesTo, AttemptTally, xp, content, sent, answers>>

\* To the choices: handleMultipleChoiceQuizAnswer, with a copy of the data.
ReactToChoices(h, dm, right) ==
    /\ dm \in DOMAIN ongoing /\ ongoing[dm].is = "personal" /\ ~ongoing[dm].Answered
    /\ Calls(h, [does |-> "answer", dm |-> dm, right |-> right])
    /\ UNCHANGED <<ongoing, routine, stopChan, stopping, SentChoicesTo, AttemptTally, xp, content, sent, answers>>

\* The user has been told that his answer counts.
StoreAnswer(h) ==
    LET dm == call[h].dm
    IN  /\ call[h].does = "answer"
        /\ ongoing' = Stored(ongoing, dm, PersonalData(dm.event, TRUE, call[h].right))
        /\ answers' = answers \cup {[event |-> dm.event, user |-> dm.to, right |-> call[h].right,
                                     late |-> routine[dm.event].at # "waiting"]}
        /\ Return(h)
        /\ UNCHANGED <<routine, stopChan, stopping, SentChoicesTo, AttemptTally, xp, content, sent>>

\* A message could not be sent, or the callback has failed.
Fail(h) ==
    /\ call[h].does \in {"options", "answer", "win"}
    /\ Return(h)
    /\ UNCHANGED <<ongoing, routine, stopChan, stopping, SentChoicesTo, AttemptTally, xp, content, sent, answers>>

\* HandleMessage, with the trigger of a quiz: the attempts are read first.
AnswerQuiz(h, u, key, right) ==
    LET e == ongoing[key].event
        attempts == AttemptTally[e][u]
    IN  /\ key \in DOMAIN ongoing /\ ongoing[key].is = "quiz"
        /\ MaxAttempts > 0 => attempts < MaxAttempts
        /\ \/ ~right /\ Calls(h, [does |-> "wrong", event |-> e, user |-> u, attempts |-> attempts + 1])
           \/ right /\ xp[e][u] = 0 /\ Calls(h, [does |-> "win", event |-> e, user |-> u])
        /\ UNCHANGED <<ongoing, routine, stopChan, stopping, SentChoicesTo, AttemptTally, xp, content, sent, answers>>

StoreAttempts(h) ==
    /\ call[h].does = "wrong"
    /\ AttemptTally' = [AttemptTally EXCEPT ![call[h].event][call[h].user] = call[h].attempts]
    /\ Return(h)
    /\ UNCHANGED <<ongoing, routine, stopChan, stopping, SentChoicesTo, xp, content, sent, answers>>

Handle(h) == Win(h) \/ SendOptions(h) \/ StorePersonalData(h) \/ StoreAnswer(h) \/ StoreAttempts(h)

Next ==
    \/ \E e \in Events : StartEvent(e) \/ EventRoutine(e)
    \/ \E a \in Admins : SendStop(a) \/ \E key \in DOMAIN ongoing : StopEvent(a, key)
    \/ \E h \in Handlers :
           \/ Handle(h) \/ Fail(h)
           \/ \E key \in DOMAIN ongoing :
                  \/ \E u \in Users : React(h, u, key) \/ ReactToQuestion(h, u, key)
                  \/ \E right \in BOOLEAN :
                         \/ ReactToChoices(h, key, right)
                         \/ \E u \in Users : AnswerQuiz(h, u, key, right)

Spec == Init /\ [][Next]_vars

\* The timer of an event fires, and its goroutine goes on.
FairSpec == Spec /\ \A e \in Events : WF_vars(EventRoutine(e))

-----------------------------------------------------------------------------
PersonalDatas == [is : {"personal"}, event : Events, Answered : BOOLEAN, right : BOOLEAN]

\* Only a reaction event and a quiz are won at once.
CallTyped(c) ==
    \/ c = Idle
    \/ c \in [does : {"win"}, event : {e \in Events : Sort[e] # "choice"}, user : Users]
    \/ c \in [does : {"options"}, event : Events, user : Users]
    \/ c \in [does : {"personal"}, event : Events, dm : PrivateMessages] /\ c.dm.event = c.event
    \/ c \in [does : {"answer"}, dm : PrivateMessages, right : BOOLEAN]
    \/ c \in [does : {"wrong"}, event : Events, user : Users, attempts : Nat]

Contents == {"nothing", "wrong", "right", "not rewarded"}

\* What is stored by private message is personal data of the event whose
\* choices it has, and what is stored by another key is an event of this key.
TypeOK ==
    /\ \A k \in DOMAIN ongoing :
           \/ k \in PrivateMessages /\ ongoing[k] \in PersonalDatas /\ ongoing[k].event = k.event
           \/ k \notin PrivateMessages /\ \E e \in Events : Key[e] = k /\ ongoing[k] = Event(e)
    /\ routine \in [Events -> Routine]
    /\ stopChan \in [Events -> {0, 1}]
    /\ stopping \in [Admins -> SUBSET Events]
    /\ DOMAIN SentChoicesTo = Events
    /\ \A e \in Events :
           /\ DOMAIN SentChoicesTo[e] \subseteq Users
           /\ \A u \in DOMAIN SentChoicesTo[e] :
                  /\ SentChoicesTo[e][u] \in PrivateMessages
                  /\ SentChoicesTo[e][u].event = e /\ SentChoicesTo[e][u].to = u
    /\ AttemptTally \in [Events -> [Users -> Nat]]
    /\ xp \in [Events -> [Users -> Nat]]
    /\ content \in [Events -> [Users -> Contents]]
    /\ DOMAIN call = Handlers /\ \A h \in Handlers : CallTyped(call[h])
    /\ sent \in [Events -> [Users -> Nat]]
    /\ answers \subseteq [event : Events, user : Users, right : BOOLEAN, late : BOOLEAN]

AnswersOf(e, u) == {answer \in answers : answer.event = e /\ answer.user = u}

\* Whatever overlaps (reactions of a user to the question, to the choices, the
\* end of the quiz), a user has been rewarded for a choice quiz at most once,
\* only for a right answer, not if it was cancelled, and exactly if he has been
\* told so; he is told that an answer is wrong or not rewarded only if he gave
\* such a one; and when the quiz has ended, who was sent the choices once, and
\* was told in time that his answer counts, has been rewarded if he gave no
\* other, or been told that his right answer could not be.
ChoiceRewards ==
    \A e \in Events, u \in Users :
        Sort[e] = "choice" =>
            /\ xp[e][u] <= 1
            /\ xp[e][u] = 1 <=> content[e][u] = "right"
            /\ content[e][u] # "nothing" =>
                   /\ \E answer \in AnswersOf(e, u) : answer.right <=> content[e][u] # "wrong"
                   /\ routine[e].by = "time"
            /\ (/\ routine[e].at \in {"cleaning", "over"} /\ routine[e].by = "time"
                /\ sent[e][u] = 1
                /\ \E answer \in AnswersOf(e, u) : ~answer.late
                /\ \A answer \in AnswersOf(e, u) : answer.right)
               => content[e][u] \in {"right", "not rewarded"}

\* An event that has started is over some day: it can be won no more, neither
\* when its time is up nor when it is stopped.
EventsEnd == \A e \in Events : routine[e].at = "waiting" ~> [](Key[e] \notin DOMAIN ongoing)
=============================================================================

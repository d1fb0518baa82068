--------------------------- MODULE ReportHandler ----------------------------
(***************************************************************************)
(* The reports of the users and what they do to the lines:                 *)
(* compute/reports.go. A report is a vote, in a go-cache that forgets it   *)
(* after a quarter of an hour. Every new vote starts a goroutine that      *)
(* evaluates the situation of every line; every vote that leaves the cache *)
(* has its evaluation too, run by whoever removed it: the janitor of the   *)
(* cache, an evaluation that clears the votes of a line (so evaluations    *)
(* nest), or the bot's command that does. An evaluation holds a connection *)
(* of the pool while it lasts and takes another one for each status.       *)
(*                                                                         *)
(* The lines are in phases (LineTimeline, which LineStatus implements).    *)
(* The threshold, which follows the number of users in the line and what   *)
(* administrators set, can be any of Thresholds at each evaluation.        *)
(* Statements do not fail here, and the process does not restart.          *)
(***************************************************************************)
EXTENDS LinePhases, Naturals, FiniteSets, Sequences, FiniteSetsExt

CONSTANTS LineOrder,    \* the lines, as GetLines returns them
          Submitters,   \* who votes: an API key or an IP address
          Weights,      \* how much a vote can count for
          Thresholds,   \* what GetThresholdForLine can return
          Lifetime,     \* of a vote, in ticks of the clock
          Goroutines,   \* those that can evaluate at the same time
          janitor,      \* the goroutine of the cache
          Connections,  \* the size of the pool
          MaxVotes,     \* bound on the votes cast
          MaxChanges    \* bound on the times an operator changes its mind, per line

Lines == {LineOrder[i] : i \in DOMAIN LineOrder}

Keys == Lines \X Submitters   \* RateLimiterKey

ASSUME ReportHandlerAssumption ==
    /\ LineOrder \in Seq(Lines) /\ Len(LineOrder) > 0
    /\ Weights \subseteq Nat \ {0}
    /\ Thresholds \subseteq Nat \ {0, 1}
    /\ Lifetime \in Nat \ {0}
    /\ janitor \notin Goroutines
    /\ {Connections, MaxVotes, MaxChanges} \subseteq Nat

VARIABLES phase,      \* of each line, in the database
          had,        \* the lines that had a disturbance, at some time
          changes,    \* the times each operator changed its mind
          votes,      \* the cache: what is in it, by key
          cast,       \* votes cast
          stack,      \* the nested evaluations of each goroutine
          evictions   \* what the janitor removed and still has to report

vars == <<phase, had, changes, votes, cast, stack, evictions>>

Evaluators == Goroutines \cup {janitor}

(***************************************************************************)
(* A vote has the ticks it has left and, for the properties, how often the *)
(* operator of its line had changed its mind when it was cast.             *)
(***************************************************************************)
Vote == [weight : Weights, left : 0..Lifetime, cast : 0..MaxChanges]

\* An evaluation, or the command that clears the votes of a line: where it is
\* in LineOrder, what it does next there, and the keys that it has to delete.
Frame == [at : 1..(Len(LineOrder) + 1),
          does : {"begin", "look", "count to start", "count to keep",
                  "start", "end", "clear", "command"},
          keys : SUBSET Keys]

Evaluation == [at |-> 1, does |-> "begin", keys |-> {}]

Init ==
    /\ phase = [l \in Lines |-> "normal"]
    /\ had \in SUBSET Lines
    /\ changes = [l \in Lines |-> 0]
    /\ votes = <<>>
    /\ cast = 0
    /\ stack = [g \in Evaluators |-> <<>>]
    /\ evictions = 0

-----------------------------------------------------------------------------
Valid == {k \in DOMAIN votes : votes[k].left > 0}

VotesFor(l) == {k \in Valid : k[1] = l}

CountVotes(l) == MapThenSumSet(LAMBDA k : votes[k].weight, VotesFor(l))

NotYetWithout(keys) == votes                                         \* (mutant)

Without(keys) == [k \in DOMAIN votes \ keys |-> votes[k]]

Idle(g) == stack[g] = <<>>

Top(g) == Head(stack[g])

At(g) == LineOrder[Top(g).at]

Does(g, what) == ~Idle(g) /\ Top(g).does = what

SetTop(g, frame) == stack' = [stack EXCEPT ![g] = <<frame>> \o Tail(@)]

Do(g, what) == SetTop(g, [Top(g) EXCEPT !.does = what])

NextLine(g) ==
    SetTop(g, [at |-> Top(g).at + 1, does |-> "look", keys |-> {}])

\* Beginx: an evaluation has its connection once it has begun.
HasConnection(frame) == frame.does \notin {"begin", "command"}

Held(g) == Cardinality({i \in DOMAIN stack[g] : HasConnection(stack[g][i])})

Used == MapThenSumSet(Held, Evaluators)

OneAtATime == Used = 0                                               \* (mutant)

FreeConnection == Used < Connections

Quiet == evictions = 0 /\ \A g \in Evaluators : Idle(g)

\* handleNewStatus: a transaction of its own, on another connection.
ReportStatus(l, isDowntime) ==
    /\ FreeConnection
    /\ phase' = [phase EXCEPT ![l] = AfterCommunity(@, isDowntime)]
    /\ had' = IF isDowntime THEN had \cup {l} ELSE had

-----------------------------------------------------------------------------
IfQuiet(evaluation) ==                                               \* (mutant)
    IF Quiet THEN <<evaluation>> ELSE <<>>

Go(evaluation) == <<evaluation>>

\* AddReportManually: Add fails while the cache has a vote of the same key that
\* has not expired; then go evaluateSituation().
AddReport(g, k, weight) ==
    /\ Idle(g)
    /\ cast < MaxVotes
    /\ k \notin Valid
    /\ votes' = [x \in DOMAIN votes \cup {k} |->
                     IF x = k THEN [weight |-> weight, left |-> Lifetime, cast |-> changes[k[1]]]
                     ELSE votes[x]]
    /\ cast' = cast + 1
    /\ stack' = [stack EXCEPT ![g] = Go(Evaluation)]
    /\ UNCHANGED <<phase, had, changes, evictions>>

\* The bot's command: ClearVotesForLine without an evaluation around it.
ClearCommand(g, l) ==
    /\ Idle(g)
    /\ VotesFor(l) # {}
    /\ stack' = [stack EXCEPT ![g] =
                    <<[at |-> 1, does |-> "command", keys |-> VotesFor(l)]>>]
    /\ UNCHANGED <<phase, had, changes, votes, cast, evictions>>

BeginEvaluation(g) ==
    /\ Does(g, "begin")
    /\ FreeConnection
    /\ Do(g, "look")
    /\ UNCHANGED <<phase, had, changes, votes, cast, evictions>>

\* OngoingDisturbances. While one is official, the votes of the line go.
Look(g) ==
    /\ Does(g, "look")
    /\ Top(g).at <= Len(LineOrder)
    /\ \/ phase[At(g)] = "normal" /\ Do(g, "count to start")
       \/ phase[At(g)] = "community" /\ Do(g, "count to keep")
       \/ /\ phase[At(g)] = "official"
          /\ SetTop(g, [Top(g) EXCEPT !.does = "clear", !.keys = VotesFor(At(g))])
    /\ UNCHANGED <<phase, had, changes, votes, cast, evictions>>

EnoughToStart(l, threshold) == CountVotes(l) >= threshold

AQuarterToKeep(l, threshold) == CountVotes(l) >= threshold \div 4    \* (mutant)

EnoughToKeep(l, threshold) == CountVotes(l) >= threshold \div 2

Count(g) ==
    /\ \E threshold \in Thresholds :
           \/ /\ Does(g, "count to start")
              /\ IF EnoughToStart(At(g), threshold) THEN Do(g, "start") ELSE NextLine(g)
           \/ /\ Does(g, "count to keep")
              /\ IF EnoughToKeep(At(g), threshold) THEN NextLine(g) ELSE Do(g, "end")
    /\ UNCHANGED <<phase, had, changes, votes, cast, evictions>>

\* startDisturbance gives up without a vote, on whatever line, or without an
\* earlier disturbance. The statuses it reports go to the same phase.
StartDisturbance(g) ==
    /\ Does(g, "start")
    /\ IF Valid = {} \/ At(g) \notin had
       THEN UNCHANGED <<phase, had>>
       ELSE ReportStatus(At(g), TRUE)
    /\ NextLine(g)
    /\ UNCHANGED <<changes, votes, cast, evictions>>

EndDisturbance(g) ==
    /\ Does(g, "end")
    /\ ReportStatus(At(g), FALSE)
    /\ NextLine(g)
    /\ UNCHANGED <<changes, votes, cast, evictions>>

\* go-cache calls OnEvicted when Delete removes something.
Evicted(k) == k \in DOMAIN votes

\* ClearVotesForLine, one key at a time: OnEvicted evaluates the situation
\* before the next one.
ClearVote(g, k) ==
    /\ Does(g, "clear") \/ Does(g, "command")
    /\ k \in Top(g).keys
    /\ votes' = Without({k})
    /\ LET rest == [Top(g) EXCEPT !.keys = @ \ {k}]
       IN  stack' = [stack EXCEPT ![g] =
                        (IF Evicted(k) THEN <<Evaluation, rest>> ELSE <<rest>>) \o Tail(@)]
    /\ UNCHANGED <<phase, had, changes, cast, evictions>>

Cleared(g) ==
    /\ Does(g, "clear")
    /\ Top(g).keys = {}
    /\ NextLine(g)
    /\ UNCHANGED <<phase, had, changes, votes, cast, evictions>>

\* The function returns, to the one that removed a vote if it was nested.
Return(g) ==
    /\ \/ Does(g, "look") /\ Top(g).at > Len(LineOrder)
       \/ Does(g, "command") /\ Top(g).keys = {}
    /\ stack' = [stack EXCEPT ![g] = Tail(@)]
    /\ UNCHANGED <<phase, had, changes, votes, cast, evictions>>

-----------------------------------------------------------------------------
\* The janitor removes all that expired, then calls OnEvicted for each.
DeleteExpired ==
    /\ Idle(janitor) /\ evictions = 0
    /\ Valid # DOMAIN votes
    /\ evictions' = Cardinality(DOMAIN votes \ Valid)
    /\ votes' = Without(DOMAIN votes \ Valid)
    /\ UNCHANGED <<phase, had, changes, cast, stack>>

OnEvicted ==
    /\ Idle(janitor) /\ evictions > 0
    /\ evictions' = evictions - 1
    /\ stack' = [stack EXCEPT ![janitor] = <<Evaluation>>]
    /\ UNCHANGED <<phase, had, changes, votes, cast>>

\* An evaluation takes less than a tick, and the janitor comes every tick.
Tick ==
    /\ Quiet
    /\ votes # <<>> /\ Valid = DOMAIN votes
    /\ votes' = [k \in DOMAIN votes |-> [votes[k] EXCEPT !.left = @ - 1]]
    /\ UNCHANGED <<phase, had, changes, cast, stack, evictions>>

\* The scraper reports the operator's change of mind.
OperatorReports(l) ==
    /\ changes[l] < MaxChanges
    /\ phase' = [phase EXCEPT ![l] = AfterOperator(@, @ # "official")]
    /\ had' = had \cup {l}
    /\ changes' = [changes EXCEPT ![l] = @ + 1]
    /\ UNCHANGED <<votes, cast, stack, evictions>>

\* An administrator starts or ends a disturbance with the bot.
BotReports(l, isDowntime) ==
    /\ phase[l] # AfterCommunity(phase[l], isDowntime)
    /\ phase' = [phase EXCEPT ![l] = AfterCommunity(@, isDowntime)]
    /\ had' = had \cup {l}
    /\ UNCHANGED <<changes, votes, cast, stack, evictions>>

Evaluate(g) ==
    \/ BeginEvaluation(g)
    \/ Look(g)
    \/ Count(g)
    \/ StartDisturbance(g)
    \/ EndDisturbance(g)
    \/ \E k \in Keys : ClearVote(g, k)
    \/ Cleared(g)
    \/ Return(g)

Next ==
    \/ \E g \in Goroutines, k \in Keys, weight \in Weights : AddReport(g, k, weight)
    \/ \E g \in Goroutines, l \in Lines : ClearCommand(g, l)
    \/ \E g \in Evaluators : Evaluate(g)
    \/ DeleteExpired
    \/ OnEvicted
    \/ Tick
    \/ \E l \in Lines : OperatorReports(l)
    \/ \E l \in Lines, isDowntime \in BOOLEAN : BotReports(l, isDowntime)

\* Goroutines run, the janitor has its timer and time passes; nobody has to
\* vote or to report.
Fairness ==
    /\ \A g \in Evaluators : WF_vars(Evaluate(g))
    /\ WF_vars(DeleteExpired)
    /\ WF_vars(OnEvicted)
    /\ WF_vars(Tick)

Spec == Init /\ [][Next]_vars

FairSpec == Spec /\ Fairness

-----------------------------------------------------------------------------
\* The votes are by the keys of the cache, and every frame is one of an
\* evaluation or of the command (at the bottom of its goroutine).
TypeOK ==
    /\ phase \in [Lines -> Phases]
    /\ had \subseteq Lines
    /\ changes \in [Lines -> 0..MaxChanges]
    /\ DOMAIN votes \subseteq Keys /\ IsFiniteSet(DOMAIN votes)
    /\ \A k \in DOMAIN votes : votes[k] \in Vote
    /\ cast \in 0..MaxVotes
    /\ stack \in [Evaluators -> Seq(Frame)]
    /\ evictions \in Nat

\* The recursion of evaluateSituation through ClearVotesForLine and OnEvicted
\* is bounded by the votes: every nested evaluation, and every one the janitor
\* still owes, is that of a vote that was cast and is no longer in the cache.
Nested == UNION {{g} \X (2..Len(stack[g])) : g \in Evaluators}

RecursionBounded == Cardinality(Nested) + evictions + Cardinality(DOMAIN votes) <= cast

\* While the operator says that there is a disturbance, users' votes do not
\* pile up: once every evaluation has returned, no vote that was cast since the
\* operator said so is left, whatever evaluations overlapped with the vote.
NoVotesWhileOfficial ==
    Quiet => \A k \in Valid :
                phase[k[1]] = "official" => votes[k].cast # changes[k[1]]

\* Every evaluation returns, and with it every report, command and round of the
\* janitor: although each holds a connection while it waits for another.
EvaluationsReturn == \A g \in Evaluators : ~Idle(g) ~> Idle(g)

\* A disturbance of the community does not outlive its votes: when a line that
\* has one has votes, and people stop voting, it ends or the operator takes it.
\* The evaluation that sees it end is that of the last vote to expire.
CommunityEnds ==
    \A l \in Lines :
        (phase[l] = "community" /\ VotesFor(l) # {}) ~> phase[l] # "community"
=============================================================================

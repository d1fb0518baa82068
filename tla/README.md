# Verification of the disturbancesmlx server

The server follows the Lisbon metro. It scrapes the operator's line statuses,
lets users report disturbances, keeps the history of statuses and disturbances
of each line, notifies phones, runs a Discord bot and a game (PosPlay), and
answers a REST API and an MQTT gateway. It is one Go process with a PostgreSQL
database. It has no automated tests.

This directory has TLA+ modules translated from `src/`, the TLC configurations
that check them on small instances, and theorems that TLAPS checks. A
definition's source lines are in `PROJECT.json` under `map`.

    tlc -workers 2 -config MCLineStatus.cfg MCLineStatus
    tlapm LineStatusProofs.tla   # and the other modules *Proofs

## Inventory

| Component | State | Operations | What is hard | What makes it correct |
|---|---|---|---|---|
| Statuses and disturbances (`types/line.go`, `disturbance.go`, `status.go`) | tables line_status, line_disturbance, line_disturbance_has_status, source | `Line.AddStatus`, `Disturbance.Update`, `Status.Update` | which status opens, amends or closes what; statuses dated in the past; duplicates | at most one disturbance ongoing, intervals disjoint, official within unofficial, each downtime status in one disturbance |
| What is computed from them (`types/line.go`, `network.go`, `website/*`) | schedules, exceptions for holidays | availability, durations, counts by day and hour, last disturbance | opening hours past midnight, windows that cut a disturbance | downtime is counted once and only while the line is open |
| Overlapping transactions (`scrapers.go` handleNewStatus, `website/disturbance.go`) | row locks, copies read earlier, the channel of notifications | the statements of `AddStatus`, the page that saves notes | read-then-write at READ COMMITTED, locks in opposite orders, a blocking send inside a transaction | a call of one source commits what is current, no notification without a commit, every call returns |
| Report handler (`compute/reports.go`) | go-cache of votes, phase of each line in the database | add, expire, evict, clear, evaluate | evaluations nest through the cache's eviction callback and overlap; each holds a connection | recursion ends, votes do not pile up during an official disturbance, a community disturbance does not outlive its votes |
| Line scraper (`scraper/mlxscraper/mlxscraper.go`, `scrapers.go`) | running, stopChan, ticker, previousResponse | Begin, End, update, the bot's command | a loop that is updating while End and Begin go by; failed and partial responses | a running scraper has a loop, a stopped one falls silent, statuses converge |
| Conditions of lines (`conditions.go`, `scrapers.go`) | table line_condition | a round over the lines, store if different | rounds that overlap, a line that fails | the latest row becomes what the server says |
| Announcements (`rss.go`, `facebook.go`, `announcements.go`) | previous response, firstUpdate | Begin, End, update, notify | errors and empty responses between two updates, two goroutines | a post is notified, once |
| Notifications (`notifs.go`) | two unbuffered channels, one consumer | status and announcement to FCM and Discord | the consumer is slow, producers hold locks | see StatusTransactions |
| Activity (`compute/stats.go`) | caches of users by network and by line | register, expire | two reports of one user overlap | a user is in the lines of one station, and not for ever |
| Trains (`compute/vehicle*.go`, `scraper/mlxscraper/eta.go`) | arrivals by platform and direction, passengers seen | register, expire, predict | arrivals that are stale, a train that turns at the end of the line | the train that is told is the next one |
| Learned times (`compute/typseconds.go`, `avgspeed.go`) | seconds of connections and transfers | update from trips, tabulate | closed stations joined over, divisions | what is read is the average of what was learned |
| PosPlay (`posplay/*`) | XP transactions, achievements, sessions | trip submission and correction, event wins, discussion, levels, leaderboards | bounded channels into one serial processor that also feeds them; rewards that must be given once; progress over several trips; weeks | no deadlock of the processor, one reward per cause, one achievement per player, visits remembered, pages that agree |
| PosPlay pairing (`posplay/auth.go`, `resource/pairconnection.go`) | codes by player and by code, a mutex, tables pp_pair and pp_xp_tx | draw a code, present it, expire | the mutex is released before the commit, rows are locked under the mutex | one bonus per player, a device can always move, every request is answered |
| Device pairing (`resource/pair.go`, `types/androidpairrequest.go`) | API pairs, pair requests | request, activate | repeated requests | a key is activated after its wait; waits grow with requests alike, up to a day |
| Trips (`resource/trip.go`, `types/trip.go`, `stationuse.go`) | trips and station uses | submit, correct, delete, read | times that the server repairs, uses upserted by an edit | a trip reads as it was sent; who may correct it and until when |
| Discord events (`discordbot/*`) | reaction events, quizzes, tallies, messages sent | start and stop events, answers, end of time | callbacks in goroutines of their own, a goroutine per event | an event ends; one reward per user, for a right answer |
| MQTT gateway (`mqttgateway/*`) | clients, subscriptions | connect, close, subscribe, publish | callbacks of the broker against a loop that closes idle clients | who only looks is let go, who breaks a rule is closed |
| Network data (`types/connection.go`, `station.go`, `lobby.go`) | stations, lines, connections, transfers, schedules | read, with closed stations joined over | adjacent closed stations, ends of lines | a way around a closed station takes the time of its parts |
| REST API, website, scripting, telemetry, start-up, generated code | none of their own | reads rendered | - | - |

How they interact: the line scraper, the bot's `linestatus` command and the
report handler all call `handleNewStatus`, which runs `AddStatus` in a
transaction of its own and hands a notification to the one goroutine of
`notifs.go` over an unbuffered channel. The report handler reads the ongoing
disturbances that `AddStatus` left. The API and the website's form add votes.
The API's trips, the pairing of phones and the bot's events feed PosPlay's
ledger and channels. The gateway and the API both report where a user is
(`compute/stats.go`), the gateway publishes what the scrapers learned of
trains. Trips teach the seconds that predictions read through the same
connections, joined over closed stations.

## Modules

| Module | Models | State and actions |
|---|---|---|
| `DisturbanceRules` | `AddStatus` as a function of a line's rows | no variables; used by every module in which statuses are added |
| `LineStatus` | the history of one line, calls of `handleNewStatus` one at a time | `rows` are the tables; `ScrapeStatus` and `BotStatus` are the calls of the scraper and the bot; `evaluations` is how far each evaluation of the report handler is: `Evaluate`, `CompareWithLast`, `AddFirst` and `AddFinal` are its steps, between which other calls may run; `late` is the times of the first statuses that were overtaken |
| `LinePhases`, `LineTimeline` | the abstract promise: a line is normal, has a community disturbance or an official one, as a function of what is reported | `LineStatus` implements it (`Timeline`), `ReportHandler` relies on it |
| `LineStatusProofs` | the theorems about `LineStatus` and `LineStatistics` | - |
| `StatusTransactions` | overlapping transactions of `handleNewStatus` | `step` is a call's next statement, `copy` the disturbance it has in memory, `locked` the source rows; `consumer` is the goroutine of notifs.go; `ReadPage` is an administrator who saves notes |
| `StatusTransactionsProofs` | the theorems about `StatusTransactions` | - |
| `ReportHandler` | votes and evaluations | `votes` is the go-cache, `stack` the nested evaluations of each goroutine, `evictions` what the cache's janitor still has to report |
| `UserReportsProofs` | the theorems about what users report: `ReportHandler`, and `Gateway` with `Activity`, which share nothing | - |
| `Scraper` | the life cycle and the updates of the line scraper | `loops` are the goroutines, `begins` the last channel and ticker made |
| `ScraperProofs` | the theorems about `Scraper` and `Announcements`, which share nothing | - |
| `PosPlay` | the game's ledger and the goroutine that rewards | `call` is what a handler of the API or of the bot is about to write or send, `queue` the four channels, `work` what `serialProcessor` is doing with an item; `trips`, `ledger` and `achieved` are tables; one action per statement, commit and send |
| `PosPlayProofs` | the theorems about `PosPlay` | - |
| `GameLedger` | balances, levels, weeks, ranks and leaderboards, settings, the rows of a profile | functions of the ledger, the players and the clock |
| `AchievementRules` | the strategies for stations, lines and disturbances, and the progress of visits | functions of a trip, the map and the row left by earlier trips |
| `Pairing` | PosPlay's codes and their use by phones | `mu` is the handler's mutex, `process` the pairProcess objects, `request` how far each API request is; `joined`, `bonuses`, `pairs` are tables; one action per statement |
| `PairingProofs` | the theorems about `Pairing` | - |
| `DevicePairing` | keys of devices | functions of the requests and pairs stored |
| `Trips` | trips stored, repaired, corrected, deleted and read | functions of the tables trip and station_use |
| `Activity` | `StatsHandler` | `activityPerLine` and `activityPerNetwork` are the time that entries have left; a report goes cache by cache |
| `Gateway` | `mqttgateway` on top of `Activity` | `session` is each client's connection, `checking` the list the loop is going through; callbacks of the broker are actions |
| `Arrivals` | arrivals scraped, kept, published; trains' positions; the next train | functions of a response, of caches and of the clock |
| `BotEvents` | Discord events | `ongoing` is the sync.Map of events and private messages, `routine` the goroutine of each event, `call` what each handler is doing |
| `BotEventsProofs` | the theorems about `BotEvents` | - |
| `Announcements` | the RSS and Facebook scrapers | `updater` is what each goroutine is doing, `announcements` the response stored last |
| `LineConditions` | rounds of conditions and `handleNewCondition` | `round` is how far each goroutine is, `lastCondition` the latest row |
| `Feeds` | both scrapers as one system, one of them in each behaviour | EXTENDS the two |
| `NetworkMap`, `OpeningHours` | lines, stations, connections with closed stations; the hours of lobbies | functions of the tables |
| `TypicalTimes` | times learned from trips, average speeds | functions of trips and of the map |
| `LineStatistics` | open spans, durations, availability, counts | functions of disturbances and schedules; EXTENDS `DisturbanceRules` |
| `StatusMessages` | types of messages, categories of disturbances | functions of the phrases that a text contains |
| `Sums` | the sum of a column | used by the modules that add up rows |
| `RecordsProofs` | the theorems about `DevicePairing`, `AchievementRules`, `NetworkMap`, `GameLedger`, `OpeningHours` and `StatusMessages` | - |
| `MC*` | instances for TLC | - |

Modules without variables are functions of rows, as the code's are of what it
selects; `MCRecords` asks each of them its questions. Where a function loops
or aggregates in SQL, the definition is a fold or a set with its sum.

`evaluateSituation` reads the line in a transaction of its own, `startDisturbance`
compares the earliest vote with the last disturbance, and up to two calls of
`handleNewStatus` follow, the first with a status dated at that vote. Each of
these is a step of `LineStatus`. A first status is overtaken when another call
records a status between the comparison and its own transaction: it may then lie
within a disturbance that has ended meanwhile, or go to one that began after it.
`DisjointIntervals` and `DowntimeAttributed` except such statuses by their times.
What overlaps within `handleNewStatus` is in `StatusTransactions`.
The definitions marked `(mutant)` are wrong versions that no specification
uses: putting one in the place of its neighbour makes TLC report the property
named in `PROJECT.json`, so that each property is known to depend on the code.

## Runs

| Run | Shows | Bounds, and why they are enough |
|---|---|---|
| `line_status` | the invariants of the history, that what ended is final, and the refinement of `LineTimeline` | six instants: enough to open, upgrade, close and reopen with a status in the past, and for a disturbance to begin and end between two steps of an evaluation; two evaluations, so that first statuses can overtake each other; bot texts that repeat the operator's and the handler's, so that the duplicate rule bites; 4.7 million states |
| `one_source` | calls of one source commit what the rules make of the rows as they then are | three calls at once, four in all, two texts; any statement may fail |
| `transactions` | calls of two sources and an administrator: every call returns, nothing is notified and then undone, except by a failing COMMIT | two threads and one editor can lock in opposite orders; PostgreSQL breaks the cycle |
| `two_ongoing` | two sources open two disturbances of one line (finding) | the same two threads, without editor |
| `reports` | evaluations end, votes are cleared, community disturbances end | two lines, one submitter, two votes, one request goroutine with the janitor, thresholds 2 and 3, pool of 4 |
| `scraper` | a running scraper has a loop, a stopped one ends, statuses converge | two lines, two starts, four responses with a line missing in one |
| `posplay` | one reward per cause and one achievement per player, what levels are computed from adds up to the ledger, weeks stay apart, the processor drains its channels | a player, a trip, three achievements (trip, correction, level), one handler of the API and one of the bot, transactions that fail, channels of four; three clock readings |
| `pairing` | the bonus for pairing is given once, a phone can always move, every request is answered | two players, two phones with a request each at a time, three codes, so that one is drawn while an expired one can still be presented; any statement may fail |
| `gateway` | a user is counted in the lines of one station and not for ever; who subscribes to nothing is let go | one user with a phone on MQTT and a report by HTTP, which overlap; a station of two lines and one of a third; two clients, two topics; a client that has gone when the loop closes it ends the program, which starts again |
| `discord` | a choice quiz rewards right answers and once, or says that it could not; an event that began is over some day | one event of each sort (they share only the map), one user with two goroutines, two attempts, two copies of the choices, an administrator who can stop it when he likes |
| `feeds` | posts are notified, and how often; the condition stored last becomes what the server says | three posts in a feed that shows two, two starts, a response without some of the posts (Facebook) or without any, a failed fetch; two lines, two rounds at once, two changes, an error |
| `records` | the functions of rows: see below | bounded inputs, 71 thousand questions |

`records` has one state per question and no behaviour to speak of. Its
questions are: every history of up to three statuses at the edges of days,
under schedules that close past midnight, for windows of one and two days
(`DowntimeCountedOnce`, against a count hour by hour); a map of two lines that
cross, with any stations closed but neighbours (`ClosedStationsPassed`); three
trips over it (`LearnedTimesReadBack`, against the averages of the parts of
trips); one or two trains anywhere on a line, passengers who board them, and
three moments, and arrivals as they are published, in any order of the cache
(`TrainsForetold`, against where the trains then are);
achievements over three trips while stations close, and over any way
(`VisitsRemembered`); ledgers of up to four transactions at the seams of
weeks, every form of settings, types of messages, last disturbances and hours
of lobbies (`PagesAgree`: what two pages compute in
different ways is the same, or differs as the property says); a trip sent and
sent again (`TripReadsBack`); three requests of devices (`WaitsGrow`).

In `reports`, the pool is as small as the model allows: an evaluation holds a
connection while it waits for another for its status or for a nested
evaluation. With two votes and one request goroutine beside the janitor, four
connections are enough and TLC finds the deadlock with three. The server has
thirty (`constants.go:19`), and nothing bounds the number of evaluations.

`posplay` has channels as small as its handlers allow. `serialProcessor` is
the only receiver of the channel to which the commits of its own rewards send:
with one handler of each kind beside it four places are enough, and with three
TLC finds the processor waiting for room that only it can make. The code's
channels have a hundred (`posplay/posplay.go`), and nothing else bounds how
many handlers send while the processor is rewarding an item. The run has one
handler of each kind: two reactions that overlap, and two first corrections or
submissions of one trip at once, are rewarded twice.

A deadlock check makes no sense for runs that may stop: all do, since nobody
has to call, and clocks and counters are bounded.

## Fairness

* `StatusTransactions`: weak fairness of each call's next statement, of the
  consumer's return from a send, and of PostgreSQL's deadlock detection. No
  call is assumed to begin.
* `ReportHandler`: weak fairness of each goroutine's evaluation, of the cache's
  janitor (go-cache runs it from a ticker) and of time. Nobody is assumed to
  vote. An evaluation takes less than a tick, and a tick is the cache's
  cleaning period.
* `Scraper`: weak fairness of loops and of the ticker; strong fairness of a
  fetch that returns the server's present response: a server that is asked for
  ever answers some time. No command is assumed.
* `PosPlay`: weak fairness of each handler that has begun and of the processor.
  Nobody has to call. A transaction may fail at any time: the error is logged
  and the handler or the item is over, in the code and in the model.
* `Pairing`: weak fairness of each statement and strong fairness of taking the
  mutex, which Go's sync.Mutex gives to who has waited for a millisecond. A
  request may fail at each statement and rolls back.
* `Gateway`, `Activity`: weak fairness of time (entries expire), of the loop,
  of the broker's call of OnClose and of each report once begun. Clients need
  do nothing.
* `BotEvents`: weak fairness of each event's goroutine, and of nothing else:
  the time of an event is up some day. No handler has to finish.
* `Feeds`: weak fairness of each goroutine of a feed, of the ticker of
  conditions and of each round. Failures are bounded.

## Proofs

`LineStatusProofs` proves, for every set of sources, texts and instants that
satisfies `LineStatusAssumption` and `SourcesAssumption`:

* `TypeCorrect`, `OneOngoing`, `IntervalsDisjoint`, `OfficialWithin`,
  `LastAgrees`: `Spec => []P` for the invariants of the run and for
  `LastStatusAgrees`, with any number of evaluations;
* `ImplementsTimeline`: `Spec => Timeline`, every step of `LineStatus` is a
  step of the abstract timeline or leaves it unchanged.

`AtMostOneOngoing` and `OfficialWithinUnofficial` are not inductive: whether
an all-clear leaves something open depends on what the duplicate rule drops,
which compares with the latest status only. `IInv` adds that the latest status
agrees with the line's phase (`LastStatusAgrees`), that intervals are disjoint,
that the operator's last report is what the phase says
(`OfficialFollowsOperator`), and that what an evaluation compared its first
status with is still so, unless it is overtaken (`FirstsAreCurrent`).
`FourOutcomes` splits `AddStatus` into dropped, ignored, amended and opened, for
a status that is later than all others and for a first status in the past.

In the same module, about what comes after:

* `HistoryIsFinal`: what AddStatus removes is ongoing, since at most one
  disturbance is and the choice of the last is that one;
* `DowntimeIsAttributed`: `AInv` adds to the property that a disturbance has
  statuses of the line only; a new status is in none of them (`NewTo`);
* of `LineStatistics`: `DowntimeForAnyRows`, for any disturbances that follow one
  another, any schedules that do not open before they have closed
  (`OpensInTurn`) and any period, and `DowntimeOfAnyHistory`, for the rows that
  `LineStatus` reaches as long as no first status is overtaken: each hour in
  which the line was down while open is counted once. The days on each side of
  the window that the code looks at are shown to be enough;
* `LastDisturbancesOfAnyLines` and `LastDisturbanceOfAnyHistory`: the home page,
  the API and the bot agree on the last disturbance.

`StatusTransactionsProofs`, for any number of threads and any statements that
fail:

* `TransactionsTypeCorrect` and `NotificationsCommitted`, with threads of any
  sources and administrators. The choices of the last ongoing disturbance and
  of the earliest status to upsert exist because times are natural numbers
  and no start is later than the clock (`InHand`);
* `OneSourceOneOngoing` and `OneSourceIsCurrent`, with the assumption
  `OneSource`: all threads have one source and nobody edits notes. `SerialInv`
  says why: from `Status.Update` on, a thread has the lock of the source's row
  and is alone (`Exclusive`), so what it has in memory is what the rules say of
  the rows as they are (`CopyIsCurrent`). The check for duplicates comes before
  that lock: two equal statuses that overlap are both recorded, which no serial
  order would do, and is no part of the property. Without `OneSource`, TLC refutes the
  first (`two_ongoing`).

`UserReportsProofs`, for any lines, voters, goroutines and connections:

* `Typing`: the frames of nested evaluations keep their types;
* `VotesCleared` (`NoVotesWhileOfficial`): `Attended` says that a vote cast
  since the operator's report has an evaluation, perhaps suspended by those
  nested in it, that has its line still before it (`Ahead`) or has the vote
  among those it is clearing (`WillDelete`);
* `RecursionIsBounded`: nested evaluations, evictions to report and votes
  together are no more than the votes cast. Sets of frames are compared by
  their cardinalities, step by step (`CInv`).

`PairingProofs`, for any players, phones and codes that are drawn once each:

* `BonusGivenOnce`: the upsert of the player's row precedes the look for the
  XP, so that from then to the commit no two requests are about one player
  (`PlayersApart`), and the XP that a commit brings has not been given meanwhile
  (`BonusDue`);
* `PhonesMove` (`PhonesCanMove`), with the assumption `OneRequestAtATime`: no
  phone has two requests under way. A request has then found and deleted all
  pairs of its phone with other accounts (`FoundElsewhere`, `DeletedElsewhere`).
  Two requests of one phone may conflict.

`PosPlayProofs`, for any players, trips, events, achievements, handlers and
capacity:

* `Typing`, without hypothesis: types, and that what waits in a channel, a
  handler or the processor is about rows that are in the database;
* `AchievementsRewardedOnce` (`AchievedOnce`, the part of `RewardedOnce` about
  achievements), without hypothesis, however calls overlap: `AInv` says that the
  rows the processor is to write are of achievements without a row
  (`WorkRows`, `AchievedRows`), and that a row which a handler of the bot
  rewrites is of messages (`OfTheBot`);
* `NothingRewardedTwice` (`RewardedOnce`), `WeeksStayApart` (`WeeksApart`) and
  `AllSeen` (`SeenAll`), under `[]CallsApart`: no two handlers are about to
  write the same trip, or XP of one player for one cause. A phone waits for the
  answer before it repeats a call, an event is won with one message, and the
  messages of a user that count are minutes apart; but nothing in the code
  forbids it, and without it the properties fail (see below). It holds in the
  run, which has one handler of the API and one of the bot.

  `RInv` follows each trip and each edit: one item for it is with a handler, in
  a channel, with the processor, or rewarded (`ItemsApart`); the rows that the
  processor holds are of causes that the ledger does not have (`WorkRows`).
  `SInv` is an account by row: its XP is what was seen, what handlers are about
  to send, what is in the channel and what the processor has yet to send.
  The sums are stated by the sequences of partial sums that witness them
  (`IsTotal`, `IsSum`), which a step lengthens by one.

`BotEventsProofs`, for any users, events, attempts and administrators whose
events have keys that are not those of private messages (both are Discord's
IDs of messages, or of a trigger):

* `Typing`: what is stored by the key of a private message is data of the quiz
  whose message it is, and what is stored by an event's key is that event;
* `AnswersRewarded` (`ChoiceRewards`): `RewardsDue` says, for each moment
  between the end of the time and the last reward, which users' answers are
  still to be visited (`Visits`) and what was recorded of them (`Kept`), so
  that an answer deleted by the visit is rewarded by the same goroutine only.

`UserReportsProofs`, of `Gateway`: `OneStation` (`InOneStation`), for any users, stations and
reports over MQTT or HTTP that overlap. A report sets the user's lines and then
deletes him from the others (`SetsFirst`). Once no report of his has anything
left to set, one of them was the last to set: the lines that he is in are of its
station, or it will delete him from them (`LastSetter`).

`ScraperProofs`: `ScraperTypeCorrect` and `RunningLoops`. `EndedByLater` says
that a loop ends only by a channel at least as new as itself; the loop of the
last Begin can therefore end only by the channel that End closes. And of
`Announcements`, for any number of posts, however many the feed has, and any
fetches that fail or lack some of the posts: `PostsNotifiedOnce` (`NotifiedOnce`). `AnnInv` says that
until the second Begin one goroutine updates, that a response has the last post
or later ones than the stored response unless it lacks posts (`LastStays`), and
that a post can be notified once more only after a response that lacked some
(`GoesBack`), or if all posts compared last are before it (`OncePerResponse`). It is proved of
`FeedsSpec`, the specification that `feeds` checks with fairness: its steps
are steps of `AnnNext` or leave the variables of `Announcements` unchanged.

`RecordsProofs` is about functions of data, for any data, and then about the
questions of `records`, which are some of them:

* `KeysForAnyRequests`, `WaitsAlwaysGrow` (`WaitsGrow`): any requests of phones,
  none later than the one that asks;
* `VisitsForAnyTrips`, `ScopesForAnyTrip`, `VisitsAlwaysRemembered`
  (`VisitsRemembered`): any finite set of stations, any number of trips over any
  stations, each on a map of its own; and one trip on any map in which the
  line's stations are in the line's network. `Expected` is the outcome of the
  k-th trip, in terms of where the trips so far went; each outcome is the one
  expected (`OutcomesExpected`).
* `ClosedStationsForAnyMap`, `ClosedStationsAlwaysPassed`
  (`ClosedStationsPassed`): any map with one row for each pair of stations, no
  two closed stations connected and no second way round one (`WellMapped`);
* `RanksOfAnyLedger`, `SettingsOfAnyForm`, `TypesOfAnyStatuses`,
  `HoursOfAnyLobby` and `PagesAlwaysAgree` (`PagesAgree`): any finite ledger of
  transactions until now, any form, any statuses with causes, any hours by day
  and any single days;
* `DowntimeAlwaysCountedOnce` (`DowntimeCountedOnce`), from the theorem of
  `LineStatusProofs`.

The library's induction theorems take an operator, which the provers cannot
instantiate. `SubsetInduction` and `NumberInduction` (in `LineStatusProofs`, which
`RecordsProofs` extends) are about sets of sets and
sets of numbers instead, and follow from the well-founded order of the subsets
of a finite set (`WFMin`). A fold of the library is a function that CHOOSE
finds: `FoldExists` says that there is one, for any operation and any way to
pick the next element, and `FoldUnique` that there is but one; `Totals` and
`FoldRuns` draw the consequences for sums and for folds over sequences.

Left to TLC: every liveness property, which is out of the prover's reach with
its fairness assumptions, as is ENABLED; of `records`, the times learned from
trips (`LearnedTimesReadBack`), trains (`TrainsForetold`) and the rows of trips
(`TripReadsBack`), where a proof would follow each formula through the rounded
arithmetic of its data; and the loop over lines of `LineConditions`, of which
the run asks liveness only. No module declares a RECURSIVE operator.

The type invariants of `ReportHandler`, `PosPlay`, `Scraper`, `Pairing`,
`BotEvents` and `StatusTransactions` are stated in their modules and are in no
run: they are proved.

## What the runs say about the code

* Calls of two sources can leave two disturbances ongoing; the "only one"
  comment (`compute/reports.go:204`) holds for calls one at a time
  and for overlapping calls of one source (both proved), because `Status.Update` upserts the
  source's row between the duplicate check and the read.

Seen while reading and modelling, with no run:

Statuses and reports
* The comment at `types/line.go:672` has the two intervals of `AddStatus` the
  wrong way round.
* Votes from before an official disturbance can reopen one after it, if no
  evaluation runs meanwhile (`compute/reports.go:208` says this is avoided).
* `getEarliestVoteForLine` (`compute/reports.go:104`) ignores its line, and
  nothing restores votes after a restart.
* When another call records a status between the report handler's look at the
  line and its first status, dated in the past, that status can begin a
  disturbance within one that has ended since, so that hours are counted twice
  (`compute/reports.go:237`, `:260`); until the last status of the evaluation
  comes, an all-clear that repeats the latest status is dropped as a duplicate.
* Two equal statuses of one source that overlap are both recorded: the check for
  duplicates precedes the lock (`types/line.go:646`, `types/source.go:84`).
* Availability is 0/0 when a line was closed during all of the window;
  the website's last disturbance reads the unofficial end even for the
  official view.

Scrapers
* A command to start a running scraper ends it (`scrapers.go:275`).
* A first fetch that fails makes the last post look new (`rss.go:118`); so does
  the response after an empty one, or after one of Facebook's in which posts
  lack what the scraper reads and are skipped (`facebook.go:124`); of several new posts only the last is notified;
  two goroutines after End and Begin notify a post more than once.
* A line whose conditions fail keeps those after it in the list from being
  fetched (`conditions.go`).

Trains and times
* `TrainPositions` goes through a map, and corrects the direction of a train that
  is expected at both platforms of the terminus only if it comes upon the
  platform of arrival last; the correction is written to the cached arrival
  (`compute/vehicleeta.go:105`). `less` is no order when the other platform
  expects the train sooner.
* With two adjacent closed stations, the joined connection leads to a closed
  one. `NextTrainETA` counts nothing for a connection into a closed station.
  Trains closer than one section hide each other.
* `AverageSpeed` leaves out the distance that follows an interchange but
  counts its time; `AverageSpeedCached` never computes again after one error
  (`compute/avgspeed.go:98`).
* In `UpdateTypicalSeconds` a missing transfer abandons the rest of the trip.
* Two overlapping reports with different stays leave a user in a line for
  longer than in the network, or in no line at all.

PosPlay
* Levels sum the XP up to the transaction they are told of. A trip's reward is
  dated when the trip was submitted, so that the transaction that crosses the
  level may not be seen (`posplay/achievementstrategies.go:79`).
* Whether an event was won before is read before the reward is written, and
  nothing serialises two reactions (`posplay/posplay.go:217`). Two first
  logins at once give the bonus for joining twice.
* `CountXPTransactionsWithType` filters by a column that `pp_player` does not
  have (`types/pp_player.go:133`): the statement fails, so that no achievement
  for events is granted; the page rounds to 100% what lacks less than a half
  per cent (`posplay/web-achievements.go:78`); granting an achievement erases
  the stations in its row (`posplay/achievements.go:43`); an achievement for correcting a trip is dated by its submission.
* Closed stations on the way are stored as visited; an achievement for one trip
  that asks for a closed station cannot be had; "ascending" accepts the other
  direction; a transaction at the seam of two weeks counts in both.
* `PosPlayLevelToXP` truncates: its XP can show the level before.

Pairing and trips
* Codes are filed as drawn and deleted as shown (`posplay/auth.go:304`, `:271`),
  so that none ever leaves the map: a code that expired still pairs, until it
  is used. The phone is told "connected" before the commit.
* A refused activation calls `Error` on a nil error (`resource/pair.go`); a
  nonce that is older than the skew passes the check and fails as a key.
* An edit deletes no station use, so that a trip reads as the union of what was
  sent; the end of the trip is that from before its times are repaired; only
  corrections check for times in the future and for the length; trips that
  span all of a window are missed by `GetTripIDsBetween`.
* `SchedulesToLines` starts at Tuesday: Monday is not shown when weekdays
  differ (`utils/utils.go:211`).

Discord and MQTT
* A third StopEvent waits for ever (the channel holds one); an answer between
  the rewards and the clean-up of a quiz is acknowledged and not rewarded; two
  reactions at once send the choices twice and the first copy's entry stays; a
  private message of one word that is a trigger indexes past its end.
* A client that connects again while the loop goes through its list may be
  closed at once; one that has gone is looked up, found nil and closed, which ends
  the program (`mqttgateway/gateway.go:183`). Topics
  "dev-json" are accepted and never published.

## What is abstracted

* Times are ranks; a status has a time of its own. UUIDs, translations, notes
  and layout are left out; message texts are kept where the duplicate rule
  reads them, and as sets of phrases in `StatusMessages`.
* In `LineStatus`, whether and when the votes suffice is any choice; in
  `ReportHandler`, the history is the phase of each line and the threshold is
  any of a set, at least two (with one, `threshold / 2` is zero and no
  community disturbance would end).
* `ReportHandler` has no failing statements and no restart: votes are in memory
  and the code has no recovery.
* In `LineStatus`, each call of `handleNewStatus` is one step that succeeds, and
  the scraper and the bot stamp a status in the step that adds it; overlaps and
  failures are in `StatusTransactions`.
* The program that ends because of a client that has gone is started again,
  which is not this code's doing; `Gateway` has no other restart.
* In `Announcements`, the items of an RSS feed all have dates.
* The command that stops a scraper runs in one step (two at the same time would
  close a channel twice); `Converges` speaks of executions in which no two
  loops overlap: two that do can leave an older status as the last reported.
* The consumer of notifications comes back from each send.
* `PosPlay` has the strategies for submissions and levels, `AchievementRules`
  the others but that for events, whose count fails: they give the same rewards through the same statements. A trip is
  worth a fixed XP in `PosPlay`.
* Rows are read as committed: sqalx's caches of rows, and its nested
  transactions that commit with the outer one, are left out.
* In `BotEvents`, sends to Discord may fail where the code looks at the error, and
  a reward may fail, adding nothing: the user is then told so.
  Its events have keys of their own: a script that starts a quiz with the
  trigger of one that is on is left out.
* `NetworkMap`, `TypicalTimes` and `Arrivals` count seconds as the code does,
  with its integer divisions; the questions close no two adjacent stations.
* Days have no daylight saving.

## Not modelled

Achievements for taking part in events, and the pages of achievements but for
the progress of visits. The REST API's other resources, and the pages and layout of the website: reads
of the database rendered. The bot's information commands and its muting of
channels; OAuth; the map of simulated trains; scripting (an interpreter that
can call anything), telemetry, start-up, generated reflection tables. Deletion
of rows by hand, signatures and parsing.

## Plan

1. Done, with proofs: `DisturbanceRules`, `LineStatus`, `LineTimeline`,
   `StatusTransactions`, `Scraper`.
2. Done, model-checked: `ReportHandler`, `PosPlay` and the modules of pairing,
   trips, events, gateway, announcements, conditions, trains, map, statistics.
3. Done, proved: the safety invariants and action properties of all runs but
   three of `records`.
4. Proofs to come: `LearnedTimesReadBack`, `TripReadsBack` and `TrainsForetold`.
5. Later: muting and restarts of the gateway; two goroutines of Discord in
   `PosPlay`, with what then holds.

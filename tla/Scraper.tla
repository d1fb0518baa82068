------------------------------ MODULE Scraper ------------------------------
(***************************************************************************)
(* The scraper of the operator's line statuses and the command that starts *)
(* and stops it: scraper/mlxscraper/mlxscraper.go and scrapers.go          *)
(* handleControlScraper. (The scrapers of arrivals, of line conditions and *)
(* of feeds have the same Begin, End and loop.)                            *)
(*                                                                         *)
(* Each Begin makes a channel and a ticker, numbered together, and starts  *)
(* a goroutine that loops: update, then wait for one of them. The loop     *)
(* reads the scraper's fields again every time, so one that was updating   *)
(* while an End and a Begin went by lives on with the new channel.         *)
(* A command runs in one step here.                                        *)
(***************************************************************************)
EXTENDS Naturals, FiniteSets, FiniteSetsExt, Sequences

CONSTANTS LineNames,    \* in the order in which update looks for them
          Messages,     \* what the operator says of a line
          Missing,      \* nothing
          Responses,    \* the responses that can be parsed: a message by line
          NoResponse,   \* previousResponse before there is one
          Garbled,      \* a response that update cannot parse
          MaxBegins,    \* bound on the times the scraper is started
          MaxChanges    \* bound on the responses of the operator's server

Names == {LineNames[i] : i \in DOMAIN LineNames}

ASSUME ScraperAssumption ==
    /\ LineNames \in Seq(Names)
    /\ Missing \notin Messages
    /\ Responses \subseteq [Names -> Messages \cup {Missing}]
    /\ {MaxBegins, MaxChanges} \subseteq Nat

VARIABLES running,
          begins,     \* the last channel and ticker made
          closed,     \* the channels closed
          ticked,     \* the tickers with a tick in their channel
          loops,      \* the goroutines, by the Begin that started each
          previous,   \* previousResponse
          reported,   \* the last message handed to StatusCallback, by line
          server,     \* what the operator's server responds
          served      \* how often that changed

vars == <<running, begins, closed, ticked, loops, previous, reported, server, served>>

\* What a loop does: its next step, the response it has in hand, the line it is
\* at, and the channel and ticker it waits for.
Loop == [does : {"fetch", "compare", "report", "wait", "done"},
         response : Responses \cup {NoResponse, Garbled},
         at : 1..(Len(LineNames) + 1),
         chan : 0..MaxBegins]

\* Init has fetched once, before the first Begin.
Init ==
    /\ running = FALSE
    /\ begins = 0
    /\ closed = {}
    /\ ticked = {}
    /\ loops = <<>>
    /\ server \in Responses
    /\ served = 0
    /\ \/ /\ previous = NoResponse
          /\ reported = [n \in Names |-> Missing]
       \/ /\ previous = server
          /\ reported = server

-----------------------------------------------------------------------------
(***************************************************************************)
(* Begin, End, and the command.                                            *)
(***************************************************************************)
SameChannel == IF begins = 0 THEN 1 ELSE begins                      \* (mutant)

NewChannel == begins + 1

Begin ==
    /\ begins < MaxBegins /\ Len(loops) < MaxBegins
    /\ begins' = NewChannel
    /\ running' = TRUE
    /\ loops' = Append(loops, [does |-> "fetch", response |-> NoResponse,
                               at |-> 1, chan |-> 0])
    /\ UNCHANGED <<closed, ticked>>

StopTickerOnly == closed                                             \* (mutant)

WithClosed == closed \cup {begins}

End ==
    /\ running' = FALSE
    /\ closed' = WithClosed
    /\ UNCHANGED <<begins, ticked, loops>>

\* handleControlScraper: a running scraper is stopped whatever the command is.
Control(enable) ==
    /\ IF enable /\ ~running THEN Begin
       ELSE IF running THEN End
       ELSE UNCHANGED <<running, begins, closed, ticked, loops>>
    /\ UNCHANGED <<previous, reported, server, served>>

\* SetUpScrapers starts it.
Start == begins = 0 /\ Begin /\ UNCHANGED <<previous, reported, server, served>>

-----------------------------------------------------------------------------
(***************************************************************************)
(* A loop.                                                                 *)
(***************************************************************************)
Set(l, loop) == loops' = [loops EXCEPT ![l] = loop]

\* The select reads the fields stopChan and ticker as they are now.
Wait(l) == Set(l, [does |-> "wait", response |-> NoResponse, at |-> 1, chan |-> begins])

Unchanged == UNCHANGED <<running, begins, closed, server, served>>

Fetched(l) ==
    /\ loops[l].does = "fetch"
    /\ \E response \in {server, Garbled} :
           Set(l, [loops[l] EXCEPT !.does = "compare", !.response = response])
    /\ UNCHANGED <<ticked, previous, reported>>
    /\ Unchanged

\* No response, or one whose status is not 200 or that is too large.
FetchFailed(l) ==
    /\ loops[l].does = "fetch"
    /\ Wait(l)
    /\ UNCHANGED <<ticked, previous, reported>>
    /\ Unchanged

Compare(l) ==
    /\ loops[l].does = "compare"
    /\ IF loops[l].response \in {previous, Garbled}
       THEN Wait(l)
       ELSE Set(l, [loops[l] EXCEPT !.does = "report"])
    /\ UNCHANGED <<ticked, previous, reported>>
    /\ Unchanged

StopAtMissing(loop) ==                                               \* (mutant)
    IF loop.response[LineNames[loop.at]] = Missing THEN Len(LineNames) + 1 ELSE loop.at + 1

NextName(loop) == loop.at + 1

\* One line of the response: missing, or handed to StatusCallback.
ReportLine(l) ==
    LET loop == loops[l]
    IN  /\ loop.does = "report"
        /\ loop.at <= Len(LineNames)
        /\ LET name == LineNames[loop.at]
           IN  reported' = IF loop.response[name] = Missing THEN reported
                           ELSE [reported EXCEPT ![name] = loop.response[name]]
        /\ Set(l, [loop EXCEPT !.at = NextName(loop)])
        /\ UNCHANGED <<ticked, previous>>
        /\ Unchanged

Remember(l) ==
    /\ loops[l].does = "report"
    /\ loops[l].at > Len(LineNames)
    /\ previous' = loops[l].response
    /\ Wait(l)
    /\ UNCHANGED <<ticked, reported>>
    /\ Unchanged

Ticked(l) ==
    /\ loops[l].does = "wait"
    /\ loops[l].chan \in ticked
    /\ ticked' = ticked \ {loops[l].chan}
    /\ Set(l, [loops[l] EXCEPT !.does = "fetch"])
    /\ UNCHANGED <<previous, reported>>
    /\ Unchanged

Stopped(l) ==
    /\ loops[l].does = "wait"
    /\ loops[l].chan \in closed
    /\ Set(l, [loops[l] EXCEPT !.does = "done"])
    /\ UNCHANGED <<ticked, previous, reported>>
    /\ Unchanged

Update(l) ==
    \/ Fetched(l)
    \/ Compare(l)
    \/ ReportLine(l)
    \/ Remember(l)

\* The ticker of the last Begin, until End stops it.
Tick ==
    /\ running
    /\ ticked' = ticked \cup {begins}
    /\ UNCHANGED <<loops, previous, reported>>
    /\ Unchanged

ServerChanges(response) ==
    /\ served < MaxChanges
    /\ server' = response
    /\ served' = served + 1
    /\ UNCHANGED <<running, begins, closed, ticked, loops, previous, reported>>

Next ==
    \/ Start
    \/ \E enable \in BOOLEAN : begins > 0 /\ Control(enable)
    \/ \E l \in DOMAIN loops :
           Update(l) \/ FetchFailed(l) \/ Ticked(l) \/ Stopped(l)
    \/ Tick
    \/ \E response \in Responses : ServerChanges(response)

Spec == Init /\ [][Next]_vars

\* The goroutines run, the ticker ticks, and a server that is asked for ever
\* answers at last with a response that can be parsed.
Fairness ==
    /\ \A l \in 1..MaxBegins :
           /\ WF_vars(l \in DOMAIN loops /\ (Update(l) \/ FetchFailed(l)))
           /\ SF_vars(l \in DOMAIN loops /\ Fetched(l) /\ loops'[l].response = server)
           /\ WF_vars(l \in DOMAIN loops /\ (Ticked(l) \/ Stopped(l)))
    /\ WF_vars(Tick)

FairSpec == Spec /\ Fairness

-----------------------------------------------------------------------------
Live == {l \in DOMAIN loops : loops[l].does # "done"}

\* The fields and the loops have their types; a scraper that runs has a channel,
\* and a loop waits only for a channel that some Begin has made.
TypeOK ==
    /\ running \in BOOLEAN
    /\ begins \in 0..MaxBegins
    /\ closed \cup ticked \subseteq 1..MaxBegins
    /\ loops \in Seq(Loop)
    /\ previous \in Responses \cup {NoResponse}
    /\ reported \in [Names -> Messages \cup {Missing}] /\ server \in Responses
    /\ served \in 0..MaxChanges
    /\ running => begins > 0
    /\ \A l \in Live : loops[l].chan <= begins

\* A scraper that says it is running has a goroutine that scrapes, whatever
\* commands and updates overlapped: nothing else would notice that the line
\* statuses stopped coming.
RunningHasLoop == running => Live # {}

\* A scraper that was stopped falls silent: every goroutine ends, also those
\* that were updating when the command came, unless it is started again.
EndStopsAll == [](~running => <>(running \/ Live = {}))

\* What the line statuses say converges to what the operator's server says: if
\* the scraper keeps running and no two of its goroutines ever overlap, then a
\* response that stays is reported at last, for every line it speaks of, after
\* failed fetches, garbled responses, and stops in the middle of an update.
Shows(response) == \A n \in Names : response[n] \in {Missing, reported[n]}

Converges ==
    [](Cardinality(Live) <= 1) /\ <>[]running => <>[]Shows(server)
=============================================================================

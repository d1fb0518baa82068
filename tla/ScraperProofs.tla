---------------------------- MODULE ScraperProofs ----------------------------
(***************************************************************************)
(* The scrapers. Of line statuses, for any lines and responses, and any    *)
(* number of commands: a scraper that says it is running has a goroutine   *)
(* that scrapes. Of announcements, for any posts and fetches that fail: no *)
(* post is notified twice, but for responses with no posts and a second    *)
(* Begin. The two share no state.                                          *)
(***************************************************************************)
EXTENDS Scraper, Feeds, WellFoundedInduction, TLAPS

(***************************************************************************)
(* Loops are started one by one, with the channels, and each ends only by  *)
(* a closed channel that is no older than itself: the loop of the last     *)
(* Begin outlives all but the last channel's closing.                      *)
(***************************************************************************)
EndedByLater ==
    /\ Len(loops) = begins
    /\ closed \subseteq 1..begins
    /\ running => begins \notin closed
    /\ \A l \in DOMAIN loops :
           /\ loops[l].does = "wait" => loops[l].chan >= l
           /\ loops[l].does = "done" => \E c \in closed : c >= l

\* What a loop has in hand when it compares and when it reports.
HasResponse ==
    \A l \in DOMAIN loops :
        /\ loops[l].does = "compare" => loops[l].response \in Responses \cup {Garbled}
        /\ loops[l].does = "report" => loops[l].response \in Responses

IInv == TypeOK /\ EndedByLater /\ HasResponse

LEMMA IInvInit == Init => IInv
<1>. SUFFICES ASSUME Init
              PROVE  IInv
  OBVIOUS
<1>1. loops = <<>> /\ DOMAIN loops = {} /\ Len(loops) = 0 /\ loops \in Seq(Loop)
  BY DEF Init
<1>2. reported \in [Names -> Messages \cup {Missing}]
  BY ScraperAssumption DEF Init
<1>3. /\ begins = 0 /\ begins \in 0..MaxBegins /\ served \in 0..MaxChanges
      /\ previous \in Responses \cup {NoResponse} /\ server \in Responses
      /\ running = FALSE /\ closed = {} /\ ticked = {}
  BY ScraperAssumption DEF Init
<1>4. TypeOK
  BY <1>1, <1>2, <1>3 DEF TypeOK, Live
<1>5. EndedByLater /\ HasResponse
  BY <1>1, <1>3 DEF EndedByLater, HasResponse
<1>. QED
  BY <1>4, <1>5 DEF IInv

\* A step of one loop, which changes no field of the scraper.
LEMMA IInvLoop ==
    ASSUME IInv, NEW l \in DOMAIN loops, NEW loop \in Loop, Set(l, loop), Unchanged,
           ticked' \subseteq ticked,
           previous' \in Responses \cup {NoResponse},
           reported' \in [Names -> Messages \cup {Missing}],
           loop.chan <= begins,
           loop.does = "wait" => loop.chan >= l,
           loop.does = "done" => \E c \in closed : c >= l,
           loop.does = "compare" => loop.response \in Responses \cup {Garbled},
           loop.does = "report" => loop.response \in Responses
    PROVE  IInv'
<1>1. loops \in Seq(Loop) /\ DOMAIN loops = 1..Len(loops)
  BY DEF IInv, TypeOK
<1>2. /\ loops' \in Seq(Loop) /\ Len(loops') = Len(loops) /\ DOMAIN loops' = DOMAIN loops
      /\ \A m \in DOMAIN loops : loops'[m] = IF m = l THEN loop ELSE loops[m]
  BY <1>1 DEF Set
<1>3. TypeOK'
  BY <1>1, <1>2 DEF IInv, TypeOK, Live, Unchanged
<1>4. EndedByLater'
  BY <1>1, <1>2 DEF IInv, EndedByLater, Unchanged
<1>5. HasResponse'
  BY <1>1, <1>2 DEF IInv, HasResponse
<1>. QED
  BY <1>3, <1>4, <1>5 DEF IInv

LEMMA IInvBegin ==
    ASSUME IInv, Begin, UNCHANGED <<previous, reported, server, served>>
    PROVE  IInv'
<1>. DEFINE new == [does |-> "fetch", response |-> NoResponse, at |-> 1, chan |-> 0]
<1>1. /\ loops \in Seq(Loop) /\ DOMAIN loops = 1..Len(loops) /\ Len(loops) \in Nat
      /\ begins \in Nat /\ MaxBegins \in Nat /\ Len(LineNames) \in Nat
  BY ScraperAssumption DEF IInv, TypeOK
<1>2. new \in Loop /\ new.does = "fetch" /\ new.chan = 0
  BY <1>1 DEF Loop
<1>3. loops' = Append(loops, new) /\ begins' = begins + 1 /\ running' = TRUE
  BY DEF Begin, NewChannel
<1>. HIDE DEF new
<1>4. /\ loops' \in Seq(Loop) /\ Len(loops') = Len(loops) + 1
      /\ DOMAIN loops' = 1..(Len(loops) + 1)
      /\ \A l \in DOMAIN loops' : loops'[l] = IF l = Len(loops) + 1 THEN new ELSE loops[l]
  BY <1>1, <1>2, <1>3
<1>5. /\ UNCHANGED <<closed, ticked, previous, reported, server, served>>
      /\ begins < MaxBegins
  BY DEF Begin
<1>6. TypeOK'
  <2>1. \A l \in Live' : loops'[l].chan <= begins'
    <3>. TAKE l \in Live'
    <3>1. CASE l = Len(loops) + 1
      BY <1>1, <1>2, <1>3, <1>4, <3>1 DEF Live
    <3>2. CASE l # Len(loops) + 1
      <4>1. l \in Live /\ loops'[l] = loops[l] /\ loops[l] \in Loop
        BY <1>1, <1>4, <3>2 DEF Live
      <4>2. loops[l].chan <= begins /\ loops[l].chan \in Int
        BY <1>1, <4>1 DEF IInv, TypeOK, Loop
      <4>. QED
        BY <1>1, <1>3, <4>1, <4>2
    <3>. QED
      BY <3>1, <3>2
  <2>2. begins' \in 0..MaxBegins /\ begins' > 0
    BY <1>1, <1>3, <1>5
  <2>. QED
    BY <1>3, <1>4, <1>5, <2>1, <2>2 DEF IInv, TypeOK
<1>7. EndedByLater'
  BY <1>1, <1>2, <1>3, <1>4, <1>5 DEF IInv, EndedByLater
<1>8. HasResponse'
  BY <1>1, <1>2, <1>4 DEF IInv, HasResponse
<1>. QED
  BY <1>6, <1>7, <1>8 DEF IInv

LEMMA IInvStep ==
    ASSUME IInv, [Next]_vars
    PROVE  IInv'
<1>. DEFINE lineCount == Len(LineNames)
<1>0. /\ loops \in Seq(Loop) /\ begins \in 0..MaxBegins /\ MaxBegins \in Nat
      /\ \A l \in DOMAIN loops : loops[l] \in Loop /\ l \in Nat /\ l <= begins
      /\ lineCount \in Nat
      /\ \A l \in DOMAIN loops :
             loops[l].does # "done" => loops[l].chan <= begins
  BY ScraperAssumption DEF IInv, TypeOK, EndedByLater, Live
<1>1. ASSUME Begin, UNCHANGED <<previous, reported, server, served>>
      PROVE  IInv'
  BY <1>1, IInvBegin
<1>2. ASSUME End, running, UNCHANGED <<previous, reported, server, served>>
      PROVE  IInv'
  <2>1. /\ closed' = closed \cup {begins} /\ running' = FALSE
        /\ UNCHANGED <<begins, ticked, loops, previous, reported, server, served>>
    BY <1>2 DEF End, WithClosed
  <2>2. begins \in 1..MaxBegins /\ begins \in 1..begins
    BY <1>0, <1>2 DEF IInv, TypeOK
  <2>3. TypeOK'
    BY <2>1, <2>2 DEF IInv, TypeOK, Live
  <2>4. EndedByLater'
    BY <2>1, <2>2 DEF IInv, EndedByLater
  <2>5. HasResponse'
    BY <2>1 DEF IInv, HasResponse
  <2>. QED
    BY <2>3, <2>4, <2>5 DEF IInv
<1>3. ASSUME UNCHANGED <<running, begins, closed, loops, previous, reported>>,
             ticked' \subseteq 1..MaxBegins, server' \in Responses, served' \in 0..MaxChanges
      PROVE  IInv'
  BY <1>3 DEF IInv, TypeOK, Live, EndedByLater, HasResponse
<1>4. ASSUME NEW enable \in BOOLEAN, Control(enable)
      PROVE  IInv'
  BY <1>1, <1>2, <1>3, <1>4 DEF Control, IInv, TypeOK
<1>5. ASSUME NEW l \in DOMAIN loops, Wait(l), Unchanged, UNCHANGED <<ticked, reported>>,
             previous' \in Responses \cup {NoResponse}
      PROVE  IInv'
  <2>. DEFINE loop == [does |-> "wait", response |-> NoResponse, at |-> 1, chan |-> begins]
  <2>1. /\ loop \in Loop /\ Set(l, loop)
        /\ loop.does = "wait" /\ loop.chan = begins
    BY <1>0, <1>5 DEF Wait, Loop
  <2>2. reported' \in [Names -> Messages \cup {Missing}]
    BY <1>5 DEF IInv, TypeOK
  <2>. HIDE DEF loop
  <2>. QED
    BY <1>0, <1>5, <2>1, <2>2, IInvLoop
<1>6. ASSUME NEW l \in DOMAIN loops, NEW does \in {"compare", "report", "fetch", "done"},
             NEW response \in Responses \cup {NoResponse, Garbled},
             Set(l, [loops[l] EXCEPT !.does = does, !.response = response]),
             loops[l].does # "done", Unchanged, ticked' \subseteq ticked,
             UNCHANGED <<previous, reported>>,
             does = "done" => loops[l].does = "wait" /\ loops[l].chan \in closed,
             does = "compare" => response \in Responses \cup {Garbled},
             does = "report" => response \in Responses
      PROVE  IInv'
  <2>. DEFINE loop == [loops[l] EXCEPT !.does = does, !.response = response]
  <2>1. /\ loop \in Loop /\ loop.does = does /\ loop.response = response
        /\ loop.chan = loops[l].chan
    BY <1>0, <1>6 DEF Loop
  <2>2. Set(l, loop)
    BY <1>6
  <2>3. /\ previous' \in Responses \cup {NoResponse}
        /\ reported' \in [Names -> Messages \cup {Missing}]
    BY <1>6 DEF IInv, TypeOK
  <2>. HIDE DEF loop
  <2>4. loop.chan <= begins
    BY <1>0, <1>6, <2>1
  <2>5. loop.does = "done" => \E c \in closed : c >= l
    BY <1>6, <2>1 DEF IInv, EndedByLater
  <2>. QED
    BY <1>6, <2>1, <2>2, <2>3, <2>4, <2>5, IInvLoop
<1>7. ASSUME NEW l \in DOMAIN loops, NEW does, NEW loop,
             loop = [loops[l] EXCEPT !.does = does]
      PROVE  loop = [loops[l] EXCEPT !.does = does, !.response = loops[l].response]
  BY <1>0, <1>7 DEF Loop
<1>8. ASSUME NEW l \in DOMAIN loops, Fetched(l)
      PROVE  IInv'
  <2>1. PICK response \in {server, Garbled} :
            Set(l, [loops[l] EXCEPT !.does = "compare", !.response = response])
    BY <1>8 DEF Fetched
  <2>2. response \in Responses \cup {Garbled}
    BY DEF IInv, TypeOK
  <2>. QED
    BY <1>6, <1>8, <2>1, <2>2 DEF Fetched
<1>9. ASSUME NEW l \in DOMAIN loops, FetchFailed(l)
      PROVE  IInv'
  BY <1>5, <1>9 DEF FetchFailed, IInv, TypeOK
<1>10. ASSUME NEW l \in DOMAIN loops, Compare(l)
       PROVE  IInv'
  <2>1. CASE Wait(l)
    BY <1>5, <1>10, <2>1 DEF Compare, IInv, TypeOK
  <2>2. CASE /\ loops[l].response \notin {previous, Garbled}
             /\ Set(l, [loops[l] EXCEPT !.does = "report"])
    <3>1. loops[l].response \in Responses
      BY <1>10, <2>2 DEF Compare, IInv, HasResponse
    <3>2. Set(l, [loops[l] EXCEPT !.does = "report", !.response = loops[l].response])
      BY <1>7, <2>2 DEF Set
    <3>. QED
      BY <1>6, <1>10, <3>1, <3>2 DEF Compare
  <2>. QED
    BY <1>10, <2>1, <2>2 DEF Compare
<1>11. ASSUME NEW l \in DOMAIN loops, ReportLine(l)
       PROVE  IInv'
  <2>. DEFINE loop == [loops[l] EXCEPT !.at = loops[l].at + 1]
              name == LineNames[loops[l].at]
  <2>1. /\ loops[l].does = "report" /\ loops[l].at \in 1..lineCount
        /\ loops[l].response \in Responses
    BY <1>0, <1>11 DEF ReportLine, IInv, HasResponse, Loop
  <2>2. /\ loop \in Loop /\ loop.does = "report" /\ loop.response \in Responses
        /\ loop.chan = loops[l].chan
    <3>1. loops[l].at + 1 \in 1..(Len(LineNames) + 1) /\ loops[l] \in Loop
      BY <1>0, <2>1
    <3>. HIDE DEF lineCount
    <3>. QED
      BY <2>1, <3>1 DEF Loop
  <2>3. Set(l, loop)
    BY <1>11 DEF ReportLine, NextName
  <2>. HIDE DEF loop
  <2>4. name \in Names /\ loops[l].response[name] \in Messages \cup {Missing}
    <3>1. LineNames \in Seq(Names)
      BY ScraperAssumption
    <3>2. name \in Names
      BY <2>1, <3>1
    <3>3. loops[l].response \in [Names -> Messages \cup {Missing}]
      BY <2>1, ScraperAssumption
    <3>. QED
      BY <3>2, <3>3
  <2>5. reported' \in {reported, [reported EXCEPT ![name] = loops[l].response[name]]}
    BY <1>11 DEF ReportLine
  <2>6. reported' \in [Names -> Messages \cup {Missing}]
    BY <2>4, <2>5 DEF IInv, TypeOK
  <2>7. Unchanged /\ ticked' \subseteq ticked /\ previous' \in Responses \cup {NoResponse}
    BY <1>11 DEF ReportLine, IInv, TypeOK
  <2>. QED
    BY <1>0, <2>1, <2>2, <2>3, <2>6, <2>7, IInvLoop
<1>12. ASSUME NEW l \in DOMAIN loops, Remember(l)
       PROVE  IInv'
  <2>1. previous' \in Responses
    BY <1>12 DEF Remember, IInv, HasResponse
  <2>. QED
    BY <1>5, <1>12, <2>1 DEF Remember
<1>13. ASSUME NEW l \in DOMAIN loops, NEW does \in {"fetch", "done"},
              Set(l, [loops[l] EXCEPT !.does = does]), loops[l].does = "wait",
              does = "done" => loops[l].chan \in closed,
              Unchanged, ticked' \subseteq ticked, UNCHANGED <<previous, reported>>
       PROVE  IInv'
  <2>1. Set(l, [loops[l] EXCEPT !.does = does, !.response = loops[l].response])
    BY <1>7, <1>13 DEF Set
  <2>2. loops[l].response \in Responses \cup {NoResponse, Garbled}
    BY <1>0 DEF Loop
  <2>. QED
    BY <1>6, <1>13, <2>1, <2>2
<1>14. ASSUME NEW l \in DOMAIN loops, Ticked(l) \/ Stopped(l)
       PROVE  IInv'
  BY <1>13, <1>14 DEF Ticked, Stopped
<1>15. CASE Tick
  <2>1. begins \in 1..MaxBegins
    BY <1>0, <1>15 DEF Tick, IInv, TypeOK
  <2>. QED
    BY <1>3, <1>15, <2>1 DEF Tick, Unchanged, IInv, TypeOK
<1>16. ASSUME NEW response \in Responses, ServerChanges(response)
       PROVE  IInv'
  BY <1>3, <1>16, ScraperAssumption DEF ServerChanges, IInv, TypeOK
<1>17. CASE UNCHANGED vars
  BY <1>3, <1>17 DEF vars, IInv, TypeOK
<1>. QED
  BY <1>1, <1>4, <1>8, <1>9, <1>10, <1>11, <1>12, <1>14, <1>15, <1>16, <1>17
     DEF Next, Start, Update

LEMMA ScraperInvariance == Spec => []IInv
BY IInvInit, IInvStep, PTL DEF Spec

\* The fields and the loops have their types.
THEOREM ScraperTypeCorrect == Spec => []TypeOK
<1>1. IInv => TypeOK
  BY DEF IInv
<1>. QED
  BY <1>1, ScraperInvariance, PTL

\* Whatever commands and updates overlap, a scraper that says it is running
\* has a goroutine that scrapes: that of its last Begin.
THEOREM RunningLoops == Spec => []RunningHasLoop
<1>1. ASSUME IInv, running
      PROVE  begins \in Live
  <2>1. begins \in DOMAIN loops /\ begins \in Nat
    BY <1>1 DEF IInv, TypeOK, EndedByLater
  <2>2. closed \subseteq 1..begins /\ begins \notin closed
    BY <1>1 DEF IInv, EndedByLater
  <2>3. \A c \in closed : ~(c >= begins)
    BY <2>1, <2>2
  <2>4. loops[begins].does # "done"
    BY <1>1, <2>1, <2>3 DEF IInv, EndedByLater
  <2>. QED
    BY <2>1, <2>4 DEF Live
<1>2. IInv => RunningHasLoop
  BY <1>1 DEF RunningHasLoop
<1>. QED
  BY <1>2, ScraperInvariance, PTL
-----------------------------------------------------------------------------
(***************************************************************************)
(* Announcements: for any posts and any number of failures, a scraper that *)
(* is begun once notifies each post once, and at most once more for each   *)
(* response that lacked posts.                                             *)
(***************************************************************************)
AnnTyped ==
    /\ published \in Nat /\ published <= MaxPosts
    /\ glitches \in Nat /\ begun \in Updaters
    /\ updater \in [Updaters -> Updater]
    /\ notified \in [Posts -> Nat]

\* What comes from the feed, whole or not: if it has posts it has a last one.
FromFeed(posts, last) ==
    /\ posts \subseteq {p \in Posts : p <= last}
    /\ posts # {} => \E post \in posts : \A p \in posts : p <= post

\* Init returns before the first Begin: until the second there is one updater.
OneUpdater ==
    \A i \in Updaters :
        /\ i # begun => updater[i] = None
        /\ FromFeed(updater[i].response, published)

\* A response that lacks posts may end before what was stored.
GoesBack(response) == \E p \in announcements : \A q \in response : q < p

\* What the next response, or the one that came and does not go back, is
\* compared with.
Compared ==
    LET current == updater[begun]
    IN  IF current.at = "store" \/ (current.at = "compare" /\ GoesBack(current.response))
        THEN current.response
        ELSE announcements

Before(p) == \A q \in Compared : q < p

\* A post is notified once more only if the last posts compared are before it:
\* that, and each response that lacks posts, is what it can still be notified for.
OncePerResponse ==
    \A p \in Posts :
        /\ notified[p] <= 1 + glitches
        /\ Before(p) => notified[p] <= glitches

LastStays == FromFeed(announcements, published)

AnnInv ==
    /\ AnnTyped
    /\ begun <= 1 => OneUpdater /\ LastStays /\ OncePerResponse

\* Posts are published and none is taken back.
LEMMA FromFeedKept ==
    ASSUME AnnTyped, published' \in Nat, published <= published',
           NEW posts, FromFeed(posts, published)
    PROVE  FromFeed(posts, published')
BY DEF FromFeed, AnnTyped, Posts

\* A step of an updater.
LEMMA UpdaterSet ==
    ASSUME AnnTyped, NEW i \in Updaters, NEW at \in {"none", "fetch", "compare", "store", "wait"},
           NEW response \in SUBSET Posts
    PROVE  GoesTo(i, at, response) =>
               \E state \in Updater : /\ updater' = [updater EXCEPT ![i] = state]
                                      /\ state.at = at /\ state.response = response
<1>1. PICK channel \in Updaters : channel = updater[i].channel
  BY DEF AnnTyped, Updater
<1>2. PICK state : state = [at |-> at, response |-> response, channel |-> channel]
  OBVIOUS
<1>3. state \in Updater /\ state.at = at /\ state.response = response
  BY <1>2 DEF Updater
<1>4. GoesTo(i, at, response) => updater' = [updater EXCEPT ![i] = state]
  BY <1>1, <1>2 DEF GoesTo
<1>. QED
  BY <1>3, <1>4

LEMMA FeedFacts ==
    ASSUME AnnTyped
    PROVE  /\ FromFeed(Feed, published)
           /\ published # 0 => published \in Feed
           /\ published = 0 => Feed = {}
<1>1. /\ published \in Nat /\ published <= MaxPosts /\ MaxPosts \in Nat \ {0} /\ Shown \in Nat \ {0}
      /\ Posts = 1..MaxPosts
  BY AnnouncementsAssumption DEF AnnTyped, Posts
<1>2. CASE published = 0
  BY <1>1, <1>2 DEF Feed, FromFeed
<1>3. CASE published # 0
  <2>1. published \in Feed /\ \A p \in Feed : p <= published
    BY <1>1, <1>3 DEF Feed
  <2>. QED
    BY <1>1, <1>3, <2>1 DEF Feed, FromFeed
<1>. QED
  BY <1>2, <1>3

\* A set of natural numbers has a least one.
LEMMA LeastExists ==
    ASSUME NEW T \in SUBSET Nat, T # {}
    PROVE  \E x \in T : \A y \in T : x <= y
<1>. DEFINE Less == {pair \in Nat \X Nat : pair[1] < pair[2]}
<1>1. IsWellFoundedOn(Less, Nat)
  BY NatLessThanWellFounded DEF OpToRel
<1>2. \A x, y \in Nat : ~(<<y, x>> \in Less) => x <= y
  OBVIOUS
<1>. HIDE DEF Less
<1>3. \E x \in T : \A y \in T : ~(<<y, x>> \in Less)
  <2>. T \subseteq Nat
    OBVIOUS
  <2>. QED
    BY <1>1, WFMin, Zenon
<1>. QED
  BY <1>2, <1>3

\* Some of the feed's posts.
LEMMA PartOfFeed ==
    ASSUME AnnTyped, NEW posts \in SUBSET Feed
    PROVE  FromFeed(posts, published)
<1>1. /\ published \in Nat /\ published <= MaxPosts /\ MaxPosts \in Nat
      /\ posts \subseteq {p \in Posts : p <= published} /\ Posts = 1..MaxPosts
  BY AnnouncementsAssumption DEF AnnTyped, Posts, Feed
<1>2. ASSUME posts # {}
      PROVE  \E post \in posts : \A p \in posts : p <= post
  <2>. DEFINE before == {n \in Nat : \E p \in posts : n = MaxPosts - p}
  <2>1. before \subseteq Nat /\ before # {}
    <3>1. PICK p \in posts : TRUE
      BY <1>2
    <3>2. p \in 1..MaxPosts /\ MaxPosts - p \in Nat
      BY <1>1
    <3>. QED
      BY <3>2
  <2>2. PICK n \in before : \A m \in before : n <= m
    <3>. HIDE DEF before
    <3>. QED
      BY <2>1, LeastExists
  <2>3. PICK post \in posts : n = MaxPosts - post
    BY <2>2
  <2>4. ASSUME NEW p \in posts
        PROVE  p <= post
    <3>1. p \in 1..MaxPosts /\ post \in 1..MaxPosts
      BY <1>1
    <3>2. MaxPosts - p \in before
      BY <1>1, <3>1
    <3>3. MaxPosts - post <= MaxPosts - p
      <4>. HIDE DEF before
      <4>. QED
        BY <2>2, <2>3, <3>2
    <3>. QED
      BY <1>1, <3>1, <3>3
  <2>. QED
    BY <2>4
<1>. QED
  BY <1>1, <1>2 DEF FromFeed

\* Max of posts that have a last one.
LEMMA LastPost ==
    ASSUME NEW posts \in SUBSET Nat, NEW last \in posts, \A p \in posts : p <= last
    PROVE  Max(posts) = last
<1>1. \A x \in posts : (\A y \in posts : x >= y) => x = last
  OBVIOUS
<1>2. last \in posts /\ \A y \in posts : last >= y
  OBVIOUS
<1>. QED
  BY <1>1, <1>2 DEF Max

\* Only the updater of the last Begin does something, as long as there is one.
LEMMA OneActs ==
    ASSUME AnnInv, begun <= 1, NEW i \in Updaters, updater[i].at # "none"
    PROVE  i = begun
BY DEF AnnInv, OneUpdater, None

\* It goes on alone.
LEMMA OneGoesOn ==
    ASSUME AnnInv, begun <= 1, NEW i \in Updaters, i = begun, NEW state \in Updater,
           updater' = [updater EXCEPT ![i] = state],
           published' \in Nat, published <= published', UNCHANGED begun,
           FromFeed(state.response, published')
    PROVE  OneUpdater'
<1>1. updater'[i] = state /\ \A j \in Updaters : j # i => updater'[j] = updater[j]
  BY DEF AnnInv, AnnTyped
<1>2. ASSUME NEW j \in Updaters, j # i
      PROVE  FromFeed(updater'[j].response, published')
  <2>1. PICK posts : posts = updater[j].response
    OBVIOUS
  <2>2. FromFeed(posts, published)
    BY <2>1 DEF AnnInv, OneUpdater
  <2>3. FromFeed(posts, published')
    BY <2>2, FromFeedKept DEF AnnInv
  <2>. QED
    BY <1>1, <1>2, <2>1, <2>3
<1>. SUFFICES ASSUME NEW j \in Updaters
              PROVE  (/\ j # begun => updater[j] = None
                      /\ FromFeed(updater[j].response, published))'
  BY DEF OneUpdater, Updaters
<1>3. /\ j # begun' => updater'[j] = None
      /\ FromFeed(updater'[j].response, published')
  <2>1. CASE j = i
    BY <1>1, <2>1
  <2>2. CASE j # i
    <3>1. updater[j] = None
      BY <2>2 DEF AnnInv, OneUpdater
    <3>. QED
      BY <1>1, <1>2, <2>2, <3>1
  <2>. QED
    BY <2>1, <2>2
<1>. QED
  BY <1>3 DEF FromFeed

\* The steps in which nothing is compared.
LEMMA AnnQuiet ==
    ASSUME AnnInv, NEW i \in Updaters, NEW state \in Updater, updater[i].at # "none",
           updater' = [updater EXCEPT ![i] = state],
           UNCHANGED <<published, begun, notified, glitches>>,
           begun <= 1 /\ i = begun =>
               FromFeed(state.response, published) /\ Compared' = Compared /\ LastStays'
    PROVE  AnnInv'
<1>1. AnnTyped'
  BY DEF AnnInv, AnnTyped
<1>2. ASSUME begun <= 1
      PROVE  (OneUpdater /\ LastStays /\ OncePerResponse)'
  <2>1. i = begun
    BY <1>2, OneActs
  <2>2. published \in Nat /\ published' \in Nat /\ published <= published'
    BY DEF AnnInv, AnnTyped
  <2>3. FromFeed(state.response, published')
    BY <1>2, <2>1 DEF FromFeed
  <2>4. OneUpdater'
    BY <1>2, <2>1, <2>2, <2>3, OneGoesOn
  <2>5. OncePerResponse'
    BY <1>2, <2>1 DEF AnnInv, OncePerResponse, Before
  <2>. QED
    BY <1>2, <2>1, <2>4, <2>5
<1>. QED
  BY <1>1, <1>2 DEF AnnInv

\* What an updater is before, between and after the updates.
LEMMA RestFacts ==
    /\ None \in Updater /\ None.response = {} /\ None.at = "none"
    /\ Updating \in Updater /\ Updating.response = {} /\ Updating.at = "fetch"
    /\ begun \in Updaters =>
           \A i \in Updaters : /\ Returned(i) \in Updater /\ Returned(i).response = {}
                               /\ Returned(i).at \in {"none", "wait"}
<1>1. 0 \in Updaters /\ {} \in SUBSET Posts
  BY AnnouncementsAssumption DEF Updaters
<1>2. None \in Updater /\ None.response = {} /\ None.at = "none"
  BY <1>1 DEF None, Updater
<1>3. Updating \in Updater /\ Updating.response = {} /\ Updating.at = "fetch"
  BY <1>1 DEF Updating, Updater
<1>4. ASSUME begun \in Updaters, NEW i \in Updaters
      PROVE  /\ Returned(i) \in Updater /\ Returned(i).response = {}
             /\ Returned(i).at \in {"none", "wait"}
  <2>1. PICK waiting : waiting = [at |-> "wait", response |-> {}, channel |-> begun]
    OBVIOUS
  <2>2. waiting \in Updater /\ waiting.response = {} /\ waiting.at = "wait"
    BY <1>1, <1>4, <2>1 DEF Updater
  <2>3. Returned(i) = None \/ Returned(i) = waiting
    BY <2>1 DEF Returned
  <2>. QED
    BY <1>2, <2>2, <2>3
<1>. QED
  BY <1>2, <1>3, <1>4

LEMMA AnnInvInit == AnnInit => AnnInv
<1>. SUFFICES ASSUME AnnInit
              PROVE  AnnInv
  OBVIOUS
<1>1. /\ Updaters = 0..MaxAnnBegins /\ MaxAnnBegins \in Nat \ {0} /\ MaxPosts \in Nat \ {0}
      /\ published \in 0..1 /\ glitches = 0 /\ begun = 0 /\ announcements = {}
  BY AnnouncementsAssumption DEF AnnInit, Updaters
<1>2. \A i \in Updaters : updater[i] = (IF i = 0 THEN Updating ELSE None)
  BY DEF AnnInit
<1>3. \A i \in Updaters : updater[i] \in Updater /\ updater[i].response = {}
  BY <1>2, RestFacts
<1>4. notified \in [Posts -> Nat] /\ \A p \in Posts : notified[p] = 0
  BY DEF AnnInit
<1>5. AnnTyped
  BY <1>1, <1>3, <1>4 DEF AnnTyped, AnnInit
<1>6. FromFeed({}, published)
  BY DEF FromFeed
<1>7. OneUpdater
  <2>. SUFFICES ASSUME NEW i \in Updaters
                PROVE  /\ i # 0 => updater[i] = None
                       /\ FromFeed(updater[i].response, published)
    BY <1>1 DEF OneUpdater
  <2>1. i # 0 => updater[i] = None
    BY DEF AnnInit
  <2>2. updater[i].response = {}
    BY <1>3
  <2>. QED
    BY <1>6, <2>1, <2>2
<1>8. LastStays /\ OncePerResponse
  BY <1>1, <1>3, <1>4, <1>6 DEF LastStays, OncePerResponse
<1>. QED
  BY <1>5, <1>7, <1>8 DEF AnnInv

LEMMA AnnInvPublish ==
    ASSUME AnnInv, Publish
    PROVE  AnnInv'
<1>1. /\ published' = published + 1 /\ published' <= MaxPosts /\ published \in Nat /\ AnnTyped
      /\ UNCHANGED <<glitches, announcements, begun, updater, notified>>
  BY AnnouncementsAssumption DEF Publish, AnnInv, AnnTyped
<1>2. AnnTyped'
  BY <1>1 DEF AnnTyped
<1>3. ASSUME begun <= 1
      PROVE  (OneUpdater /\ LastStays /\ OncePerResponse)'
  <2>1. ASSUME NEW posts, FromFeed(posts, published)
        PROVE  FromFeed(posts, published')
    BY <1>1, <2>1, FromFeedKept
  <2>2. ASSUME NEW i \in Updaters
        PROVE  FromFeed(updater'[i].response, published')
    <3>1. PICK posts : posts = updater[i].response
      OBVIOUS
    <3>2. FromFeed(posts, published')
      BY <1>3, <2>1, <3>1 DEF AnnInv, OneUpdater
    <3>. QED
      BY <1>1, <3>1, <3>2
  <2>3. OneUpdater'
    BY <1>1, <1>3, <2>2 DEF AnnInv, OneUpdater
  <2>4. FromFeed(announcements', published')
    <3>1. PICK posts : posts = announcements
      OBVIOUS
    <3>2. FromFeed(posts, published')
      BY <1>3, <2>1, <3>1 DEF AnnInv, LastStays
    <3>. QED
      BY <1>1, <3>1, <3>2
  <2>5. LastStays'
    BY <1>1, <1>3, <2>4 DEF AnnInv, LastStays
  <2>6. OncePerResponse'
    BY <1>1, <1>3 DEF AnnInv, OncePerResponse, Before, Compared, GoesBack
  <2>. QED
    BY <2>3, <2>5, <2>6
<1>. QED
  BY <1>1, <1>2, <1>3 DEF AnnInv

\* What an updater does when it returns, ticks or leaves.
LEMMA AnnInvRests ==
    ASSUME AnnInv, NEW i \in Updaters, FetchFails(i) \/ AnnTick(i) \/ Leave(i)
    PROVE  AnnInv'
<1>1. /\ UNCHANGED <<published, begun, notified, glitches, announcements>>
      /\ updater[i].at \in {"fetch", "wait"}
      /\ updater \in [Updaters -> Updater] /\ begun \in Updaters /\ 0 \in Updaters
  BY AnnouncementsAssumption DEF FetchFails, AnnTick, Leave, AnnInv, AnnTyped, Updaters
<1>2. PICK state : /\ updater' = [updater EXCEPT ![i] = state]
                   /\ state \in Updater /\ state.response = {}
                   /\ state.at \in {"none", "fetch", "wait"}
  <2>1. CASE FetchFails(i)
    BY <1>1, <2>1, RestFacts DEF FetchFails
  <2>2. CASE AnnTick(i)
    BY <2>2, RestFacts DEF AnnTick
  <2>3. CASE Leave(i)
    BY <2>3, RestFacts DEF Leave
  <2>. QED
    BY <2>1, <2>2, <2>3
<1>3. ASSUME begun <= 1, i = begun
      PROVE  FromFeed(state.response, published) /\ Compared' = Compared /\ LastStays'
  <2>1. FromFeed(state.response, published)
    BY <1>2 DEF FromFeed
  <2>2. updater'[begun'] = state
    BY <1>1, <1>2, <1>3
  <2>3. Compared' = announcements /\ Compared = announcements
    BY <1>1, <1>2, <1>3, <2>2 DEF Compared
  <2>4. LastStays'
    BY <1>1, <1>2, <1>3, <2>2 DEF LastStays, AnnInv, FromFeed
  <2>. QED
    BY <2>1, <2>3, <2>4
<1>. QED
  BY <1>1, <1>2, <1>3, AnnQuiet

LEMMA AnnInvFetch ==
    ASSUME AnnInv, NEW i \in Updaters, Fetch(i)
    PROVE  AnnInv'
<1>1. /\ UNCHANGED <<published, begun, notified, glitches, announcements>>
      /\ updater[i].at = "fetch" /\ AnnTyped
      /\ updater \in [Updaters -> Updater] /\ begun \in Updaters
  BY DEF Fetch, AnnInv, AnnTyped
<1>2. PICK state : /\ updater' = [updater EXCEPT ![i] = state]
                   /\ state \in Updater /\ state.response = Feed /\ state.at = "compare"
  <2>1. Feed \in SUBSET Posts
    BY <1>1 DEF Feed
  <2>2. GoesTo(i, "compare", Feed)
    BY DEF Fetch
  <2>. QED
    BY <1>1, <2>1, <2>2, UpdaterSet
<1>3. ASSUME begun <= 1, i = begun
      PROVE  FromFeed(state.response, published) /\ Compared' = Compared /\ LastStays'
  <2>1. /\ FromFeed(state.response, published) /\ published \in Nat
        /\ published # 0 => published \in state.response
        /\ published = 0 => state.response = {}
    BY <1>1, <1>2, FeedFacts DEF AnnTyped
  <2>2. updater'[begun'] = state
    BY <1>1, <1>2, <1>3
  <2>3. /\ FromFeed(announcements, published)
        /\ \A p \in announcements : p \in Nat \ {0} /\ p <= published
    BY <1>3 DEF AnnInv, LastStays, FromFeed, Posts
  <2>4. ~GoesBack(state.response)
    <3>1. ASSUME NEW p \in announcements, \A q \in state.response : q < p
          PROVE  FALSE
      <4>1. p \in Nat \ {0} /\ p <= published /\ published # 0
        BY <2>1, <2>3
      <4>2. published < p
        BY <2>1, <3>1, <4>1
      <4>. QED
        BY <2>1, <4>1, <4>2
    <3>. QED
      BY <3>1 DEF GoesBack
  <2>5. Compared' = Compared
    <3>1. GoesBack(state.response)' <=> GoesBack(state.response)
      BY <1>1 DEF GoesBack
    <3>2. Compared' = announcements /\ Compared = announcements
      BY <1>1, <1>2, <1>3, <2>2, <2>4, <3>1 DEF Compared, GoesBack
    <3>. QED
      BY <3>2
  <2>6. LastStays'
    BY <1>1, <1>2, <2>1, <2>2, <2>3 DEF LastStays, FromFeed
  <2>. QED
    BY <2>1, <2>5, <2>6
<1>. QED
  BY <1>1, <1>2, <1>3, AnnQuiet

\* A response that lacks posts is counted when it comes.
LEMMA AnnInvFetchLess ==
    ASSUME AnnInv, NEW i \in Updaters, FetchLess(i)
    PROVE  AnnInv'
<1>1. /\ UNCHANGED <<published, begun, notified, announcements>>
      /\ updater[i].at = "fetch" /\ glitches' = glitches + 1 /\ glitches \in Nat
      /\ updater \in [Updaters -> Updater] /\ begun \in Updaters /\ notified \in [Posts -> Nat]
      /\ published \in Nat /\ AnnTyped
  BY DEF FetchLess, AnnInv, AnnTyped
<1>2. PICK state : /\ updater' = [updater EXCEPT ![i] = state]
                   /\ state \in Updater /\ state.response \subseteq Feed /\ state.at = "compare"
  <2>1. PICK response \in SUBSET Feed : GoesTo(i, "compare", response)
    BY DEF FetchLess
  <2>2. response \in SUBSET Posts
    BY DEF Feed
  <2>. QED
    BY <1>1, <2>1, <2>2, UpdaterSet
<1>3. AnnTyped'
  BY <1>1, <1>2 DEF AnnInv, AnnTyped
<1>4. ASSUME begun <= 1
      PROVE  (OneUpdater /\ LastStays /\ OncePerResponse)'
  <2>1. i = begun
    BY <1>1, <1>4, OneActs
  <2>2. /\ updater'[begun'] = state /\ FromFeed(state.response, published')
        /\ published' \in Nat /\ published <= published'
    <3>1. updater'[begun'] = state /\ published' \in Nat /\ published <= published'
      BY <1>1, <1>2, <2>1
    <3>2. FromFeed(state.response, published)
      BY <1>1, <1>2, PartOfFeed
    <3>. QED
      BY <1>1, <3>1, <3>2
  <2>3. OneUpdater'
    BY <1>1, <1>2, <1>4, <2>1, <2>2, OneGoesOn
  <2>4. LastStays'
    BY <1>1, <1>2, <1>4, <2>2 DEF AnnInv, LastStays, FromFeed
  <2>5. ASSUME NEW p \in Posts
        PROVE  notified'[p] <= glitches'
    BY <1>1, <1>4 DEF AnnInv, OncePerResponse
  <2>6. OncePerResponse'
    BY <1>1, <2>5 DEF OncePerResponse
  <2>. QED
    BY <2>3, <2>4, <2>6
<1>. QED
  BY <1>1, <1>3, <1>4 DEF AnnInv

\* A response that goes back notifies nothing.
LEMMA GoneBack ==
    ASSUME LastStays, NEW response, FromFeed(response, published), response = {} \/ GoesBack(response)
    PROVE  ~IsNew(response)
<1>. SUFFICES ASSUME response # {}, announcements # {}, GoesBack(response)
              PROVE  ~(Max(response) > Max(announcements))
  BY DEF IsNew, GoesBack
<1>1. response \in SUBSET Nat /\ announcements \in SUBSET Nat
  BY DEF LastStays, FromFeed, Posts
<1>2. PICK last \in response : \A p \in response : p <= last
  BY DEF FromFeed
<1>3. PICK top \in announcements : \A p \in announcements : p <= top
  BY DEF LastStays, FromFeed
<1>4. Max(response) = last /\ Max(announcements) = top
  BY <1>1, <1>2, <1>3, LastPost
<1>5. PICK p \in announcements : \A q \in response : q < p
  BY DEF GoesBack
<1>6. last < p /\ p <= top /\ last \in Nat /\ top \in Nat /\ p \in Nat
  BY <1>1, <1>2, <1>3, <1>5
<1>. QED
  BY <1>4, <1>6

\* The last post is notified if those compared last are before it.
LEMMA AnnInvCompare ==
    ASSUME AnnInv, NEW i \in Updaters, AnnCompare(i)
    PROVE  AnnInv'
<1>0. PICK response : response = updater[i].response
  OBVIOUS
<1>1. /\ UNCHANGED <<published, begun, glitches, announcements>>
      /\ updater[i].at = "compare" /\ glitches \in Nat
      /\ updater \in [Updaters -> Updater] /\ begun \in Updaters /\ notified \in [Posts -> Nat]
      /\ published \in Nat /\ AnnTyped
  BY DEF AnnCompare, GoesTo, AnnInv, AnnTyped
<1>2. PICK state : /\ updater' = [updater EXCEPT ![i] = state]
                   /\ state \in Updater /\ state.response = response /\ state.at = "store"
  <2>1. response \in SUBSET Posts
    BY <1>1, <1>0 DEF Updater
  <2>2. GoesTo(i, "store", response)
    BY <1>0 DEF AnnCompare
  <2>. QED
    BY <1>1, <2>1, <2>2, UpdaterSet
<1>3. notified' \in [Posts -> Nat]
  BY <1>1 DEF AnnCompare
<1>4. AnnTyped'
  BY <1>1, <1>2, <1>3 DEF AnnInv, AnnTyped
<1>5. ASSUME begun <= 1
      PROVE  (OneUpdater /\ LastStays /\ OncePerResponse)'
  <2>1. i = begun
    BY <1>1, <1>5, OneActs
  <2>2. FromFeed(response, published) /\ response \subseteq Nat
    BY <1>0, <1>5 DEF AnnInv, OneUpdater, FromFeed, Posts
  <2>3. /\ updater'[begun'] = state /\ FromFeed(state.response, published')
        /\ published' \in Nat /\ published <= published'
    <3>1. state.response = response /\ published' = published /\ published \in Nat
      BY <1>1, <1>2
    <3>2. updater'[begun'] = state
      BY <1>1, <1>2, <2>1
    <3>. QED
      BY <2>2, <3>1, <3>2
  <2>4. OneUpdater'
    BY <1>1, <1>2, <1>5, <2>1, <2>3, OneGoesOn
  <2>5. LastStays'
    BY <1>1, <1>2, <1>5, <2>3 DEF AnnInv, LastStays, FromFeed
  <2>6. Compared' = response
    BY <1>2, <2>3 DEF Compared
  <2>7. Compared = IF GoesBack(response) THEN response ELSE announcements
    BY <1>0, <1>1, <2>1 DEF Compared
  <2>8. ASSUME NEW p \in Posts
        PROVE  /\ notified'[p] <= 1 + glitches
               /\ (\A q \in response : q < p) => notified'[p] <= glitches
    <3>1. /\ notified[p] \in Nat /\ notified[p] <= 1 + glitches /\ p \in Nat
          /\ (\A q \in Compared : q < p) => notified[p] <= glitches
      BY <1>1, <1>5 DEF AnnInv, OncePerResponse, Before, Posts
    <3>2. CASE response = {} \/ GoesBack(response)
      <4>1. notified'[p] = notified[p]
        BY <1>0, <1>5, <2>2, <3>2, GoneBack DEF AnnCompare, AnnInv
      <4>2. response = {} /\ ~GoesBack(response) => announcements = {}
        BY DEF GoesBack
      <4>. QED
        BY <2>7, <3>1, <3>2, <4>1, <4>2
    <3>3. CASE response # {} /\ ~GoesBack(response)
      <4>1. PICK last \in response : \A q \in response : q <= last
        BY <2>2, <3>3 DEF FromFeed
      <4>2. last \in Nat /\ Max(response) = last
        BY <2>2, <4>1, LastPost
      <4>3. \A q \in announcements : \E r \in response : ~(r < q)
        BY <3>3 DEF GoesBack
      <4>4. announcements \subseteq Nat
        BY <1>5 DEF AnnInv, LastStays, FromFeed, Posts
      <4>5. CASE notified'[p] = notified[p]
        <5>1. (\A q \in response : q < p) => \A q \in announcements : q < p
          <6>1. ASSUME \A r \in response : r < p, NEW q \in announcements
                PROVE  q < p
            <7>1. PICK r \in response : ~(r < q)
              BY <4>3
            <7>2. r < p /\ r \in Nat /\ q \in Nat
              BY <2>2, <4>4, <6>1
            <7>. QED
              BY <3>1, <7>1, <7>2
          <6>. QED
            BY <6>1
        <5>. QED
          BY <1>1, <2>7, <3>1, <3>3, <4>5, <5>1
      <4>6. CASE notified'[p] # notified[p]
        <5>1. IsNew(response) /\ p = last /\ notified'[p] = notified[p] + 1
          BY <1>0, <1>1, <4>2, <4>6 DEF AnnCompare
        <5>2. \A q \in announcements : q < p
          <6>1. CASE announcements = {}
            BY <6>1
          <6>2. CASE announcements # {}
            <7>1. PICK top \in announcements : \A q \in announcements : q <= top
              BY <1>5, <6>2 DEF AnnInv, LastStays, FromFeed
            <7>2. Max(announcements) = top
              BY <4>4, <7>1, LastPost
            <7>. QED
              BY <4>2, <4>4, <5>1, <6>2, <7>1, <7>2 DEF IsNew
          <6>. QED
            BY <6>1, <6>2
        <5>3. notified[p] <= glitches
          BY <2>7, <3>1, <3>3, <5>2
        <5>4. ~(\A q \in response : q < p)
          BY <4>1, <4>2, <5>1
        <5>. QED
          BY <1>1, <3>1, <5>1, <5>3, <5>4
      <4>. QED
        BY <4>5, <4>6
    <3>. QED
      BY <3>2, <3>3
  <2>9. OncePerResponse'
    BY <1>1, <2>6, <2>8 DEF OncePerResponse, Before
  <2>. QED
    BY <2>4, <2>5, <2>9
<1>. QED
  BY <1>1, <1>4, <1>5 DEF AnnInv

LEMMA AnnInvStore ==
    ASSUME AnnInv, NEW i \in Updaters, Store(i)
    PROVE  AnnInv'
<1>1. /\ UNCHANGED <<published, begun, notified, glitches>>
      /\ updater[i].at = "store" /\ announcements' = updater[i].response
      /\ updater \in [Updaters -> Updater] /\ begun \in Updaters /\ 0 \in Updaters
  BY AnnouncementsAssumption DEF Store, AnnInv, AnnTyped, Updaters
<1>2. PICK state : /\ updater' = [updater EXCEPT ![i] = state]
                   /\ state \in Updater /\ state.response = {} /\ state.at \in {"none", "wait"}
  BY <1>1, RestFacts DEF Store
<1>3. ASSUME begun <= 1, i = begun
      PROVE  FromFeed(state.response, published) /\ Compared' = Compared /\ LastStays'
  <2>1. FromFeed(state.response, published) /\ FromFeed(announcements', published')
    BY <1>1, <1>2, <1>3 DEF AnnInv, OneUpdater, FromFeed
  <2>2. updater'[begun'] = state
    BY <1>1, <1>2, <1>3
  <2>3. Compared' = announcements' /\ Compared = announcements'
    BY <1>1, <1>2, <1>3, <2>2 DEF Compared
  <2>4. LastStays'
    BY <1>2, <2>1, <2>2 DEF LastStays
  <2>. QED
    BY <2>1, <2>3, <2>4
<1>. QED
  BY <1>1, <1>2, <1>3, AnnQuiet

\* The second Begin ends what the invariant says; the first finds Init over.
LEMMA AnnInvBegin ==
    ASSUME AnnInv, AnnBegin
    PROVE  AnnInv'
<1>1. /\ UNCHANGED <<published, announcements, notified, glitches>> /\ begun' = begun + 1
      /\ updater[0] = None /\ begun \in Nat /\ begun' \in Updaters /\ 0 \in Updaters
      /\ updater \in [Updaters -> Updater]
  BY AnnouncementsAssumption DEF AnnBegin, AnnInv, AnnTyped, Updaters
<1>2. /\ updater' \in [Updaters -> Updater]
      /\ \A i \in Updaters : i # begun' => updater'[i] = updater[i]
      /\ updater'[begun'].at = "fetch" /\ updater'[begun'].response = {}
  <2>1. updater' = [updater EXCEPT ![begun'] = Updating]
    BY <1>1 DEF AnnBegin
  <2>. QED
    BY <1>1, <2>1, RestFacts
<1>3. AnnTyped'
  BY <1>1, <1>2 DEF AnnInv, AnnTyped
<1>4. ASSUME begun' <= 1
      PROVE  (OneUpdater /\ LastStays /\ OncePerResponse)'
  <2>1. begun = 0
    BY <1>1, <1>4
  <2>2. OneUpdater'
    BY <1>1, <1>2, <2>1 DEF AnnInv, OneUpdater, FromFeed
  <2>3. Compared' = announcements /\ Compared = announcements
    BY <1>1, <1>2, <2>1 DEF Compared, None
  <2>4. LastStays'
    BY <1>1, <1>2, <2>1 DEF AnnInv, LastStays, FromFeed
  <2>5. OncePerResponse'
    BY <1>1, <2>1, <2>3 DEF AnnInv, OncePerResponse, Before
  <2>. QED
    BY <2>2, <2>4, <2>5
<1>. QED
  BY <1>3, <1>4 DEF AnnInv

LEMMA AnnInvNext == AnnInv /\ [AnnNext]_annVars => AnnInv'
<1>. SUFFICES ASSUME AnnInv, [AnnNext]_annVars
              PROVE  AnnInv'
  OBVIOUS
<1>1. CASE UNCHANGED annVars \/ AnnEnd
  <2>1. UNCHANGED <<published, glitches, announcements, begun, updater, notified>>
    BY <1>1 DEF annVars, AnnEnd
  <2>. QED
    BY <2>1 DEF AnnInv, AnnTyped, OneUpdater, FromFeed, LastStays, OncePerResponse, Before, Compared, GoesBack
<1>2. CASE Publish \/ AnnBegin
  BY <1>2, AnnInvPublish, AnnInvBegin
<1>3. ASSUME NEW i \in Updaters, UpdaterGoesOn(i)
      PROVE  AnnInv'
  BY <1>3, AnnInvRests, AnnInvFetch, AnnInvFetchLess, AnnInvCompare, AnnInvStore
  DEF UpdaterGoesOn
<1>. QED
  BY <1>1, <1>2, <1>3 DEF AnnNext

\* For any number of posts, however many the feed has, and any fetches that
\* fail or lack some of the posts: begun once, the scraper notifies no post more
\* than once, and at most once more for each response that lacked some.
THEOREM PostsNotifiedOnce == FeedsSpec => []NotifiedOnce
<1>1. FeedsInit => AnnInv
  BY AnnInvInit DEF FeedsInit
<1>2. [FeedsNext]_feedsVars => [AnnNext]_annVars
  BY DEF FeedsNext, Announcing, Conditioning, feedsVars
<1>3. AnnInv => NotifiedOnce
  BY DEF AnnInv, OncePerResponse, NotifiedOnce
<1>. QED
  BY <1>1, <1>2, <1>3, AnnInvNext, PTL DEF FeedsSpec
=============================================================================

--------------------------- MODULE Announcements ----------------------------
(***************************************************************************)
(* The scrapers of announcements, scraper/mlxscraper/rss.go and            *)
(* facebook.go, which notify the last post of a feed when its time is      *)
(* after that of the last post of the response before. As started, stopped *)
(* and started again by scrapers.go: Begin replaces the channel and the    *)
(* ticker, which the goroutine of an earlier Begin may not have seen       *)
(* closed, so that more than one can run.                                  *)
(*                                                                         *)
(* A post is its time; the site publishes them in order and the feed has   *)
(* the last ones (Shown). A fetch may fail and a response have no posts;   *)
(* one of Facebook's may lack any posts, since a post without the          *)
(* attributes that are looked for, or without a time, is skipped.          *)
(***************************************************************************)
EXTENDS Integers, FiniteSets, FiniteSetsExt

CONSTANTS MaxPosts,              \* bound on the posts published
          Shown,                 \* how many the feed has
          MaxAnnBegins,          \* bound on the calls to Begin
          MaxGlitches,           \* bound on the responses that lack posts
          MaxFailures            \* bound on the fetches that fail

ASSUME AnnouncementsAssumption ==
    /\ MaxPosts \in Nat \ {0} /\ Shown \in Nat \ {0}
    /\ MaxAnnBegins \in Nat \ {0} /\ MaxGlitches \in Nat /\ MaxFailures \in Nat

Posts == 1..MaxPosts

\* The caller of Init, 0, and the goroutine of each Begin.
Updaters == 0..MaxAnnBegins

VARIABLES facebook,              \* whether this is the scraper of Facebook
          published,             \* how many posts the site has published
          glitches, failures,
          firstUpdate, announcements,
          annRunning,
          begun,                 \* how many times; the channel is of the last
          annClosed,             \* the channels that End closed
          annTicked,             \* the channels that End closed when their tickers had ticked
          updater,
          notified,              \* how many times each post was
          due                    \* history: the posts published since the first update

annVars == <<facebook, published, glitches, failures, firstUpdate, announcements,
             annRunning, begun, annClosed, annTicked, updater, notified, due>>

\* What an updater does, the response it has, and the channel it waits on.
Updater == [at : {"none", "fetch", "compare", "store", "wait"},
            response : SUBSET Posts, channel : Updaters]

None == [at |-> "none", response |-> {}, channel |-> 0]

Updating == [at |-> "fetch", response |-> {}, channel |-> 0]

AnnInit ==
    /\ facebook \in BOOLEAN
    /\ published \in 0..1
    /\ glitches = 0
    /\ failures = 0
    /\ firstUpdate = TRUE
    /\ announcements = {}
    /\ annRunning = FALSE
    /\ begun = 0
    /\ annClosed = {}
    /\ annTicked = {}
    /\ updater = [i \in Updaters |-> IF i = 0 THEN Updating ELSE None]
    /\ notified = [p \in Posts |-> 0]
    /\ due = {}

-----------------------------------------------------------------------------
Publish ==
    /\ published < MaxPosts
    /\ published' = published + 1
    /\ due' = IF firstUpdate THEN due ELSE due \cup {published + 1}
    /\ UNCHANGED <<facebook, failures, glitches, firstUpdate, announcements, annRunning,
                   begun, annClosed, annTicked, updater, notified>>

Feed == {p \in Posts : p <= published /\ p > published - Shown}

\* The end of update: Init returns, a goroutine waits for the ticker or for
\* the channel that the scraper has now. Init of RSSScraper says that the
\* first update is done even if it failed.
Returned(i) ==
    IF i = 0 THEN None ELSE [at |-> "wait", response |-> {}, channel |-> begun]

\* An update goes on.
GoesTo(i, at, response) ==
    updater' = [updater EXCEPT ![i] =
                   [at |-> at, response |-> response, channel |-> updater[i].channel]]

FetchFails(i) ==
    /\ updater[i].at = "fetch" /\ failures < MaxFailures
    /\ failures' = failures + 1
    /\ updater' = [updater EXCEPT ![i] = Returned(i)]
    /\ firstUpdate' = (firstUpdate /\ (i = 0 => facebook))
    /\ UNCHANGED <<facebook, published, glitches, announcements, annRunning, begun,
                   annClosed, annTicked, notified, due>>

Fetch(i) ==
    /\ updater[i].at = "fetch"
    /\ GoesTo(i, "compare", Feed)
    /\ UNCHANGED <<facebook, failures, published, glitches, firstUpdate, announcements,
                   annRunning, begun, annClosed, annTicked, notified, due>>

FetchLess(i) ==
    /\ updater[i].at = "fetch" /\ glitches < MaxGlitches
    /\ \E response \in SUBSET Feed \ {Feed} :
           /\ facebook \/ response = {}
           /\ GoesTo(i, "compare", response)
    /\ glitches' = glitches + 1
    /\ UNCHANGED <<facebook, failures, published, firstUpdate, announcements,
                   annRunning, begun, annClosed, annTicked, notified, due>>

MoreThanBefore(response) == Cardinality(response) > Cardinality(announcements)    \* (mutant)

NotEarlier(response) ==                                              \* (mutant)
    response # {} /\ (announcements # {} => Max(response) >= Max(announcements))

\* isNew looks only into the time of the last posts.
IsNew(response) ==
    response # {} /\ (announcements # {} => Max(response) > Max(announcements))

\* The callback, SendNotificationForAnnouncement, sends a message.
AnnCompare(i) ==
    LET response == updater[i].response
        new == ~firstUpdate /\ IsNew(response)
    IN  /\ updater[i].at = "compare"
        /\ notified' = [p \in Posts |->
               IF new /\ p = Max(response) THEN notified[p] + 1 ELSE notified[p]]
        /\ GoesTo(i, "store", response)
        /\ UNCHANGED <<facebook, failures, published, glitches, firstUpdate,
                       announcements, annRunning, begun, annClosed, annTicked, due>>

Store(i) ==
    /\ updater[i].at = "store"
    /\ announcements' = updater[i].response
    /\ firstUpdate' = FALSE
    /\ updater' = [updater EXCEPT ![i] = Returned(i)]
    /\ UNCHANGED <<facebook, failures, published, glitches, annRunning, begun,
                   annClosed, annTicked, notified, due>>

AnnBegin ==
    /\ ~annRunning /\ begun < MaxAnnBegins
    /\ updater[0] = None
    /\ annRunning' = TRUE
    /\ begun' = begun + 1
    /\ updater' = [updater EXCEPT ![begun + 1] = Updating]
    /\ UNCHANGED <<facebook, failures, published, glitches, firstUpdate, announcements,
                   annClosed, annTicked, notified, due>>

AnnEnd ==
    /\ annRunning
    /\ annRunning' = FALSE
    /\ annClosed' = annClosed \cup {begun}
    /\ annTicked' \in {annTicked, annTicked \cup {begun}}
    /\ UNCHANGED <<facebook, failures, published, glitches, firstUpdate, announcements,
                   begun, updater, notified, due>>

\* The ticker is that of the channel. A tick from before End may still be there,
\* and a select that could receive it or leave does any.
AnnTick(i) ==
    /\ updater[i].at = "wait"
    /\ updater[i].channel \in annClosed => updater[i].channel \in annTicked
    /\ annTicked' = annTicked \ {updater[i].channel}
    /\ updater' = [updater EXCEPT ![i] = Updating]
    /\ UNCHANGED <<facebook, failures, published, glitches, firstUpdate, announcements,
                   annRunning, begun, annClosed, notified, due>>

Leave(i) ==
    /\ updater[i].at = "wait" /\ updater[i].channel \in annClosed
    /\ updater' = [updater EXCEPT ![i] = None]
    /\ UNCHANGED <<facebook, failures, published, glitches, firstUpdate, announcements,
                   annRunning, begun, annClosed, annTicked, notified, due>>

UpdaterGoesOn(i) ==
    \/ FetchFails(i) \/ Fetch(i) \/ FetchLess(i)
    \/ AnnCompare(i) \/ Store(i) \/ AnnTick(i) \/ Leave(i)

AnnNext == Publish \/ AnnBegin \/ AnnEnd \/ \E i \in Updaters : UpdaterGoesOn(i)

-----------------------------------------------------------------------------
\* Unless the scraper is started again, a post is notified once, and at most
\* once more for each response that lacked posts, after which one that was
\* notified before may look new: not again when others leave the feed, nor
\* after fetches that fail. (With the goroutines of two Begins, an old response
\* stored late makes it new again.)
NotifiedOnce == begun <= 1 => \A p \in Posts : notified[p] <= 1 + glitches

\* The last post, if published after the first update, is notified unless the
\* scraper stops, also when other posts leave the feed, and when the responses
\* of two goroutines are stored out of order.
LastAnnounced == []<>(published \in due => notified[published] > 0 \/ ~annRunning)
=============================================================================

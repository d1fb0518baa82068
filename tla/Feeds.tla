------------------------------- MODULE Feeds --------------------------------
(***************************************************************************)
(* The scrapers of announcements and of line conditions as one system, one *)
(* of which runs in each behaviour: they share neither state nor rows.     *)
(***************************************************************************)
EXTENDS Announcements, LineConditions

VARIABLE scraping                \* "announcements" or "conditions"

feedsVars == <<annVars, condVars, scraping>>

FeedsInit ==
    /\ AnnInit /\ CondInit
    /\ \/ scraping = "announcements" /\ source = [l \in Lines |-> CHOOSE c \in Conditions : TRUE]
       \/ scraping = "conditions" /\ ~facebook /\ published = 0

Announcing(A) == scraping = "announcements" /\ A /\ UNCHANGED <<condVars, scraping>>

Conditioning(A) == scraping = "conditions" /\ A /\ UNCHANGED <<annVars, scraping>>

FeedsNext == Announcing(AnnNext) \/ Conditioning(CondNext)

FeedsSpec == FeedsInit /\ [][FeedsNext]_feedsVars

\* What was begun goes on, and the tickers tick.
FeedsFairSpec ==
    /\ FeedsSpec
    /\ \A i \in Updaters : WF_feedsVars(Announcing(UpdaterGoesOn(i)))
    /\ WF_feedsVars(Conditioning(FetchConditions("ticker")))
    /\ \A g \in Rounds : WF_feedsVars(Conditioning(RoundGoesOn(g)))

-----------------------------------------------------------------------------
\* When what the API says of a line changes no more, it is what the server says,
\* also if an older answer was compared with a newer one, or stored after it,
\* and if rounds were cut short by another line.
CatchesUp ==
    <>[](scraping = "conditions" => lastCondition = source)
=============================================================================

------------------------- MODULE StatusTransactions -------------------------
(***************************************************************************)
(* The statuses of one line added by calls that overlap: the transactions  *)
(* of scrapers.go handleNewStatus, statement by statement, with the row    *)
(* locks they take in PostgreSQL (isolation level READ COMMITTED, what     *)
(* sqalx.Beginx asks for) and the single goroutine of notifs.go that they  *)
(* hand their notifications to. LineStatus has the same rules with each    *)
(* call in one step.                                                       *)
(*                                                                         *)
(* A thread is a goroutine that adds statuses of one source, one after     *)
(* another; an editor is an administrator's request to the page of a       *)
(* disturbance, which saves the notes by rewriting the whole row.          *)
(***************************************************************************)
EXTENDS DisturbanceRules

CONSTANTS Threads,    \* the goroutines that add statuses
          SourceOf,   \* the source of each one's statuses
          Editors,    \* the requests that edit notes
          NoStatus,   \* what an editor adds
          MaxTime     \* bound on the clock, hence on the calls

Calls == Threads \cup Editors

ASSUME TransactionsAssumption ==
    /\ SourceOf \in [Threads -> Sources]
    /\ Threads \cap Editors = {}
    /\ NoStatus \notin Status
    /\ MaxTime \in Nat

VARIABLES now,           \* the clock
          rows,          \* what is committed
          step,          \* the statement that each call executes next
          status,        \* the status it adds
          copy,          \* the disturbance it has in memory: none or one
          locked,        \* the rows of table source that it has locked
          consumer,      \* the goroutine that sends notifications
          notified,      \* the statuses notified
          uncommitted    \* those whose commit failed

vars == <<now, rows, step, status, copy, locked, consumer, notified, uncommitted>>

Steps == {"idle", "last", "insert", "ongoing", "statuses", "row", "links",
          "notify", "commit"}

Init ==
    /\ now = 0
    /\ rows = NoRows
    /\ step = [c \in Calls |-> "idle"]
    /\ status = [c \in Calls |-> NoStatus]
    /\ copy = [c \in Calls |-> {}]
    /\ locked = [c \in Calls |-> {}]
    /\ consumer = "idle"
    /\ notified = {}
    /\ uncommitted = {}

-----------------------------------------------------------------------------
(***************************************************************************)
(* Locks. A row is locked from the upsert that writes it to the end of the *)
(* transaction: Status.Update upserts the status's source, Disturbance     *)
(* .Update the disturbance. A new disturbance has a row nobody else sees.  *)
(***************************************************************************)
SourceAlwaysFree(c, source) == source \in Sources                    \* (mutant)

SourceFree(c, source) == \A other \in Calls \ {c} : source \notin locked[other]

HasRow(c) == step[c] \in {"links", "notify", "commit"}

SameRow(c, other) == \E d \in copy[c], e \in copy[other] : d.UStartTime = e.UStartTime

RowFree(c) == \A other \in Calls \ {c} : ~(HasRow(other) /\ SameRow(c, other))

\* The sources that Update still has to upsert, with the statuses it links;
\* it goes through the statuses in the order of their times.
Linked(c) == {s \in rows.log : \E d \in copy[c] : s.Time \in d.Statuses}

ToUpsert(c) == {s \in Linked(c) : s.Source \notin locked[c]}

NextSource(c) ==
    (CHOOSE s \in ToUpsert(c) : \A r \in ToUpsert(c) : s.Time <= r.Time).Source

WaitsFor(c, other) ==
    /\ c # other
    /\ \/ step[c] = "insert" /\ status[c].Source \in locked[other]
       \/ step[c] = "row" /\ HasRow(other) /\ SameRow(c, other)
       \/ step[c] = "links" /\ ToUpsert(c) # {} /\ NextSource(c) \in locked[other]

\* On a cycle of calls that wait for each other.
Deadlocked(c) ==
    \E cycle \in SUBSET Calls :
        /\ c \in cycle
        /\ \A d \in cycle : \E e \in cycle : WaitsFor(d, e)
        /\ \A d \in cycle : \E e \in cycle : WaitsFor(e, d)

-----------------------------------------------------------------------------
GoTo(c, next) == step' = [step EXCEPT ![c] = next]

KeepLocks(c) == UNCHANGED locked                                     \* (mutant)

Unlock(c) == locked' = [locked EXCEPT ![c] = {}]

\* The transaction is over, committed or rolled back.
End(c) ==
    /\ GoTo(c, "idle")
    /\ Unlock(c)
    /\ copy' = [copy EXCEPT ![c] = {}]
    /\ status' = [status EXCEPT ![c] = NoStatus]

Unchanged == UNCHANGED <<now, rows, consumer, notified, uncommitted>>

\* The caller stamps the status, then calls handleNewStatus.
Begin(c, isDowntime, text) ==
    /\ step[c] = "idle"
    /\ now < MaxTime
    /\ now' = now + 1
    /\ status' = [status EXCEPT ![c] = [Time |-> now', IsDowntime |-> isDowntime,
                                        Status |-> text, Source |-> SourceOf[c]]]
    /\ GoTo(c, "last")
    /\ UNCHANGED <<rows, copy, locked, consumer, notified, uncommitted>>

\* LastStatus: a duplicate is dropped, and there is nothing to commit.
ReadLastStatus(c) ==
    /\ step[c] = "last"
    /\ IF IsDuplicate(rows.log, status[c])
       THEN End(c)
       ELSE GoTo(c, "insert") /\ UNCHANGED <<status, copy, locked>>
    /\ Unchanged

\* status.Update waits for the row of the source.
InsertStatus(c) ==
    /\ step[c] = "insert"
    /\ SourceFree(c, status[c].Source)
    /\ locked' = [locked EXCEPT ![c] = @ \cup {status[c].Source}]
    /\ GoTo(c, "ongoing")
    /\ UNCHANGED <<status, copy>>
    /\ Unchanged

\* OngoingDisturbances, first the rows: the last of them, or a new one.
ReadOngoing(c) ==
    /\ step[c] = "ongoing"
    /\ LET s == status[c]
           ongoing == OngoingDisturbances(rows.disturbances)
       IN  IF ongoing # {}
           THEN /\ copy' = [copy EXCEPT ![c] = {LatestStarted(ongoing)}]
                /\ GoTo(c, "statuses")
           ELSE /\ copy' = [copy EXCEPT ![c] = IF s.IsDowntime THEN {Open(s)} ELSE {}]
                /\ GoTo(c, IF s.IsDowntime THEN "row" ELSE "commit")
    /\ UNCHANGED <<status, locked>>
    /\ Unchanged

\* DisturbancePage, the row.
ReadPage(c, d) ==
    /\ step[c] = "idle"
    /\ now < MaxTime
    /\ now' = now + 1
    /\ copy' = [copy EXCEPT ![c] = {d}]
    /\ GoTo(c, "statuses")
    /\ UNCHANGED <<rows, status, locked, consumer, notified, uncommitted>>

\* What getDisturbancesWithSelect makes of the row when it reads its statuses.
WithStatuses(d) ==
    [d EXCEPT !.Statuses =
        UNION {e.Statuses : e \in {e \in rows.disturbances : e.UStartTime = d.UStartTime}}]

\* The statuses of the row, by statements of their own; then AddStatus decides
\* what becomes of the disturbance, in memory. An editor changes the notes.
ReadStatuses(c) ==
    /\ step[c] = "statuses"
    /\ \E d \in {WithStatuses(d) : d \in copy[c]} :
           IF c \in Editors
           THEN GoTo(c, "row") /\ copy' = [copy EXCEPT ![c] = {d}]
           ELSE IF Ignores(d, status[c])
           THEN GoTo(c, "commit") /\ copy' = [copy EXCEPT ![c] = {}]
           ELSE GoTo(c, "row") /\ copy' = [copy EXCEPT ![c] = {Amend(d, status[c])}]
    /\ UNCHANGED <<status, locked>>
    /\ Unchanged

\* Disturbance.Update waits for the row, and writes all of it.
UpdateRow(c) ==
    /\ step[c] = "row"
    /\ RowFree(c)
    /\ GoTo(c, "links")
    /\ UNCHANGED <<status, copy, locked>>
    /\ Unchanged

\* ... then it upserts the statuses of the disturbance, with their sources.
UpdateLink(c) ==
    /\ step[c] = "links"
    /\ ToUpsert(c) # {}
    /\ SourceFree(c, NextSource(c))
    /\ locked' = [locked EXCEPT ![c] = @ \cup {NextSource(c)}]
    /\ UNCHANGED <<step, status, copy>>
    /\ Unchanged

Updated(c) ==
    /\ step[c] = "links"
    /\ ToUpsert(c) = {}
    /\ GoTo(c, IF c \in Editors THEN "commit" ELSE "notify")
    /\ UNCHANGED <<status, copy, locked>>
    /\ Unchanged

\* NewStatusNotification <- ..., an unbuffered channel: a rendezvous.
Notify(c) ==
    /\ step[c] = "notify"
    /\ consumer = "idle"
    /\ consumer' = "sending"
    /\ notified' = notified \cup {status[c].Time}
    /\ GoTo(c, "commit")
    /\ UNCHANGED <<now, rows, status, copy, locked, uncommitted>>

SentNotification ==
    /\ consumer = "sending"
    /\ consumer' = "idle"
    /\ UNCHANGED <<now, rows, step, status, copy, locked, notified, uncommitted>>

\* The whole row replaces whatever is there.
Replace(ds, new) == {d \in ds : \A e \in new : e.UStartTime # d.UStartTime} \cup new

Commit(c) ==
    /\ step[c] = "commit"
    /\ rows' = [log |-> rows.log \cup ({status[c]} \ {NoStatus}),
                disturbances |-> Replace(rows.disturbances, copy[c])]
    /\ End(c)
    /\ UNCHANGED <<now, consumer, notified, uncommitted>>

FailCommit(c) ==
    /\ step[c] = "commit"
    /\ uncommitted' = uncommitted \cup {s.Time : s \in {status[c]} \ {NoStatus}}
    /\ End(c)
    /\ UNCHANGED <<now, rows, consumer, notified>>

StatementsAfterNotify == Steps \ {"idle", "notify"}                   \* (mutant)

\* The steps that are statements, which can fail; the others run no SQL.
Statements == {"last", "insert", "ongoing", "statuses", "row", "links"}

\* A statement fails, for instance because the connection is lost: the
\* transaction is rolled back and the call gives up. Nobody tries again.
FailStatement(c) ==
    /\ step[c] \in Statements
    /\ End(c)
    /\ Unchanged

\* PostgreSQL makes a statement on a cycle fail.
BreakDeadlock(c) == Deadlocked(c) /\ FailStatement(c)

Statement(c) ==
    \/ ReadLastStatus(c)
    \/ InsertStatus(c)
    \/ ReadOngoing(c)
    \/ ReadStatuses(c)
    \/ UpdateRow(c)
    \/ UpdateLink(c)
    \/ Updated(c)
    \/ Notify(c)
    \/ Commit(c)

Next ==
    \/ \E c \in Threads, isDowntime \in BOOLEAN, text \in Texts : Begin(c, isDowntime, text)
    \/ \E c \in Editors : \E d \in rows.disturbances : ReadPage(c, d)
    \/ \E c \in Calls : Statement(c)
    \/ \E c \in Calls : FailStatement(c) \/ FailCommit(c)
    \/ SentNotification

\* A call goes on when it can, the consumer comes back for the next
\* notification, and PostgreSQL finds the deadlocks; no call has to begin.
Fairness ==
    /\ \A c \in Calls : WF_vars(Statement(c)) /\ WF_vars(BreakDeadlock(c))
    /\ WF_vars(SentNotification)

Spec == Init /\ [][Next]_vars

FairSpec == Spec /\ Fairness

-----------------------------------------------------------------------------
\* The committed rows and what each call has in hand have their types: a call
\* has a row locked only with a disturbance in memory, and holds no lock when
\* it is over.
TypeOK ==
    /\ now \in Nat
    /\ rows \in LineRows
    /\ step \in [Calls -> Steps]
    /\ status \in [Calls -> Status \cup {NoStatus}]
    /\ copy \in [Calls -> SUBSET Disturbance]
    /\ locked \in [Calls -> SUBSET Sources]
    /\ consumer \in {"idle", "sending"}
    /\ notified \cup uncommitted \subseteq Nat
    /\ \A c \in Calls : step[c] = "idle" => locked[c] = {}
    /\ \A c \in Calls : HasRow(c) /\ step[c] # "commit" => copy[c] # {}

\* "There can only be one ongoing disturbance per line at a time"
\* (compute/reports.go:204).
AtMostOneOngoing == OneOpen(rows.disturbances)

\* No update is lost between calls of one source that overlap: a commit records
\* its status and does to the disturbances what AddStatus's rules say of them as
\* they are then, not as they were when the call began. Nothing in AddStatus
\* asks for this; the row of the source, which Status.Update rewrites, is what
\* makes the second call wait before it reads the ongoing disturbances. The
\* latest status is read before: two calls that overlap with the same status
\* both pass the duplicate rule and both record it, so that the calls are not
\* serial as a whole.
CommitsAreCurrent ==
    [][\/ rows' = rows
       \/ \E s \in {status[c] : c \in Threads} :
              /\ rows'.log = rows.log \cup {s}
              /\ rows'.disturbances = DisturbancesAfter(rows.disturbances, s)]_vars

\* AddStatus notifies from inside the transaction: the status of a notification
\* is committed, or about to be, unless the commit itself fails. No error of
\* AddStatus and no deadlock comes after the notification.
NotifiedIsCommitted ==
    \A t \in notified :
        \/ \E s \in rows.log : s.Time = t
        \/ t \in uncommitted
        \/ \E c \in Threads : step[c] = "commit" /\ status[c].Time = t

\* Every call returns, although calls wait for each other's rows in orders that
\* can be opposite, and for the one consumer while they hold the locks.
EveryCallReturns == \A c \in Calls : step[c] # "idle" ~> step[c] = "idle"
=============================================================================

---------------------- MODULE StatusTransactionsProofs ----------------------
(***************************************************************************)
(* For any number of calls of handleNewStatus that overlap, statement by   *)
(* statement: their data keep their types, a status that was notified is   *)
(* committed unless the commit fails, and calls of one source commit as    *)
(* if one at a time, hence leave at most one disturbance ongoing.          *)
(***************************************************************************)
EXTENDS StatusTransactions, WellFoundedInduction, TLAPS

-----------------------------------------------------------------------------
(***************************************************************************)
(* What AddStatus's choices and rules return.                              *)
(***************************************************************************)
\* A set of natural numbers has a least one.
LEMMA LeastExists ==
    ASSUME NEW T \in SUBSET Nat, T # {}
    PROVE  \E x \in T : \A y \in T : x <= y
<1>. DEFINE Less == {pair \in Nat \X Nat : pair[1] < pair[2]}
<1>1. IsWellFoundedOn(Less, Nat)
  BY NatLessThanWellFounded DEF OpToRel
<1>2. \A x, y \in Nat : ~(<<y, x>> \in Less) => x <= y
  OBVIOUS
<1>. HIDE DEF Less
<1>3. \E x \in T : \A y \in T : ~(<<y, x>> \in Less)
  <2>. T \subseteq Nat
    OBVIOUS
  <2>. QED
    BY <1>1, WFMin, Zenon
<1>4. PICK x \in T : \A y \in T : ~(<<y, x>> \in Less)
  BY <1>3
<1>5. \A y \in T : x <= y
  BY <1>2, <1>4
<1>. QED
  BY <1>5

\* ongoing[len(ongoing)-1] (types/line.go AddStatus) is one of the ongoing
\* disturbances: the rows have starts, and none is later than the present.
LEMMA LatestStartedExists ==
    ASSUME NEW ds \in SUBSET Disturbance, ds # {},
           NEW n \in Nat, \A d \in ds : d.UStartTime <= n
    PROVE  LatestStarted(ds) \in ds
<1>. DEFINE ages == {n - d.UStartTime : d \in ds}
<1>1. \A d \in ds : d.UStartTime \in Nat /\ n - d.UStartTime \in Nat
  BY DEF Disturbance
<1>2. ages \in SUBSET Nat /\ ages # {}
  BY <1>1
<1>3. PICK x \in ages : \A y \in ages : x <= y
  <2>. HIDE DEF ages
  <2>. QED
    BY <1>2, LeastExists
<1>4. PICK d \in ds : x = n - d.UStartTime
  BY <1>3
<1>5. \A e \in ds : e.UStartTime <= d.UStartTime
  <2>. TAKE e \in ds
  <2>1. x <= n - e.UStartTime
    BY <1>3
  <2>. QED
    BY <1>1, <1>4, <2>1
<1>. QED
  BY <1>4, <1>5 DEF LatestStarted

\* The earliest of some statuses exists: Disturbance.Update has a next one to
\* upsert as long as there is one.
LEMMA EarliestExists ==
    ASSUME NEW S \in SUBSET Status, S # {}
    PROVE  (CHOOSE s \in S : \A r \in S : s.Time <= r.Time) \in S
<1>. DEFINE times == {s.Time : s \in S}
<1>1. times \in SUBSET Nat /\ times # {}
  BY DEF Status
<1>2. PICK x \in times : \A y \in times : x <= y
  <2>. HIDE DEF times
  <2>. QED
    BY <1>1, LeastExists
<1>3. \E s \in S : \A r \in S : s.Time <= r.Time
  BY <1>2
<1>. QED
  BY <1>3

\* An amended disturbance is one, with the start it had.
LEMMA AmendFacts ==
    ASSUME NEW d \in Disturbance, NEW s \in Status
    PROVE  Amend(d, s) \in Disturbance /\ Amend(d, s).UStartTime = d.UStartTime
<1>. DEFINE With(c) == [c EXCEPT !.Statuses = @ \cup {s.Time}]
<1>. DEFINE OEnd == IF d.Official THEN s.Time ELSE d.OEndTime
<1>. DEFINE Closed == [d EXCEPT !.OEndTime = OEnd, !.OEnded = d.Official,
                                !.UEndTime = s.Time, !.UEnded = TRUE]
<1>1. /\ s.IsDowntime \in BOOLEAN /\ s.Time \in Nat \ {0}
      /\ d.Official \in BOOLEAN /\ OEnd \in Nat
  BY DEF Status, Disturbance
<1>2. ASSUME NEW c \in Disturbance
      PROVE  With(c) \in Disturbance /\ With(c).UStartTime = c.UStartTime
  BY <1>1 DEF Disturbance
<1>3. MakeOfficial(d, s) \in Disturbance /\ MakeOfficial(d, s).UStartTime = d.UStartTime
  BY <1>1 DEF MakeOfficial, Disturbance
<1>4. Closed \in Disturbance /\ Closed.UStartTime = d.UStartTime
  <2>. HIDE DEF OEnd
  <2>. QED
    BY <1>1 DEF Disturbance
<1>5. Close(d, s) \in {d, Closed}
  BY DEF Close
<1>6. \E c \in Disturbance : c.UStartTime = d.UStartTime /\ Amend(d, s) = With(c)
  <2>. HIDE DEF Closed
  <2>. QED
    BY <1>3, <1>4, <1>5 DEF Amend
<1>. HIDE DEF With
<1>. QED
  BY <1>2, <1>6

\* A disturbance that a status opens.
LEMMA OpenFacts ==
    ASSUME NEW s \in Status
    PROVE  Open(s) \in Disturbance /\ Open(s).UStartTime = s.Time
BY DEF Open, Status, Disturbance, IsOfficial

-----------------------------------------------------------------------------
(***************************************************************************)
(* Types, for any sources and with administrators.                         *)
(***************************************************************************)
\* What a call has in hand at each statement: a status, unless it is an
\* administrator's, and from the moment it writes a row a disturbance, neither
\* later than the clock.
InHand ==
    /\ \A c \in Calls : step[c] = "row" => copy[c] # {}
    /\ \A c \in Calls : step[c] \in {"last", "insert", "ongoing", "notify"} => c \in Threads
    /\ \A c \in Threads : step[c] # "idle" => status[c] \in Status /\ status[c].Time <= now
    /\ \A d \in rows.disturbances : d.UStartTime <= now
    /\ \A c \in Calls : \A d \in copy[c] : d.UStartTime <= now

TInv == TypeOK /\ InHand

LEMMA TInvInit == Init => TInv
BY TransactionsAssumption
   DEF Init, TInv, TypeOK, InHand, LineRows, NoRows, Steps, HasRow, Calls

\* A status that a thread stamps.
LEMMA StampFacts ==
    ASSUME TInv, NEW c \in Threads, NEW isDowntime \in BOOLEAN, NEW text \in Texts
    PROVE  [Time |-> now + 1, IsDowntime |-> isDowntime, Status |-> text,
            Source |-> SourceOf[c]] \in Status
BY TransactionsAssumption DEF TInv, TypeOK, Status

LEMMA TInvBegin ==
    ASSUME TInv, NEW c \in Threads, NEW isDowntime \in BOOLEAN, NEW text \in Texts,
           Begin(c, isDowntime, text)
    PROVE  TInv'
<1>. DEFINE s == [Time |-> now + 1, IsDowntime |-> isDowntime, Status |-> text,
                  Source |-> SourceOf[c]]
<1>1. s \in Status /\ s.Time = now + 1
  BY StampFacts
<1>2. now \in Nat /\ now' = now + 1 /\ status' = [status EXCEPT ![c] = s]
  BY DEF TInv, TypeOK, Begin
<1>. HIDE DEF s
<1>3. TypeOK'
  BY <1>1, <1>2 DEF TInv, TypeOK, Begin, GoTo, Calls, Steps, HasRow
<1>4. \A n \in Nat : n <= now => n <= now'
  BY <1>2
<1>5. InHand'
  <2>1. \A d \in Disturbance : d.UStartTime \in Nat
    BY DEF Disturbance
  <2>2. rows.disturbances \subseteq Disturbance /\ \A d \in Calls : copy[d] \subseteq Disturbance
    BY DEF TInv, TypeOK, LineRows
  <2>3. \A d \in Threads : status'[d] \in Status /\ status[d] \in Status => status[d].Time \in Nat
    BY DEF Status
  <2>. QED
    BY <1>1, <1>2, <1>4, <2>1, <2>2, <2>3 DEF TInv, TypeOK, InHand, Begin, GoTo, Calls, Steps
<1>. QED
  BY <1>3, <1>5 DEF TInv

\* The end of a transaction that writes nothing.
LEMMA TInvEnd ==
    ASSUME TInv, NEW c \in Calls, End(c), UNCHANGED <<now, rows>>,
           consumer' = consumer, notified' = notified, uncommitted' \subseteq Nat
    PROVE  TInv'
<1>1. TypeOK'
  BY DEF TInv, TypeOK, End, GoTo, Unlock, Steps, HasRow
<1>2. InHand'
  BY DEF TInv, TypeOK, InHand, End, GoTo, Calls
<1>. QED
  BY <1>1, <1>2 DEF TInv

LEMMA TInvStatement ==
    ASSUME TInv, NEW c \in Calls, Statement(c)
    PROVE  TInv'
<1>. USE DEF TInv
<1>0. /\ now \in Nat /\ rows.disturbances \subseteq Disturbance /\ rows.log \subseteq Status
      /\ \A d \in Calls : copy[d] \subseteq Disturbance
  BY DEF TypeOK, LineRows
<1>1. CASE ReadLastStatus(c)
  <2>1. CASE End(c)
    BY <1>1, <2>1, TInvEnd DEF ReadLastStatus, Unchanged, TypeOK
  <2>2. CASE GoTo(c, "insert") /\ UNCHANGED <<status, copy, locked>>
    BY <1>1, <2>2 DEF ReadLastStatus, Unchanged, GoTo, TypeOK, InHand, Steps, HasRow, Calls
  <2>. QED
    BY <1>1, <2>1, <2>2 DEF ReadLastStatus
<1>2. CASE InsertStatus(c)
  <2>1. c \in Threads /\ status[c].Source \in Sources
    BY <1>2 DEF InHand, InsertStatus, Status
  <2>. QED
    BY <1>2, <2>1 DEF InsertStatus, Unchanged, GoTo, TypeOK, InHand, Steps, HasRow, Calls
<1>3. CASE ReadOngoing(c)
  <2>. DEFINE ongoing == OngoingDisturbances(rows.disturbances)
  <2>1. c \in Threads /\ status[c] \in Status /\ status[c].Time <= now
    BY <1>3 DEF InHand, ReadOngoing
  <2>2. ASSUME ongoing # {}
        PROVE  LatestStarted(ongoing) \in ongoing
    <3>1. ongoing \in SUBSET Disturbance /\ \A d \in ongoing : d.UStartTime <= now
      BY <1>0 DEF OngoingDisturbances, InHand
    <3>. QED
      BY <1>0, <2>2, <3>1, LatestStartedExists
  <2>3. ongoing \subseteq rows.disturbances
    BY DEF OngoingDisturbances
  <2>4. PICK held \in SUBSET Disturbance :
            /\ copy' = [copy EXCEPT ![c] = held]
            /\ step' \in {[step EXCEPT ![c] = "statuses"], [step EXCEPT ![c] = "row"],
                          [step EXCEPT ![c] = "commit"]}
            /\ step'[c] = "row" => held # {}
            /\ \A d \in held : d.UStartTime <= now
    <3>1. CASE ongoing # {}
      <4>1. /\ {LatestStarted(ongoing)} \in SUBSET Disturbance
            /\ \A d \in {LatestStarted(ongoing)} : d.UStartTime <= now
        BY <1>0, <2>2, <2>3, <3>1 DEF InHand
      <4>2. /\ copy' = [copy EXCEPT ![c] = {LatestStarted(ongoing)}]
            /\ step' = [step EXCEPT ![c] = "statuses"]
        BY <1>3, <3>1 DEF ReadOngoing, GoTo
      <4>. HIDE DEF ongoing
      <4>. QED
        BY <4>1, <4>2 DEF TypeOK
    <3>2. CASE ongoing = {} /\ status[c].IsDowntime
      <4>1. {Open(status[c])} \in SUBSET Disturbance /\ Open(status[c]).UStartTime <= now
        BY <2>1, OpenFacts
      <4>2. /\ copy' = [copy EXCEPT ![c] = {Open(status[c])}]
            /\ step' = [step EXCEPT ![c] = "row"]
        BY <1>3, <3>2 DEF ReadOngoing, GoTo
      <4>. QED
        BY <4>1, <4>2
    <3>3. CASE ongoing = {} /\ ~status[c].IsDowntime
      <4>1. copy' = [copy EXCEPT ![c] = {}] /\ step' = [step EXCEPT ![c] = "commit"]
        BY <1>3, <3>3 DEF ReadOngoing, GoTo
      <4>. QED
        BY <4>1 DEF TypeOK
    <3>. QED
      BY <3>1, <3>2, <3>3
  <2>5. UNCHANGED <<now, rows, consumer, notified, uncommitted, status, locked>>
    BY <1>3 DEF ReadOngoing, Unchanged
  <2>6. TypeOK'
    BY <2>4, <2>5, <1>3 DEF ReadOngoing, TypeOK, Steps, HasRow
  <2>7. InHand'
    BY <2>1, <2>4, <2>5 DEF TypeOK, InHand, Calls
  <2>. QED
    BY <2>6, <2>7
<1>4. CASE ReadStatuses(c)
  <2>1. PICK x \in copy[c] :
            LET d == WithStatuses(x) IN
            IF c \in Editors
            THEN GoTo(c, "row") /\ copy' = [copy EXCEPT ![c] = {d}]
            ELSE IF Ignores(d, status[c])
            THEN GoTo(c, "commit") /\ copy' = [copy EXCEPT ![c] = {}]
            ELSE GoTo(c, "row") /\ copy' = [copy EXCEPT ![c] = {Amend(d, status[c])}]
    BY <1>4 DEF ReadStatuses
  <2>. DEFINE d == WithStatuses(x)
  <2>2. d \in Disturbance /\ d.UStartTime <= now
    <3>. DEFINE all == UNION {e.Statuses : e \in {e \in rows.disturbances : e.UStartTime = x.UStartTime}}
    <3>1. all \in SUBSET (Nat \ {0}) /\ x \in Disturbance /\ x.UStartTime <= now
      BY <1>0 DEF Disturbance, InHand
    <3>2. d = [x EXCEPT !.Statuses = all]
      BY DEF WithStatuses
    <3>. HIDE DEF all, d
    <3>. QED
      BY <3>1, <3>2 DEF Disturbance
  <2>. HIDE DEF d
  <2>3. PICK held \in SUBSET Disturbance :
            /\ copy' = [copy EXCEPT ![c] = held]
            /\ step' \in {[step EXCEPT ![c] = "row"], [step EXCEPT ![c] = "commit"]}
            /\ step'[c] = "row" => held # {}
            /\ \A e \in held : e.UStartTime <= now
    <3>1. CASE c \in Editors
      <4>1. copy' = [copy EXCEPT ![c] = {d}] /\ step' = [step EXCEPT ![c] = "row"]
        BY <2>1, <3>1 DEF GoTo, d
      <4>2. {d} \in SUBSET Disturbance /\ \A e \in {d} : e.UStartTime <= now
        BY <2>2
      <4>. QED
        BY <4>1, <4>2
    <3>2. CASE c \notin Editors /\ Ignores(d, status[c])
      <4>1. copy' = [copy EXCEPT ![c] = {}] /\ step' = [step EXCEPT ![c] = "commit"]
        BY <2>1, <3>2 DEF GoTo, d
      <4>. QED
        BY <4>1 DEF TypeOK
    <3>3. CASE c \notin Editors /\ ~Ignores(d, status[c])
      <4>1. status[c] \in Status
        BY <1>4, <3>3 DEF InHand, Calls, ReadStatuses
      <4>2. /\ {Amend(d, status[c])} \in SUBSET Disturbance
            /\ \A e \in {Amend(d, status[c])} : e.UStartTime <= now
        BY <2>2, <4>1, AmendFacts
      <4>3. /\ copy' = [copy EXCEPT ![c] = {Amend(d, status[c])}]
            /\ step' = [step EXCEPT ![c] = "row"]
        BY <2>1, <3>3 DEF GoTo, d
      <4>. QED
        BY <4>2, <4>3
    <3>. QED
      BY <3>1, <3>2, <3>3
  <2>4. UNCHANGED <<now, rows, consumer, notified, uncommitted, status, locked>>
    BY <1>4 DEF ReadStatuses, Unchanged
  <2>5. TypeOK'
    BY <1>4, <2>3, <2>4 DEF ReadStatuses, TypeOK, Steps, HasRow
  <2>6. InHand'
    BY <1>4, <2>3, <2>4 DEF ReadStatuses, TypeOK, InHand, Calls
  <2>. QED
    BY <2>5, <2>6
<1>5. CASE UpdateRow(c)
  BY <1>5 DEF UpdateRow, Unchanged, GoTo, TypeOK, InHand, Steps, HasRow, Calls
<1>6. CASE UpdateLink(c)
  <2>1. ToUpsert(c) \in SUBSET Status
    BY <1>0 DEF ToUpsert, Linked
  <2>2. NextSource(c) \in Sources
    <3>1. (CHOOSE s \in ToUpsert(c) : \A r \in ToUpsert(c) : s.Time <= r.Time) \in ToUpsert(c)
      BY <1>6, <2>1, EarliestExists DEF UpdateLink
    <3>. QED
      BY <2>1, <3>1 DEF NextSource, Status
  <2>. QED
    BY <1>6, <2>2 DEF UpdateLink, Unchanged, TypeOK, InHand, HasRow, Calls
<1>7. CASE Updated(c)
  BY <1>7 DEF Updated, Unchanged, GoTo, TypeOK, InHand, Steps, HasRow, Calls
<1>8. CASE Notify(c)
  <2>1. status[c].Time \in Nat
    BY <1>8 DEF Notify, InHand, Status
  <2>. QED
    BY <1>8, <2>1 DEF Notify, GoTo, TypeOK, InHand, Steps, HasRow, Calls
<1>9. CASE Commit(c)
  <2>. DEFINE log == rows.log \cup ({status[c]} \ {NoStatus})
              ds == Replace(rows.disturbances, copy[c])
  <2>1. log \subseteq Status /\ ds \subseteq Disturbance
    BY <1>0, <1>9 DEF Commit, TypeOK, Replace
  <2>2. \A d \in ds : d.UStartTime <= now
    BY DEF InHand, Replace
  <2>3. rows' = [log |-> log, disturbances |-> ds]
    BY <1>9 DEF Commit
  <2>. HIDE DEF log, ds
  <2>4. rows' \in LineRows /\ rows'.disturbances = ds
    BY <2>1, <2>3 DEF LineRows
  <2>5. UNCHANGED <<now, consumer, notified, uncommitted>> /\ End(c)
    BY <1>9 DEF Commit
  <2>6. TypeOK'
    BY <2>4, <2>5 DEF TypeOK, End, GoTo, Unlock, Steps, HasRow
  <2>7. InHand'
    BY <2>2, <2>4, <2>5 DEF TypeOK, InHand, End, GoTo, Calls
  <2>. QED
    BY <2>6, <2>7
<1>. QED
  BY <1>1, <1>2, <1>3, <1>4, <1>5, <1>6, <1>7, <1>8, <1>9 DEF Statement

LEMMA TInvStep ==
    ASSUME TInv, [Next]_vars
    PROVE  TInv'
<1>1. ASSUME NEW c \in Threads, NEW isDowntime \in BOOLEAN, NEW text \in Texts,
             Begin(c, isDowntime, text)
      PROVE  TInv'
  BY <1>1, TInvBegin
<1>2. ASSUME NEW c \in Editors, NEW d \in rows.disturbances, ReadPage(c, d)
      PROVE  TInv'
  <2>1. now \in Nat /\ now' = now + 1 /\ d \in Disturbance /\ d.UStartTime \in Nat
    BY <1>2 DEF ReadPage, TInv, TypeOK, LineRows, Disturbance
  <2>2. TypeOK'
    BY <1>2, <2>1 DEF ReadPage, GoTo, TInv, TypeOK, Steps, HasRow, Calls
  <2>3. \A e \in Calls : \A f \in copy[e] : f.UStartTime \in Nat
    BY DEF TInv, TypeOK, Disturbance
  <2>4. \A e \in rows.disturbances : e.UStartTime \in Nat
    BY DEF TInv, TypeOK, LineRows, Disturbance
  <2>5. \A s \in Status : s.Time \in Nat
    BY DEF Status
  <2>6. c \notin Threads
    BY TransactionsAssumption
  <2>7. InHand'
    <3>1. \A e \in Calls : step'[e] = IF e = c THEN "statuses" ELSE step[e]
      BY <1>2 DEF ReadPage, GoTo, TInv, TypeOK, Calls
    <3>2. \A e \in Calls : copy'[e] = IF e = c THEN {d} ELSE copy[e]
      BY <1>2 DEF ReadPage, TInv, TypeOK, Calls
    <3>3. UNCHANGED <<rows, status>>
      BY <1>2 DEF ReadPage
    <3>4. \A n \in Nat : n <= now => n <= now'
      BY <2>1
    <3>. QED
      BY <2>1, <2>3, <2>4, <2>5, <2>6, <3>1, <3>2, <3>3, <3>4 DEF TInv, InHand, Calls
  <2>. QED
    BY <2>2, <2>7 DEF TInv
<1>3. ASSUME NEW c \in Calls, Statement(c)
      PROVE  TInv'
  BY <1>3, TInvStatement
<1>4. ASSUME NEW c \in Calls, FailStatement(c)
      PROVE  TInv'
  BY <1>4, TInvEnd DEF FailStatement, Unchanged, TInv, TypeOK
<1>5. ASSUME NEW c \in Calls, FailCommit(c)
      PROVE  TInv'
  <2>1. uncommitted' \subseteq Nat
    BY <1>5 DEF FailCommit, TInv, TypeOK, Status
  <2>. QED
    BY <1>5, <2>1, TInvEnd DEF FailCommit
<1>6. CASE SentNotification
  BY <1>6 DEF SentNotification, TInv, TypeOK, InHand, HasRow
<1>7. CASE UNCHANGED vars
  BY <1>7 DEF vars, TInv, TypeOK, InHand, HasRow
<1>. QED
  BY <1>1, <1>2, <1>3, <1>4, <1>5, <1>6, <1>7 DEF Next

\* The rows and what each call has in hand have their types, for any calls.
THEOREM TransactionsTypeCorrect == Spec => []TypeOK
<1>1. Init => TInv
  BY TInvInit
<1>2. TInv /\ [Next]_vars => TInv'
  BY TInvStep
<1>3. TInv => TypeOK
  BY DEF TInv
<1>. QED
  BY <1>1, <1>2, <1>3, PTL DEF Spec

-----------------------------------------------------------------------------
(***************************************************************************)
(* Notifications.                                                          *)
(***************************************************************************)
\* A step that ends no transaction in its commit leaves the property alone.
LEMMA NotifiedKept ==
    ASSUME NotifiedIsCommitted, UNCHANGED <<rows, notified, uncommitted>>,
           \A c \in Threads :
               step[c] = "commit" => step'[c] = "commit" /\ status'[c] = status[c]
    PROVE  NotifiedIsCommitted'
BY DEF NotifiedIsCommitted

LEMMA NotifiedStep ==
    ASSUME TInv, NotifiedIsCommitted, [Next]_vars
    PROVE  NotifiedIsCommitted'
<1>. USE DEF TInv
<1>0. /\ step \in [Calls -> Steps] /\ status \in [Calls -> Status \cup {NoStatus}]
      /\ Threads \subseteq Calls
  BY DEF TypeOK, Calls
<1>1. ASSUME NEW c \in Threads, NEW isDowntime \in BOOLEAN, NEW text \in Texts,
             Begin(c, isDowntime, text)
      PROVE  NotifiedIsCommitted'
  BY <1>0, <1>1, NotifiedKept DEF Begin, GoTo
<1>2. ASSUME NEW c \in Editors, NEW d \in rows.disturbances, ReadPage(c, d)
      PROVE  NotifiedIsCommitted'
  BY <1>0, <1>2, NotifiedKept DEF ReadPage, GoTo
<1>3. ASSUME NEW c \in Calls, step[c] # "commit", UNCHANGED <<rows, notified, uncommitted>>,
             End(c) \/ (status' = status /\ \E next \in Steps : GoTo(c, next))
      PROVE  NotifiedIsCommitted'
  BY <1>0, <1>3, NotifiedKept DEF End, GoTo
<1>4. ASSUME NEW c \in Calls, Statement(c)
      PROVE  NotifiedIsCommitted'
  <2>1. CASE ReadLastStatus(c)
    BY <1>3, <2>1 DEF ReadLastStatus, Unchanged, Steps
  <2>2. CASE InsertStatus(c)
    BY <1>3, <2>2 DEF InsertStatus, Unchanged, Steps
  <2>3. CASE ReadOngoing(c)
    <3>1. \E next \in Steps : GoTo(c, next)
      BY <2>3 DEF ReadOngoing, Steps
    <3>. QED
      BY <1>3, <2>3, <3>1 DEF ReadOngoing, Unchanged
  <2>4. CASE ReadStatuses(c)
    <3>1. \E next \in Steps : GoTo(c, next)
      BY <2>4 DEF ReadStatuses, Steps
    <3>. QED
      BY <1>3, <2>4, <3>1 DEF ReadStatuses, Unchanged
  <2>5. CASE UpdateRow(c)
    BY <1>3, <2>5 DEF UpdateRow, Unchanged, Steps
  <2>6. CASE UpdateLink(c)
    BY <2>6, NotifiedKept DEF UpdateLink, Unchanged
  <2>7. CASE Updated(c)
    BY <1>3, <2>7 DEF Updated, Unchanged, Steps
  <2>8. CASE Notify(c)
    <3>1. c \in Threads /\ step'[c] = "commit" /\ status'[c] = status[c]
      BY <1>0, <2>8 DEF Notify, GoTo, InHand
    <3>2. \A e \in Threads : step[e] = "commit" => step'[e] = "commit" /\ status'[e] = status[e]
      BY <1>0, <2>8 DEF Notify, GoTo
    <3>3. UNCHANGED <<rows, uncommitted>> /\ notified' = notified \cup {status[c].Time}
      BY <2>8 DEF Notify
    <3>. QED
      BY <3>1, <3>2, <3>3 DEF NotifiedIsCommitted
  <2>9. CASE Commit(c)
    <3>1. UNCHANGED <<notified, uncommitted>>
      BY <2>9 DEF Commit
    <3>2. rows.log \subseteq rows'.log
      BY <2>9 DEF Commit
    <3>3. c \in Threads => status[c] \in rows'.log
      BY <2>9, TransactionsAssumption DEF Commit, InHand
    <3>4. \A e \in Threads \ {c} : step'[e] = step[e] /\ status'[e] = status[e]
      BY <1>0, <2>9 DEF Commit, End, GoTo
    <3>. QED
      BY <3>1, <3>2, <3>3, <3>4 DEF NotifiedIsCommitted
  <2>. QED
    BY <1>4, <2>1, <2>2, <2>3, <2>4, <2>5, <2>6, <2>7, <2>8, <2>9 DEF Statement
<1>5. ASSUME NEW c \in Calls, FailStatement(c)
      PROVE  NotifiedIsCommitted'
  BY <1>3, <1>5 DEF FailStatement, Statements, Unchanged
<1>6. ASSUME NEW c \in Calls, FailCommit(c)
      PROVE  NotifiedIsCommitted'
  <2>1. UNCHANGED <<rows, notified>> /\ uncommitted \subseteq uncommitted'
    BY <1>6 DEF FailCommit
  <2>2. c \in Threads => status[c].Time \in uncommitted'
    BY <1>6, TransactionsAssumption DEF FailCommit, InHand
  <2>3. \A e \in Threads \ {c} : step'[e] = step[e] /\ status'[e] = status[e]
    BY <1>0, <1>6 DEF FailCommit, End, GoTo
  <2>. QED
    BY <2>1, <2>2, <2>3 DEF NotifiedIsCommitted
<1>7. CASE SentNotification
  BY <1>7, NotifiedKept DEF SentNotification
<1>8. CASE UNCHANGED vars
  BY <1>8, NotifiedKept DEF vars
<1>. QED
  BY <1>1, <1>2, <1>4, <1>5, <1>6, <1>7, <1>8 DEF Next

\* Whoever else adds statuses or edits notes: AddStatus notifies inside its
\* transaction, but nothing after the notification can fail except the commit.
THEOREM NotificationsCommitted == Spec => []NotifiedIsCommitted
<1>1. Init => TInv /\ NotifiedIsCommitted
  BY TInvInit DEF Init, NotifiedIsCommitted
<1>2. TInv /\ NotifiedIsCommitted /\ [Next]_vars => TInv' /\ NotifiedIsCommitted'
  BY TInvStep, NotifiedStep
<1>. QED
  BY <1>1, <1>2, PTL DEF Spec

-----------------------------------------------------------------------------
(***************************************************************************)
(* Threads of one source, and no administrator who saves notes: what the   *)
(* lock of the source's row buys.                                          *)
(***************************************************************************)
OneSource == Editors = {} /\ \A c, e \in Threads : SourceOf[c] = SourceOf[e]

\* The statements after Status.Update has locked the source's row.
Holding == {"ongoing", "statuses", "row", "links", "notify", "commit"}

\* From that statement on a thread is alone.
Exclusive ==
    /\ \A c \in Threads :
           /\ locked[c] \subseteq {SourceOf[c]}
           /\ step[c] \in Holding => locked[c] = {SourceOf[c]}
           /\ step[c] # "idle" => status[c].Source = SourceOf[c]
           /\ \A s \in rows.log : s.Source = SourceOf[c]
    /\ \A c, e \in Threads : step[c] \in Holding /\ step[e] \in Holding => c = e

Keyed(ds) == \A d, e \in ds : d.UStartTime = e.UStartTime => d = e

Single(ds) == \A d, e \in ds : ~d.UEnded /\ ~e.UEnded => d = e

\* No disturbance began, and no other call was stamped, when a call was.
Fresh ==
    /\ \A c \in Threads :
           step[c] # "idle" => \A d \in rows.disturbances : d.UStartTime # status[c].Time
    /\ \A c, e \in Threads :
           step[c] # "idle" /\ step[e] # "idle" /\ c # e => status[c].Time # status[e].Time

\* The copy in memory is not stale: what is about to be written is what the
\* rules say of the rows as they are.
CopyIsCurrent ==
    \A c \in Threads :
        /\ step[c] = "statuses" =>
               copy[c] # {} /\ copy[c] = OngoingDisturbances(rows.disturbances)
        /\ step[c] \in {"row", "links", "notify", "commit"} =>
               Replace(rows.disturbances, copy[c])
                   = DisturbancesAfter(rows.disturbances, status[c])

CurrentInv ==
    /\ Exclusive
    /\ Fresh
    /\ Keyed(rows.disturbances)
    /\ AtMostOneOngoing
    /\ CopyIsCurrent

\* The choice of the last ongoing disturbance is the only one there is.
LEMMA OneToAmend ==
    ASSUME NEW ds \in SUBSET Disturbance, NEW d \in ds, OngoingDisturbances(ds) = {d},
           NEW s \in Status
    PROVE  DisturbancesAfter(ds, s)
               = IF Ignores(d, s) THEN ds ELSE (ds \ {d}) \cup {Amend(d, s)}
<1>1. d.UStartTime <= d.UStartTime
  BY DEF Disturbance
<1>2. LatestStarted({d}) = d
  BY <1>1 DEF LatestStarted
<1>. QED
  BY <1>2 DEF DisturbancesAfter

\* AddStatus keeps one row for each start and one ongoing disturbance.
LEMMA AfterFacts ==
    ASSUME NEW ds \in SUBSET Disturbance, Keyed(ds), Single(ds),
           NEW s \in Status, \A d \in ds : d.UStartTime # s.Time
    PROVE  LET after == DisturbancesAfter(ds, s)
           IN  /\ Keyed(after) /\ Single(after)
               /\ \A d \in after :
                      d.UStartTime = s.Time \/ \E e \in ds : e.UStartTime = d.UStartTime
<1>1. CASE OngoingDisturbances(ds) = {}
  <2>1. \A d \in ds : d.UEnded
    BY <1>1 DEF OngoingDisturbances
  <2>2. DisturbancesAfter(ds, s) \in {ds, ds \cup {Open(s)}}
    BY <1>1 DEF DisturbancesAfter
  <2>. QED
    BY <2>1, <2>2, OpenFacts DEF Keyed, Single
<1>2. CASE OngoingDisturbances(ds) # {}
  <2>1. PICK d \in ds : ~d.UEnded
    BY <1>2 DEF OngoingDisturbances
  <2>2. \A e \in ds : ~e.UEnded => e = d
    BY <2>1 DEF Single
  <2>3. OngoingDisturbances(ds) = {d}
    BY <2>1, <2>2 DEF OngoingDisturbances
  <2>4. DisturbancesAfter(ds, s) \in {ds, (ds \ {d}) \cup {Amend(d, s)}}
    BY <2>3, OneToAmend
  <2>5. Amend(d, s).UStartTime = d.UStartTime
    BY AmendFacts
  <2>6. CASE DisturbancesAfter(ds, s) = ds
    BY <2>6
  <2>7. CASE DisturbancesAfter(ds, s) = (ds \ {d}) \cup {Amend(d, s)}
    <3>. DEFINE amended == Amend(d, s)
    <3>. HIDE DEF amended
    <3>1. DisturbancesAfter(ds, s) = (ds \ {d}) \cup {amended} /\ amended.UStartTime = d.UStartTime
      BY <2>5, <2>7 DEF amended
    <3>. QED
      BY <2>2, <3>1 DEF Keyed, Single
  <2>. QED
    BY <2>4, <2>6, <2>7
<1>. QED
  BY <1>1, <1>2

\* A disturbance that is opened: nothing of its start is replaced.
LEMMA OpensCurrent ==
    ASSUME NEW ds \in SUBSET Disturbance, OngoingDisturbances(ds) = {},
           NEW s \in Status, \A d \in ds : d.UStartTime # s.Time
    PROVE  Replace(ds, IF s.IsDowntime THEN {Open(s)} ELSE {}) = DisturbancesAfter(ds, s)
<1>1. CASE s.IsDowntime
  <2>1. Replace(ds, {Open(s)}) = ds \cup {Open(s)}
    BY OpenFacts DEF Replace
  <2>. QED
    BY <1>1, <2>1 DEF DisturbancesAfter
<1>2. CASE ~s.IsDowntime
  <2>1. Replace(ds, {}) = ds
    BY DEF Replace
  <2>. QED
    BY <1>2, <2>1 DEF DisturbancesAfter
<1>. QED
  BY <1>1, <1>2

\* A disturbance that is amended: its row alone is replaced.
LEMMA AmendsCurrent ==
    ASSUME NEW ds \in SUBSET Disturbance, Keyed(ds),
           NEW d \in ds, OngoingDisturbances(ds) = {d}, NEW s \in Status
    PROVE  Replace(ds, IF Ignores(d, s) THEN {} ELSE {Amend(d, s)})
               = DisturbancesAfter(ds, s)
<1>1. CASE Ignores(d, s)
  <2>1. Replace(ds, {}) = ds
    BY DEF Replace
  <2>. QED
    BY <1>1, <2>1, OneToAmend
<1>2. CASE ~Ignores(d, s)
  <2>1. Amend(d, s).UStartTime = d.UStartTime
    BY AmendFacts
  <2>2. Replace(ds, {Amend(d, s)}) = (ds \ {d}) \cup {Amend(d, s)}
    BY <2>1 DEF Replace, Keyed
  <2>. QED
    BY <1>2, <2>2, OneToAmend
<1>. QED
  BY <1>1, <1>2

\* Read after the row, the statuses of a disturbance are those it has.
LEMMA SameStatuses ==
    ASSUME TInv, Keyed(rows.disturbances), NEW d \in rows.disturbances
    PROVE  WithStatuses(d) = d
<1>1. {e \in rows.disturbances : e.UStartTime = d.UStartTime} = {d}
  BY DEF Keyed
<1>2. WithStatuses(d) = [d EXCEPT !.Statuses = UNION {d.Statuses}]
  BY <1>1 DEF WithStatuses
<1>3. d \in Disturbance
  BY DEF TInv, TypeOK, LineRows
<1>. QED
  BY <1>2, <1>3 DEF Disturbance

\* A statement of the thread that holds the lock.
LEMMA CurrentMove ==
    ASSUME TInv, CurrentInv, NEW c \in Threads, NEW next \in Holding, NEW held,
           step[c] \in Holding, step' = [step EXCEPT ![c] = next],
           copy' = [copy EXCEPT ![c] = held], UNCHANGED <<rows, status, locked>>,
           next = "statuses" =>
               held # {} /\ held = OngoingDisturbances(rows.disturbances),
           next \in {"row", "links", "notify", "commit"} =>
               Replace(rows.disturbances, held)
                   = DisturbancesAfter(rows.disturbances, status[c])
    PROVE  CurrentInv'
<1>1. \A e \in Threads : /\ step'[e] = IF e = c THEN next ELSE step[e]
                         /\ copy'[e] = IF e = c THEN held ELSE copy[e]
  BY DEF TInv, TypeOK, Calls
<1>2. next # "idle" /\ step[c] # "idle"
  BY DEF Holding
<1>3. Exclusive'
  BY <1>1, <1>2 DEF CurrentInv, Exclusive
<1>4. Fresh'
  BY <1>1, <1>2 DEF CurrentInv, Fresh
<1>5. Keyed(rows.disturbances)' /\ AtMostOneOngoing'
  BY DEF CurrentInv, AtMostOneOngoing, OneOpen, Keyed
<1>6. CopyIsCurrent'
  BY <1>1 DEF CurrentInv, CopyIsCurrent
<1>. QED
  BY <1>3, <1>4, <1>5, <1>6 DEF CurrentInv

\* The end of a transaction that writes nothing.
LEMMA CurrentEnd ==
    ASSUME TInv, CurrentInv, NEW c \in Threads, End(c), UNCHANGED rows
    PROVE  CurrentInv'
<1>1. \A e \in Threads : /\ step'[e] = IF e = c THEN "idle" ELSE step[e]
                         /\ locked'[e] = IF e = c THEN {} ELSE locked[e]
                         /\ copy'[e] = IF e = c THEN {} ELSE copy[e]
                         /\ status'[e] = IF e = c THEN NoStatus ELSE status[e]
  BY DEF TInv, TypeOK, Calls, End, GoTo, Unlock
<1>2. Exclusive'
  BY <1>1 DEF CurrentInv, Exclusive, Holding
<1>3. Fresh'
  BY <1>1 DEF CurrentInv, Fresh
<1>4. Keyed(rows.disturbances)' /\ AtMostOneOngoing'
  BY DEF CurrentInv, AtMostOneOngoing, OneOpen, Keyed
<1>5. CopyIsCurrent'
  BY <1>1 DEF CurrentInv, CopyIsCurrent
<1>. QED
  BY <1>2, <1>3, <1>4, <1>5 DEF CurrentInv

LEMMA CurrentBegin ==
    ASSUME TInv, CurrentInv, NEW c \in Threads, NEW isDowntime \in BOOLEAN,
           NEW text \in Texts, Begin(c, isDowntime, text)
    PROVE  CurrentInv'
<1>. DEFINE s == [Time |-> now + 1, IsDowntime |-> isDowntime, Status |-> text,
                  Source |-> SourceOf[c]]
<1>1. s.Time = now + 1 /\ s.Source = SourceOf[c]
  OBVIOUS
<1>2. status' = [status EXCEPT ![c] = s] /\ UNCHANGED <<rows, copy, locked>>
  BY DEF Begin
<1>. HIDE DEF s
<1>3. \A e \in Threads : /\ step'[e] = IF e = c THEN "last" ELSE step[e]
                         /\ status'[e] = IF e = c THEN s ELSE status[e]
  BY <1>2 DEF TInv, TypeOK, Calls, Begin, GoTo
<1>4. Exclusive'
  BY <1>1, <1>2, <1>3 DEF CurrentInv, Exclusive, Holding
<1>5. Fresh'
  <2>1. now \in Nat /\ \A d \in rows.disturbances : d.UStartTime \in Nat /\ d.UStartTime <= now
    BY DEF TInv, TypeOK, InHand, LineRows, Disturbance
  <2>2. \A e \in Threads : step[e] # "idle" => status[e].Time \in Nat /\ status[e].Time <= now
    BY DEF TInv, InHand, Status
  <2>3. \A d \in rows.disturbances : d.UStartTime # s.Time
    BY <1>1, <2>1
  <2>4. \A e \in Threads : step[e] # "idle" => status[e].Time # s.Time
    BY <1>1, <2>1, <2>2
  <2>. QED
    BY <1>2, <1>3, <2>3, <2>4 DEF CurrentInv, Fresh
<1>6. Keyed(rows.disturbances)' /\ AtMostOneOngoing'
  BY <1>2 DEF CurrentInv, AtMostOneOngoing, OneOpen, Keyed
<1>7. CopyIsCurrent'
  BY <1>2, <1>3 DEF CurrentInv, CopyIsCurrent
<1>. QED
  BY <1>4, <1>5, <1>6, <1>7 DEF CurrentInv

\* What a thread commits is what the rules say of the rows as they are.
LEMMA CommitIsCurrent ==
    ASSUME TInv, CurrentInv, NEW c \in Threads, Commit(c)
    PROVE  /\ rows'.log = rows.log \cup {status[c]}
           /\ rows'.disturbances = DisturbancesAfter(rows.disturbances, status[c])
<1>1. status[c] # NoStatus
  BY TransactionsAssumption DEF TInv, InHand, Commit
<1>2. Replace(rows.disturbances, copy[c]) = DisturbancesAfter(rows.disturbances, status[c])
  BY DEF CurrentInv, CopyIsCurrent, Commit
<1>. QED
  BY <1>1, <1>2 DEF Commit

LEMMA CurrentCommit ==
    ASSUME OneSource, TInv, CurrentInv, NEW c \in Threads, Commit(c)
    PROVE  CurrentInv'
<1>. DEFINE ds == rows.disturbances
            after == DisturbancesAfter(ds, status[c])
<1>1. \A e \in Threads : /\ step'[e] = IF e = c THEN "idle" ELSE step[e]
                         /\ locked'[e] = IF e = c THEN {} ELSE locked[e]
                         /\ copy'[e] = IF e = c THEN {} ELSE copy[e]
                         /\ status'[e] = IF e = c THEN NoStatus ELSE status[e]
  BY DEF TInv, TypeOK, Calls, Commit, End, GoTo, Unlock
<1>2. rows'.log = rows.log \cup {status[c]} /\ rows'.disturbances = after
  BY CommitIsCurrent
<1>3. /\ step[c] # "idle" /\ step[c] \in Holding
      /\ ds \in SUBSET Disturbance /\ status[c] \in Status
      /\ Keyed(ds) /\ Single(ds) /\ \A d \in ds : d.UStartTime # status[c].Time
  BY DEF Commit, Holding, TInv, TypeOK, InHand, LineRows, CurrentInv, AtMostOneOngoing, OneOpen, Single,
         Fresh
<1>4. /\ Keyed(after) /\ Single(after)
      /\ \A d \in after :
             d.UStartTime = status[c].Time \/ \E e \in ds : e.UStartTime = d.UStartTime
  BY <1>3, AfterFacts
<1>5. Exclusive'
  BY <1>1, <1>2, <1>3 DEF CurrentInv, Exclusive, Holding, OneSource
<1>6. Fresh'
  <2>. HIDE DEF after
  <2>. QED
    BY <1>1, <1>2, <1>3, <1>4 DEF CurrentInv, Fresh
<1>7. Keyed(rows.disturbances)' /\ AtMostOneOngoing'
  <2>. HIDE DEF after
  <2>. QED
    BY <1>2, <1>4 DEF AtMostOneOngoing, OneOpen, Keyed, Single
<1>8. CopyIsCurrent'
  <2>1. \A e \in Threads : step'[e] \notin Holding
    BY <1>1, <1>3 DEF CurrentInv, Exclusive, Holding
  <2>. QED
    BY <2>1 DEF CopyIsCurrent, Holding
<1>. QED
  BY <1>5, <1>6, <1>7, <1>8 DEF CurrentInv

LEMMA CurrentStatement ==
    ASSUME OneSource, TInv, CurrentInv, NEW c \in Threads, Statement(c)
    PROVE  CurrentInv'
<1>. DEFINE ds == rows.disturbances
<1>0. /\ c \in Calls /\ c \notin Editors
      /\ ds \in SUBSET Disturbance /\ Keyed(ds)
      /\ step[c] # "idle" => status[c] \in Status /\ \A d \in ds : d.UStartTime # status[c].Time
  BY TransactionsAssumption
     DEF Calls, TInv, TypeOK, InHand, LineRows, CurrentInv, Fresh
<1>1. CASE ReadLastStatus(c)
  <2>1. CASE End(c)
    BY <1>1, <2>1, CurrentEnd DEF ReadLastStatus, Unchanged
  <2>2. CASE GoTo(c, "insert") /\ UNCHANGED <<status, copy, locked>>
    <3>1. \A e \in Threads : step'[e] = IF e = c THEN "insert" ELSE step[e]
      BY <2>2 DEF GoTo, TInv, TypeOK, Calls
    <3>2. UNCHANGED <<rows, status, copy, locked>> /\ step[c] = "last"
      BY <1>1, <2>2 DEF ReadLastStatus, Unchanged
    <3>3. Exclusive'
      BY <3>1, <3>2 DEF CurrentInv, Exclusive, Holding
    <3>4. Fresh'
      BY <3>1, <3>2 DEF CurrentInv, Fresh
    <3>5. Keyed(rows.disturbances)' /\ AtMostOneOngoing'
      BY <3>2 DEF CurrentInv, AtMostOneOngoing, OneOpen, Keyed
    <3>6. CopyIsCurrent'
      BY <3>1, <3>2 DEF CurrentInv, CopyIsCurrent
    <3>. QED
      BY <3>3, <3>4, <3>5, <3>6 DEF CurrentInv
  <2>. QED
    BY <1>1, <2>1, <2>2 DEF ReadLastStatus
<1>2. CASE InsertStatus(c)
  <2>1. \A e \in Threads :
            /\ step'[e] = IF e = c THEN "ongoing" ELSE step[e]
            /\ locked'[e] = IF e = c THEN locked[c] \cup {SourceOf[c]} ELSE locked[e]
    <3>1. status[c].Source = SourceOf[c]
      BY <1>2 DEF InsertStatus, CurrentInv, Exclusive
    <3>. QED
      BY <1>2, <3>1 DEF InsertStatus, GoTo, TInv, TypeOK, Calls
  <2>2. UNCHANGED <<rows, status, copy>> /\ step[c] = "insert"
    BY <1>2 DEF InsertStatus, Unchanged
  <2>3. \A e \in Threads \ {c} : step[e] \notin Holding
    <3>. TAKE e \in Threads \ {c}
    <3>1. SourceOf[c] \notin locked[e]
      BY <1>2 DEF InsertStatus, SourceFree, CurrentInv, Exclusive, Calls
    <3>2. SourceOf[e] = SourceOf[c]
      BY DEF OneSource
    <3>. QED
      BY <3>1, <3>2 DEF CurrentInv, Exclusive
  <2>4. Exclusive'
    BY <2>1, <2>2, <2>3 DEF CurrentInv, Exclusive, Holding
  <2>5. Fresh'
    BY <2>1, <2>2 DEF CurrentInv, Fresh
  <2>6. Keyed(rows.disturbances)' /\ AtMostOneOngoing'
    BY <2>2 DEF CurrentInv, AtMostOneOngoing, OneOpen, Keyed
  <2>7. CopyIsCurrent'
    BY <2>1, <2>2 DEF CurrentInv, CopyIsCurrent
  <2>. QED
    BY <2>4, <2>5, <2>6, <2>7 DEF CurrentInv
<1>3. CASE ReadOngoing(c)
  <2>. DEFINE ongoing == OngoingDisturbances(ds)
  <2>1. UNCHANGED <<rows, status, locked>> /\ step[c] = "ongoing"
    BY <1>3 DEF ReadOngoing, Unchanged
  <2>2. ASSUME ongoing # {}
        PROVE  CurrentInv'
    <3>1. PICK d \in ds : d \in ongoing
      BY <2>2 DEF OngoingDisturbances
    <3>2. ongoing = {d}
      BY <3>1 DEF OngoingDisturbances, CurrentInv, AtMostOneOngoing, OneOpen
    <3>3. LatestStarted(ongoing) = d
      <4>1. d.UStartTime <= d.UStartTime
        BY <1>0 DEF Disturbance
      <4>. QED
        BY <3>2, <4>1 DEF LatestStarted
    <3>4. copy' = [copy EXCEPT ![c] = ongoing] /\ step' = [step EXCEPT ![c] = "statuses"]
      BY <1>3, <2>2, <3>2, <3>3 DEF ReadOngoing, GoTo
    <3>5. "statuses" \in Holding /\ step[c] \in Holding
      BY <2>1 DEF Holding
    <3>6. "statuses" \notin {"row", "links", "notify", "commit"}
      OBVIOUS
    <3>. HIDE DEF ongoing
    <3>7. ongoing # {} /\ ongoing = OngoingDisturbances(rows.disturbances)
      BY <2>2 DEF ongoing
    <3>. QED
      BY <2>1, <3>4, <3>5, <3>6, <3>7, CurrentMove
  <2>3. ASSUME ongoing = {}
        PROVE  CurrentInv'
    <3>. DEFINE held == IF status[c].IsDowntime THEN {Open(status[c])} ELSE {}
                next == IF status[c].IsDowntime THEN "row" ELSE "commit"
    <3>1. copy' = [copy EXCEPT ![c] = held] /\ step' = [step EXCEPT ![c] = next]
      BY <1>3, <2>3 DEF ReadOngoing, GoTo
    <3>2. Replace(ds, held) = DisturbancesAfter(ds, status[c])
      BY <1>0, <2>1, <2>3, OpensCurrent
    <3>3. next \in Holding /\ next # "statuses" /\ step[c] \in Holding
      BY <2>1 DEF Holding
    <3>. HIDE DEF held, next
    <3>. QED
      BY <2>1, <3>1, <3>2, <3>3, CurrentMove
  <2>. QED
    BY <2>2, <2>3
<1>4. CASE ReadStatuses(c)
  <2>1. UNCHANGED <<rows, status, locked>> /\ step[c] = "statuses"
    BY <1>4 DEF ReadStatuses, Unchanged
  <2>2. copy[c] # {} /\ copy[c] = OngoingDisturbances(ds)
    BY <2>1 DEF CurrentInv, CopyIsCurrent
  <2>3. PICK d \in ds : copy[c] = {d}
    BY <2>2 DEF OngoingDisturbances, CurrentInv, AtMostOneOngoing, OneOpen
  <2>4. WithStatuses(d) = d
    BY <1>0, SameStatuses
  <2>. DEFINE held == IF Ignores(d, status[c]) THEN {} ELSE {Amend(d, status[c])}
              next == IF Ignores(d, status[c]) THEN "commit" ELSE "row"
  <2>5. copy' = [copy EXCEPT ![c] = held] /\ step' = [step EXCEPT ![c] = next]
    BY <1>0, <1>4, <2>3, <2>4 DEF ReadStatuses, GoTo
  <2>6. Replace(ds, held) = DisturbancesAfter(ds, status[c])
    BY <1>0, <2>1, <2>2, <2>3, AmendsCurrent
  <2>7. next \in Holding /\ next # "statuses" /\ step[c] \in Holding
    BY <2>1 DEF Holding
  <2>. HIDE DEF held, next
  <2>. QED
    BY <2>1, <2>5, <2>6, <2>7, CurrentMove
<1>5. ASSUME NEW next \in {"row", "links", "notify", "commit"},
             step[c] \in {"row", "links", "notify", "commit"},
             step' = [step EXCEPT ![c] = next], UNCHANGED <<rows, status, copy, locked>>
      PROVE  CurrentInv'
  <2>1. copy' = [copy EXCEPT ![c] = copy[c]]
    BY <1>0, <1>5 DEF TInv, TypeOK
  <2>2. Replace(ds, copy[c]) = DisturbancesAfter(ds, status[c])
    BY <1>5 DEF CurrentInv, CopyIsCurrent
  <2>3. next \in Holding /\ next # "statuses" /\ step[c] \in Holding
    BY <1>5 DEF Holding
  <2>. QED
    BY <1>5, <2>1, <2>2, <2>3, CurrentMove
<1>6. CASE UpdateRow(c)
  BY <1>5, <1>6 DEF UpdateRow, GoTo, Unchanged
<1>7. CASE UpdateLink(c)
  <2>1. locked[c] = {SourceOf[c]} /\ \A s \in rows.log : s.Source = SourceOf[c]
    BY <1>7 DEF UpdateLink, CurrentInv, Exclusive, Holding
  <2>2. ToUpsert(c) = {}
    BY <2>1 DEF ToUpsert, Linked
  <2>. QED
    BY <1>7, <2>2 DEF UpdateLink
<1>8. CASE Updated(c)
  BY <1>0, <1>5, <1>8 DEF Updated, GoTo, Unchanged
<1>9. CASE Notify(c)
  BY <1>5, <1>9 DEF Notify, GoTo
<1>10. CASE Commit(c)
  BY <1>10, CurrentCommit
<1>. QED
  BY <1>1, <1>2, <1>3, <1>4, <1>6, <1>7, <1>8, <1>9, <1>10 DEF Statement

LEMMA CurrentStep ==
    ASSUME OneSource, TInv, CurrentInv, [Next]_vars
    PROVE  CurrentInv'
<1>0. Calls = Threads
  BY DEF Calls, OneSource
<1>1. ASSUME NEW c \in Threads, NEW isDowntime \in BOOLEAN, NEW text \in Texts,
             Begin(c, isDowntime, text)
      PROVE  CurrentInv'
  BY <1>1, CurrentBegin
<1>2. ASSUME NEW c \in Editors
      PROVE  FALSE
  BY <1>2 DEF OneSource
<1>3. ASSUME NEW c \in Threads, Statement(c)
      PROVE  CurrentInv'
  BY <1>3, CurrentStatement
<1>4. ASSUME NEW c \in Threads, FailStatement(c) \/ FailCommit(c)
      PROVE  CurrentInv'
  BY <1>4, CurrentEnd DEF FailStatement, FailCommit, Unchanged
<1>5. ASSUME UNCHANGED <<rows, step, status, copy, locked>>
      PROVE  CurrentInv'
  BY <1>5 DEF CurrentInv, Exclusive, Fresh, Keyed, AtMostOneOngoing, OneOpen, CopyIsCurrent
<1>6. SentNotification \/ UNCHANGED vars => UNCHANGED <<rows, step, status, copy, locked>>
  BY DEF SentNotification, vars
<1>. QED
  BY <1>0, <1>1, <1>2, <1>3, <1>4, <1>5, <1>6 DEF Next

LEMMA CurrentInit == Init => CurrentInv
BY DEF Init, CurrentInv, Exclusive, Holding, Fresh, Keyed, AtMostOneOngoing, OneOpen, CopyIsCurrent,
       Calls, NoRows

LEMMA CurrentInvariant ==
    ASSUME OneSource
    PROVE  Spec => [](TInv /\ CurrentInv)
<1>1. Init => TInv /\ CurrentInv
  BY TInvInit, CurrentInit
<1>2. TInv /\ CurrentInv /\ [Next]_vars => TInv' /\ CurrentInv'
  BY TInvStep, CurrentStep
<1>. QED
  BY <1>1, <1>2, PTL DEF Spec

\* "There can only be one ongoing disturbance per line at a time"
\* (compute/reports.go:204) is true of any number of calls that overlap, if
\* their statuses are of one source.
THEOREM OneSourceOneOngoing ==
    ASSUME OneSource
    PROVE  Spec => []AtMostOneOngoing
<1>1. CurrentInv => AtMostOneOngoing
  BY DEF CurrentInv
<1>. QED
  BY <1>1, CurrentInvariant, PTL

\* Each commit records its status and does to the disturbances what AddStatus's
\* rules, past the one for duplicates, say of them as they are when it commits:
\* what a thread read under the lock of the source's row is still so.
THEOREM OneSourceIsCurrent ==
    ASSUME OneSource
    PROVE  Spec => CommitsAreCurrent
<1>. DEFINE Current ==
         \/ rows' = rows
         \/ \E s \in {status[c] : c \in Threads} :
                /\ rows'.log = rows.log \cup {s}
                /\ rows'.disturbances = DisturbancesAfter(rows.disturbances, s)
<1>1. ASSUME TInv, CurrentInv, [Next]_vars
      PROVE  [Current]_vars
  <2>1. ASSUME NEW c \in Threads, Commit(c)
        PROVE  Current
    BY <1>1, <2>1, CommitIsCurrent
  <2>2. ASSUME NEW c \in Calls, Statement(c), ~Commit(c)
        PROVE  rows' = rows
    BY <2>2 DEF Statement, ReadLastStatus, InsertStatus, ReadOngoing, ReadStatuses, UpdateRow,
                UpdateLink, Updated, Notify, Unchanged
  <2>3. ASSUME NEW c \in Calls, FailStatement(c) \/ FailCommit(c)
        PROVE  rows' = rows
    BY <2>3 DEF FailStatement, FailCommit, Unchanged
  <2>4. ASSUME NEW c \in Threads, NEW isDowntime \in BOOLEAN, NEW text \in Texts,
               Begin(c, isDowntime, text)
        PROVE  rows' = rows
    BY <2>4 DEF Begin
  <2>5. SentNotification => rows' = rows
    BY DEF SentNotification
  <2>6. Editors = {} /\ Calls = Threads
    BY DEF OneSource, Calls
  <2>. HIDE DEF Current
  <2>7. ASSUME rows' = rows
        PROVE  Current
    BY <2>7 DEF Current
  <2>. QED
    BY <1>1, <2>1, <2>2, <2>3, <2>4, <2>5, <2>6, <2>7 DEF Next
<1>2. Spec => [][Current]_vars
  <2>. HIDE DEF Current
  <2>. QED
    BY <1>1, CurrentInvariant, PTL DEF Spec
<1>. QED
  BY <1>2, PTL DEF CommitsAreCurrent
=============================================================================

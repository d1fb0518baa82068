-------------------------- MODULE LineStatusProofs --------------------------
(***************************************************************************)
(* For every set of sources and texts and every bound of the clock: the    *)
(* intervals of a line's disturbances are in order, but for those whose    *)
(* first status was overtaken, at most one of them is open, and AddStatus  *)
(* implements the timeline the line promises; then, disturbances that      *)
(* ended do not change, and every downtime status belongs to a disturbance *)
(* that had not ended at its time. From that, what the statistics of the   *)
(* line count: its downtime, once, if no first status was overtaken.       *)
(*                                                                         *)
(* What folds compute is proved by induction over finite sets: a set of    *)
(* sets that has {}, and with a set all that are larger by one element,    *)
(* has the finite set itself (SubsetInduction, from the well-founded order *)
(* of its subsets). Its consequences, that a fold exists and that there is *)
(* but one (FoldExists, FoldUnique), say what CHOOSE finds in the library's*)
(* definition of a fold.                                                   *)
(***************************************************************************)
EXTENDS LineStatus, LineStatistics, FiniteSetTheorems, WellFoundedInduction, TLAPS

-----------------------------------------------------------------------------
(***************************************************************************)
(* What the rules of AddStatus do to a set of disturbances.                *)
(***************************************************************************)
\* The last ongoing disturbance (line.go:663) is the only one there is:
\* AddStatus has four outcomes.
LEMMA FourOutcomes ==
    ASSUME NEW ds \in SUBSET Disturbance, OneOpen(ds), NEW s \in Status
    PROVE  \/ /\ \A d \in ds : d.UEnded
              /\ ~s.IsDowntime
              /\ DisturbancesAfter(ds, s) = ds
           \/ /\ \A d \in ds : d.UEnded
              /\ s.IsDowntime
              /\ DisturbancesAfter(ds, s) = ds \cup {Open(s)}
           \/ \E d \in ds :
                 /\ ~d.UEnded /\ \A e \in ds : ~e.UEnded => e = d
                 /\ Ignores(d, s)
                 /\ DisturbancesAfter(ds, s) = ds
           \/ \E d \in ds :
                 /\ ~d.UEnded /\ \A e \in ds : ~e.UEnded => e = d
                 /\ ~Ignores(d, s)
                 /\ DisturbancesAfter(ds, s) = (ds \ {d}) \cup {Amend(d, s)}
<1>1. CASE OngoingDisturbances(ds) = {}
  <2>1. \A d \in ds : d.UEnded
    BY <1>1 DEF OngoingDisturbances
  <2>. QED
    BY <1>1, <2>1 DEF DisturbancesAfter
<1>2. CASE OngoingDisturbances(ds) # {}
  <2>1. PICK d \in ds : ~d.UEnded
    BY <1>2 DEF OngoingDisturbances
  <2>2. \A e \in ds : ~e.UEnded => e = d
    BY <2>1 DEF OneOpen
  <2>3. OngoingDisturbances(ds) = {d}
    BY <2>1, <2>2 DEF OngoingDisturbances
  <2>4. d.UStartTime <= d.UStartTime
    BY DEF Disturbance
  <2>5. LatestStarted({d}) = d
    BY <2>4 DEF LatestStarted
  <2>. QED
    BY <2>1, <2>2, <2>3, <2>5 DEF DisturbancesAfter
<1>. QED
  BY <1>1, <1>2

\* A disturbance opened by a status.
LEMMA OpenFacts ==
    ASSUME NEW s \in Status
    PROVE  /\ Open(s) \in Disturbance
           /\ ~Open(s).UEnded /\ ~Open(s).OEnded
           /\ Open(s).Official = IsOfficial(s)
           /\ Open(s).UStartTime = s.Time /\ Open(s).UEndTime = 0
           /\ Open(s).OStartTime = IF IsOfficial(s) THEN s.Time ELSE 0
BY DEF Open, Status, Disturbance, IsOfficial

\* An amended disturbance keeps its start; it ends, at the time of the
\* status, if the status is no downtime and as official as the disturbance.
LEMMA AmendFacts ==
    ASSUME NEW d \in Disturbance, NEW s \in Status, ~Ignores(d, s), ~d.UEnded
    PROVE  LET e == Amend(d, s)
               ends == ~s.IsDowntime /\ (IsOfficial(s) <=> d.Official)
               turns == s.IsDowntime /\ IsOfficial(s) /\ ~d.Official
           IN  /\ e \in Disturbance
               /\ e.UStartTime = d.UStartTime
               /\ e.UEnded <=> ends
               /\ e.UEndTime = IF ends THEN s.Time ELSE d.UEndTime
               /\ e.Official <=> (d.Official \/ turns)
               /\ e.OStartTime = IF turns THEN s.Time ELSE d.OStartTime
               /\ e.OEnded <=> IF ends THEN d.Official ELSE d.OEnded
               /\ e.OEndTime = IF ends /\ d.Official THEN s.Time ELSE d.OEndTime
<1>. DEFINE With(c) == [c EXCEPT !.Statuses = @ \cup {s.Time}]
<1>. DEFINE Official == [[d EXCEPT !.Official = TRUE] EXCEPT !.OStartTime = s.Time]
<1>. DEFINE OEnd == IF d.Official THEN s.Time ELSE d.OEndTime
<1>. DEFINE Closed == [d EXCEPT !.OEndTime = OEnd, !.OEnded = d.Official,
                                !.UEndTime = s.Time, !.UEnded = TRUE]
<1>1. /\ s.IsDowntime \in BOOLEAN /\ s.Time \in Nat \ {0}
      /\ d.Official \in BOOLEAN /\ d.OEndTime \in Nat
  BY DEF Status, Disturbance
<1>2. ASSUME NEW c \in Disturbance
      PROVE  /\ With(c) \in Disturbance
             /\ With(c).Official = c.Official
             /\ With(c).OStartTime = c.OStartTime /\ With(c).OEndTime = c.OEndTime
             /\ With(c).OEnded = c.OEnded
             /\ With(c).UStartTime = c.UStartTime /\ With(c).UEndTime = c.UEndTime
             /\ With(c).UEnded = c.UEnded
  BY <1>1 DEF Disturbance
<1>3. CASE s.IsDowntime /\ IsOfficial(s) /\ ~d.Official
  <2>1. Amend(d, s) = With(Official)
    BY <1>3 DEF Amend, MakeOfficial
  <2>2. /\ Official \in Disturbance
        /\ Official.Official /\ Official.OStartTime = s.Time
        /\ Official.OEndTime = d.OEndTime /\ Official.OEnded = d.OEnded
        /\ Official.UStartTime = d.UStartTime /\ Official.UEndTime = d.UEndTime
        /\ Official.UEnded = d.UEnded
    BY <1>1 DEF Disturbance
  <2>. HIDE DEF Official, With
  <2>. QED
    BY <1>2, <1>3, <2>1, <2>2
<1>4. CASE \/ s.IsDowntime /\ ~(IsOfficial(s) /\ ~d.Official)
           \/ ~s.IsDowntime /\ ~IsOfficial(s) /\ d.Official
  <2>1. Amend(d, s) = With(d)
    BY <1>4 DEF Amend, MakeOfficial, Close
  <2>. HIDE DEF With
  <2>. QED
    BY <1>2, <1>4, <2>1
<1>5. CASE ~s.IsDowntime /\ (IsOfficial(s) <=> d.Official)
  <2>1. Amend(d, s) = With(Closed)
    BY <1>5 DEF Amend, Close
  <2>2. OEnd \in Nat
    BY <1>1
  <2>3. /\ Closed \in Disturbance
        /\ Closed.Official = d.Official /\ Closed.OStartTime = d.OStartTime
        /\ Closed.OEndTime = OEnd /\ Closed.OEnded = d.Official
        /\ Closed.UStartTime = d.UStartTime /\ Closed.UEndTime = s.Time
        /\ Closed.UEnded
    <3>. HIDE DEF OEnd
    <3>. QED
      BY <1>1, <2>2 DEF Disturbance
  <2>. HIDE DEF Closed, With
  <2>. QED
    BY <1>1, <1>2, <1>5, <2>1, <2>3
<1>. QED
  BY <1>1, <1>3, <1>4, <1>5 DEF Ignores

\* The disturbances that have begun and, if they have, ended before time t.
StartedBefore(ds, t) ==
    \A d \in ds : d.UStartTime < t /\ d.UEndTime < t /\ d.OStartTime < t

\* Disturbances all of which are older than a status stay disjoint and well
\* timed when it is added, and none gets a time later than the status's.
LEMMA IntervalsPreserved ==
    ASSUME NEW ds \in SUBSET Disturbance, NEW lates,
           OneOpen(ds), DisjointBut(ds, lates), WellTimed(ds),
           NEW s \in Status, StartedBefore(ds, s.Time)
    PROVE  LET after == DisturbancesAfter(ds, s)
           IN  /\ after \in SUBSET Disturbance
               /\ OneOpen(after)
               /\ DisjointBut(after, lates)
               /\ WellTimed(after)
               /\ StartedBefore(after, s.Time + 1)
<1>. DEFINE after == DisturbancesAfter(ds, s)
<1>1. s.Time \in Nat \ {0}
  BY DEF Status
<1>2. \A d \in ds : /\ d.UStartTime \in Nat /\ d.UEndTime \in Nat /\ d.OStartTime \in Nat
                    /\ d.UStartTime < s.Time /\ d.UEndTime < s.Time /\ d.OStartTime < s.Time
  BY DEF Disturbance, StartedBefore
<1>3. CASE after = ds
  BY <1>1, <1>2, <1>3 DEF StartedBefore
<1>4. CASE (\A d \in ds : d.UEnded) /\ after = ds \cup {Open(s)}
  <2>1. /\ Open(s) \in Disturbance
        /\ ~Open(s).UEnded /\ ~Open(s).OEnded
        /\ Open(s).UStartTime = s.Time /\ Open(s).UEndTime = 0
        /\ Open(s).OStartTime = IF IsOfficial(s) THEN s.Time ELSE 0
        /\ Open(s).Official = IsOfficial(s)
    BY OpenFacts
  <2>2. OneOpen(after) /\ DisjointBut(after, lates)
    BY <1>2, <1>4, <2>1 DEF OneOpen, DisjointBut, Disjoint, Before
  <2>3. WellTimed(after)
    BY <1>1, <1>2, <1>4, <2>1 DEF WellTimed
  <2>4. StartedBefore(after, s.Time + 1)
    BY <1>1, <1>2, <1>4, <2>1 DEF StartedBefore
  <2>. QED
    BY <1>4, <2>1, <2>2, <2>3, <2>4
<1>5. ASSUME NEW d \in ds, ~d.UEnded, ~Ignores(d, s),
             after = (ds \ {d}) \cup {Amend(d, s)}
      PROVE  /\ after \in SUBSET Disturbance
             /\ OneOpen(after)
             /\ DisjointBut(after, lates)
             /\ WellTimed(after)
             /\ StartedBefore(after, s.Time + 1)
  <2>. DEFINE e == Amend(d, s)
              ends == ~s.IsDowntime /\ (IsOfficial(s) <=> d.Official)
              turns == s.IsDowntime /\ IsOfficial(s) /\ ~d.Official
  <2>1. /\ e \in Disturbance
        /\ e.UStartTime = d.UStartTime
        /\ e.UEnded <=> ends
        /\ e.UEndTime = IF ends THEN s.Time ELSE d.UEndTime
        /\ e.Official <=> (d.Official \/ turns)
        /\ e.OStartTime = IF turns THEN s.Time ELSE d.OStartTime
        /\ e.OEnded <=> IF ends THEN d.Official ELSE d.OEnded
        /\ e.OEndTime = IF ends /\ d.Official THEN s.Time ELSE d.OEndTime
    BY <1>5, AmendFacts
  <2>. HIDE DEF e
  <2>2. \A f \in ds : f.UStartTime \in lates \/ d.UStartTime \in lates \/ f = d \/ Before(f, d)
    BY <1>5 DEF DisjointBut, Disjoint, Before
  <2>3. \A f \in ds : f.UStartTime \in lates \/ e.UStartTime \in lates \/ f = d \/ Before(f, e)
    BY <2>1, <2>2 DEF Before
  <2>4. OneOpen(after) /\ DisjointBut(after, lates)
    <3>1. \A f \in after : f = e \/ (f \in ds /\ f.UEnded /\ f # d)
      BY <1>5 DEF OneOpen, e
    <3>. HIDE DEF after
    <3>2. OneOpen(after)
      BY <3>1 DEF OneOpen
    <3>. QED
      BY <2>3, <3>1, <3>2 DEF DisjointBut, Disjoint
  <2>5. /\ e.UEnded => e.UStartTime < e.UEndTime
        /\ IF e.Official THEN e.UStartTime <= e.OStartTime ELSE e.OStartTime = 0
        /\ e.OEnded <=> (e.Official /\ e.UEnded)
        /\ e.OEnded => e.OStartTime < e.OEndTime /\ e.OEndTime = e.UEndTime
    <3>1. /\ IF d.Official THEN d.UStartTime <= d.OStartTime ELSE d.OStartTime = 0
          /\ ~d.OEnded
      BY <1>5 DEF WellTimed
    <3>. QED
      BY <1>1, <1>2, <2>1, <3>1
  <2>6. WellTimed(after)
    BY <1>5, <2>5 DEF WellTimed, e
  <2>7. StartedBefore(after, s.Time + 1)
    <3>1. e.UStartTime < s.Time + 1 /\ e.UEndTime < s.Time + 1 /\ e.OStartTime < s.Time + 1
      BY <1>1, <1>2, <2>1
    <3>. QED
      BY <1>1, <1>2, <1>5, <3>1 DEF StartedBefore, e
  <2>. QED
    BY <1>5, <2>1, <2>4, <2>6, <2>7 DEF e
<1>. HIDE DEF after
<1>6. \/ after = ds
      \/ (\A d \in ds : d.UEnded) /\ after = ds \cup {Open(s)}
      \/ \E d \in ds : /\ ~d.UEnded /\ ~Ignores(d, s)
                       /\ after = (ds \ {d}) \cup {Amend(d, s)}
  BY FourOutcomes DEF after
<1>. QED
  BY <1>3, <1>4, <1>5, <1>6 DEF after

-----------------------------------------------------------------------------
(***************************************************************************)
(* The phase of a line, and the duplicate rule.                            *)
(***************************************************************************)
\* What a status makes of the phase of its line, in LineTimeline's terms.
PhaseAfter(p, s) ==
    IF IsOfficial(s)
    THEN IF s.IsDowntime THEN "official" ELSE IF p = "official" THEN "normal" ELSE p
    ELSE IF s.IsDowntime THEN IF p = "normal" THEN "community" ELSE p
         ELSE IF p = "community" THEN "normal" ELSE p

\* A recorded status moves the phase as the timeline says, and agrees with it.
LEMMA RecordedMovesPhase ==
    ASSUME NEW ds \in SUBSET Disturbance, OneOpen(ds), NEW s \in Status
    PROVE  LET after == DisturbancesAfter(ds, s)
           IN  /\ PhaseOf(after) = PhaseAfter(PhaseOf(ds), s)
               /\ s.IsDowntime =>
                      \E d \in after : ~d.UEnded /\ (IsOfficial(s) => d.Official)
               /\ ~s.IsDowntime =>
                      \A d \in after : d.UEnded \/ (d.Official <=> ~IsOfficial(s))
<1>. DEFINE after == DisturbancesAfter(ds, s)
            Goal == /\ PhaseOf(after) = PhaseAfter(PhaseOf(ds), s)
                    /\ s.IsDowntime =>
                         \E d \in after : ~d.UEnded /\ (IsOfficial(s) => d.Official)
                    /\ ~s.IsDowntime =>
                         \A d \in after : d.UEnded \/ (d.Official <=> ~IsOfficial(s))
<1>1. ASSUME \A d \in ds : d.UEnded, ~s.IsDowntime, after = ds
      PROVE  Goal
  BY <1>1 DEF PhaseOf, PhaseAfter
<1>2. ASSUME \A d \in ds : d.UEnded, s.IsDowntime, after = ds \cup {Open(s)}
      PROVE  Goal
  <2>1. ~Open(s).UEnded /\ Open(s).Official = IsOfficial(s)
    BY OpenFacts
  <2>. HIDE DEF after
  <2>. QED
    BY <1>2, <2>1 DEF PhaseOf, PhaseAfter
<1>3. ASSUME NEW d \in ds, ~d.UEnded, \A e \in ds : ~e.UEnded => e = d,
             Ignores(d, s), after = ds
      PROVE  Goal
  <2>. HIDE DEF after
  <2>. QED
    BY <1>3 DEF PhaseOf, PhaseAfter, Ignores
<1>4. ASSUME NEW d \in ds, ~d.UEnded, \A e \in ds : ~e.UEnded => e = d,
             ~Ignores(d, s), after = (ds \ {d}) \cup {Amend(d, s)}
      PROVE  Goal
  <2>. DEFINE e == Amend(d, s)
              ends == ~s.IsDowntime /\ (IsOfficial(s) <=> d.Official)
              turns == s.IsDowntime /\ IsOfficial(s) /\ ~d.Official
  <2>1. /\ e.UEnded <=> ends
        /\ e.Official <=> (d.Official \/ turns)
    BY <1>4, AmendFacts
  <2>2. /\ \A f \in after : f = e \/ f.UEnded
        /\ e \in after
    BY <1>4
  <2>. HIDE DEF after, e
  <2>3. (\E f \in after : ~f.UEnded /\ f.Official) <=> ~ends /\ (d.Official \/ turns)
    BY <2>1, <2>2
  <2>4. (\E f \in after : ~f.UEnded) <=> ~ends
    BY <2>1, <2>2
  <2>5. PhaseOf(ds) = IF d.Official THEN "official" ELSE "community"
    BY <1>4 DEF PhaseOf
  <2>6. PhaseOf(after) = PhaseAfter(PhaseOf(ds), s)
    BY <1>4, <2>3, <2>4, <2>5 DEF PhaseOf, PhaseAfter, Ignores
  <2>. QED
    BY <1>4, <2>1, <2>2, <2>6 DEF Ignores
<1>. HIDE DEF after
<1>. QED
  BY FourOutcomes, <1>1, <1>2, <1>3, <1>4 DEF after

\* What the duplicate rule drops would not have moved the phase, unless it is
\* an all-clear of the community.
LEMMA DroppedMovesNothing ==
    ASSUME NEW log \in SUBSET Status, NEW ds \in SUBSET Disturbance, NEW s \in Status,
           Agrees(log, ds), log # {} => Latest(log) # {}, IsDuplicate(log, s),
           s.IsDowntime \/ IsOfficial(s)
    PROVE  PhaseOf(ds) = PhaseAfter(PhaseOf(ds), s)
<1>. DEFINE last == LastStatus(log)
<1>1. last \in Latest(log)
  BY DEF IsDuplicate, LastStatus
<1>2. /\ last.IsDowntime = s.IsDowntime
      /\ IsOfficial(last) = IsOfficial(s)
  BY DEF IsDuplicate
<1>. HIDE DEF last
<1>3. /\ s.IsDowntime => \E d \in ds : ~d.UEnded /\ (IsOfficial(s) => d.Official)
      /\ ~s.IsDowntime => \A d \in ds : d.UEnded \/ (d.Official <=> ~IsOfficial(s))
  BY <1>1, <1>2 DEF Agrees
<1>. QED
  BY <1>3 DEF PhaseOf, PhaseAfter

\* A log to which a status is added has a latest status, and this status is
\* the only one if the others are older.
LEMMA LatestOfLog ==
    ASSUME NEW log \in SUBSET Status, log # {} => Latest(log) # {}, NEW s \in Status
    PROVE  /\ Latest(log \cup {s}) # {}
           /\ Latest(log \cup {s}) \subseteq Latest(log) \cup {s}
           /\ (\A r \in log : r.Time < s.Time) => Latest(log \cup {s}) = {s}
<1>1. \A r \in log \cup {s} : r.Time \in Nat
  BY DEF Status
<1>2. Latest(log \cup {s}) # {}
  <2>1. CASE log = {}
    BY <1>1, <2>1 DEF Latest
  <2>2. CASE log # {}
    <3>1. PICK m \in log : \A r \in log : r.Time <= m.Time
      BY <2>2 DEF Latest
    <3>2. CASE m.Time <= s.Time
      <4>1. \A r \in log \cup {s} : r.Time <= s.Time
        BY <1>1, <3>1, <3>2
      <4>. QED
        BY <4>1 DEF Latest
    <3>3. CASE ~(m.Time <= s.Time)
      <4>1. \A r \in log \cup {s} : r.Time <= m.Time
        BY <1>1, <3>1, <3>3
      <4>. QED
        BY <3>1, <4>1 DEF Latest
    <3>. QED
      BY <3>2, <3>3
  <2>. QED
    BY <2>1, <2>2
<1>3. Latest(log \cup {s}) \subseteq Latest(log) \cup {s}
  BY DEF Latest
<1>4. ASSUME \A r \in log : r.Time < s.Time
      PROVE  Latest(log \cup {s}) = {s}
  BY <1>1, <1>4 DEF Latest
<1>. QED
  BY <1>2, <1>3, <1>4

-----------------------------------------------------------------------------
(***************************************************************************)
(* AddStatus on the rows of a line.                                        *)
(***************************************************************************)
\* The rows of a line at the time t, first statuses of the times lates having
\* been overtaken: IInv without the variables.
RowsInv(r, t, lates) ==
    /\ r \in LineRows
    /\ \A s \in r.log : s.Time <= t
    /\ StartedBefore(r.disturbances, t + 1)
    /\ OneOpen(r.disturbances)
    /\ DisjointBut(r.disturbances, lates)
    /\ WellTimed(r.disturbances)
    /\ r.log # {} => Latest(r.log) # {}
    /\ Agrees(r.log, r.disturbances)

\* A status that is recorded, and later than all there is: the rows of a line
\* need not agree with the latest status before it, but do after it.
LEMMA RecordStatus ==
    ASSUME NEW r \in LineRows, NEW t \in Nat, NEW lates, NEW s \in Status, s.Time = t + 1,
           \A q \in r.log : q.Time <= t,
           StartedBefore(r.disturbances, t + 1), OneOpen(r.disturbances),
           DisjointBut(r.disturbances, lates), WellTimed(r.disturbances),
           r.log # {} => Latest(r.log) # {},
           ~IsDuplicate(r.log, s)
    PROVE  /\ RowsInv(AddStatus(r, s), t + 1, lates)
           /\ PhaseOf(AddStatus(r, s).disturbances)
                = PhaseAfter(PhaseOf(r.disturbances), s)
<1>. DEFINE log == r.log \cup {s}
            after == DisturbancesAfter(r.disturbances, s)
<1>1. r.log \in SUBSET Status /\ r.disturbances \in SUBSET Disturbance
  BY DEF LineRows
<1>2. AddStatus(r, s) = [log |-> log, disturbances |-> after]
  BY DEF AddStatus
<1>. DEFINE r2 == AddStatus(r, s)
<1>3. /\ after \in SUBSET Disturbance
      /\ OneOpen(after) /\ DisjointBut(after, lates)
      /\ WellTimed(after)
      /\ StartedBefore(after, (t + 1) + 1)
  BY <1>1, IntervalsPreserved
<1>4. /\ PhaseOf(after) = PhaseAfter(PhaseOf(r.disturbances), s)
      /\ s.IsDowntime => \E d \in after : ~d.UEnded /\ (IsOfficial(s) => d.Official)
      /\ ~s.IsDowntime => \A d \in after : d.UEnded \/ (d.Official <=> ~IsOfficial(s))
  BY <1>1, RecordedMovesPhase
<1>5. \A q \in r.log : q.Time \in Nat /\ q.Time < s.Time
  BY <1>1 DEF Status
<1>6. Latest(log) = {s}
  BY <1>1, <1>5, LatestOfLog
<1>. HIDE DEF after
<1>7. Agrees(log, after)
  BY <1>4, <1>6 DEF Agrees
<1>8. \A q \in log : q.Time <= t + 1
  BY <1>5 DEF Status
<1>9. r2 \in LineRows /\ r2.log = log /\ r2.disturbances = after
  BY <1>1, <1>2, <1>3 DEF LineRows
<1>. HIDE DEF r2, log
<1>10. RowsInv(r2, t + 1, lates)
  BY <1>3, <1>6, <1>7, <1>8, <1>9 DEF RowsInv
<1>. QED
  BY <1>4, <1>9, <1>10 DEF r2

\* Time may pass.
LEMMA RowsInvLater ==
    ASSUME NEW r, NEW t \in Nat, NEW lates, RowsInv(r, t, lates)
    PROVE  RowsInv(r, t + 1, lates)
<1>1. r.log \in SUBSET Status /\ r.disturbances \in SUBSET Disturbance
  BY DEF RowsInv, LineRows
<1>2. \A q \in r.log : q.Time <= t + 1
  BY <1>1 DEF RowsInv, Status
<1>3. StartedBefore(r.disturbances, (t + 1) + 1)
  BY <1>1 DEF RowsInv, StartedBefore, Disturbance
<1>. QED
  BY <1>2, <1>3 DEF RowsInv

\* A status stamped with the clock, recorded or dropped: only an all-clear of the
\* community may be dropped although it would have moved the phase.
LEMMA AddStatusStep ==
    ASSUME NEW r, NEW t \in Nat, NEW lates, RowsInv(r, t, lates),
           NEW s \in Status, s.Time = t + 1
    PROVE  /\ RowsInv(AddStatus(r, s), t + 1, lates)
           /\ \/ PhaseOf(AddStatus(r, s).disturbances) = PhaseAfter(PhaseOf(r.disturbances), s)
              \/ /\ ~IsOfficial(s)
                 /\ PhaseOf(AddStatus(r, s).disturbances) = PhaseOf(r.disturbances)
<1>1. r.log \in SUBSET Status /\ r.disturbances \in SUBSET Disturbance
  BY DEF RowsInv, LineRows
<1>2. CASE ~IsDuplicate(r.log, s)
  BY <1>2, RecordStatus DEF RowsInv
<1>3. CASE IsDuplicate(r.log, s)
  <2>1. AddStatus(r, s) = r
    BY <1>3 DEF AddStatus
  <2>2. RowsInv(r, t + 1, lates)
    BY RowsInvLater
  <2>3. IsOfficial(s) => PhaseOf(r.disturbances) = PhaseAfter(PhaseOf(r.disturbances), s)
    BY <1>1, <1>3, DroppedMovesNothing DEF RowsInv
  <2>. QED
    BY <2>1, <2>2, <2>3
<1>. QED
  BY <1>2, <1>3

\* A downtime status of the community begins a disturbance, or is added to the
\* statuses of one that is ongoing and changes nothing else.
LEMMA TwoOutcomes ==
    ASSUME NEW ds \in SUBSET Disturbance, OneOpen(ds),
           NEW b \in Status, b.IsDowntime, ~IsOfficial(b)
    PROVE  \/ /\ \A d \in ds : d.UEnded
              /\ DisturbancesAfter(ds, b) = ds \cup {Open(b)}
           \/ \E d \in ds :
                 /\ ~d.UEnded
                 /\ DisturbancesAfter(ds, b) = (ds \ {d}) \cup {Amend(d, b)}
                 /\ Amend(d, b) \in Disturbance
                 /\ Amend(d, b) = [d EXCEPT !.Statuses = @ \cup {b.Time}]
<1>1. \A d \in ds : ~Ignores(d, b)
  BY DEF Ignores
<1>2. \A d \in ds : ~d.UEnded => Amend(d, b) \in Disturbance
  BY <1>1, AmendFacts
<1>3. \A d \in ds : Amend(d, b) = [d EXCEPT !.Statuses = @ \cup {b.Time}]
  BY DEF Amend, MakeOfficial
<1>. QED
  BY <1>1, <1>2, <1>3, FourOutcomes, Zenon

\* The fields of such a disturbance.
LEMMA StatusAdded ==
    ASSUME NEW d \in Disturbance, NEW n
    PROVE  LET a == [d EXCEPT !.Statuses = @ \cup {n}]
           IN  /\ a.Official = d.Official
               /\ a.OStartTime = d.OStartTime /\ a.OEndTime = d.OEndTime
               /\ a.OEnded = d.OEnded
               /\ a.UStartTime = d.UStartTime /\ a.UEndTime = d.UEndTime
               /\ a.UEnded = d.UEnded
               /\ a.Statuses = d.Statuses \cup {n}
BY DEF Disturbance

\* What a first status b, cast at the time at of an evaluation, was compared with.
IsCurrent(r, b) ==
    (\A d \in r.disturbances : d.UEnded) /\ EndedBefore(r.disturbances, b.Time)

\* No other status has the time of this one.
OnlyAtItsTime(log, b) == \A q \in log : q.Time = b.Time => q = b

\* A first status dated in the past: if it was overtaken, its time is late. It
\* may begin a community disturbance, and moves the phase no other way.
LEMMA FirstStatusStep ==
    ASSUME NEW r, NEW t \in Nat, NEW lates, RowsInv(r, t, lates),
           NEW b \in Status, b.IsDowntime, ~IsOfficial(b), b.Time <= t,
           OnlyAtItsTime(r.log, b),
           NEW lates2, lates \subseteq lates2, b.Time \in lates2 \/ IsCurrent(r, b)
    PROVE  /\ RowsInv(AddStatus(r, b), t, lates2)
           /\ \/ PhaseOf(AddStatus(r, b).disturbances) = PhaseOf(r.disturbances)
              \/ /\ PhaseOf(r.disturbances) = "normal"
                 /\ PhaseOf(AddStatus(r, b).disturbances) = "community"
<1>. DEFINE ds == r.disturbances
            log == r.log \cup {b}
            after == DisturbancesAfter(ds, b)
            r1 == [log |-> log, disturbances |-> after]
<1>1. /\ r.log \in SUBSET Status /\ ds \in SUBSET Disturbance /\ OneOpen(ds)
      /\ b.Time \in Nat \ {0} /\ \A q \in r.log : q.Time <= t
  BY DEF RowsInv, LineRows, Status
<1>2. DisjointBut(ds, lates2)
  BY DEF RowsInv, DisjointBut, Disjoint
<1>3. CASE IsDuplicate(r.log, b)
  <2>1. AddStatus(r, b) = r
    BY <1>3 DEF AddStatus
  <2>. QED
    BY <1>2, <2>1 DEF RowsInv
<1>4. \A d \in ds : /\ d.UStartTime \in Nat /\ d.UEndTime \in Nat /\ d.OStartTime \in Nat
                    /\ d.UStartTime < t + 1 /\ d.UEndTime < t + 1 /\ d.OStartTime < t + 1
  BY <1>1 DEF Disturbance, RowsInv, StartedBefore
<1>5. /\ Latest(log) # {}
      /\ Latest(log) \subseteq Latest(r.log) \cup {b}
  BY <1>1, LatestOfLog DEF RowsInv
<1>6. \A q \in log : q.Time <= t
  BY <1>1
<1>7. \A q \in Latest(r.log) : ~q.IsDowntime => q.Time # b.Time
  BY DEF Latest, OnlyAtItsTime
<1>8. ASSUME after \in SUBSET Disturbance, OneOpen(after), DisjointBut(after, lates2),
             WellTimed(after), StartedBefore(after, t + 1), Agrees(log, after)
      PROVE  RowsInv(r1, t, lates2)
  <2>. HIDE DEF after
  <2>1. log \in SUBSET Status
    BY <1>1
  <2>. HIDE DEF log
  <2>2. r1 \in LineRows /\ r1.log = log /\ r1.disturbances = after
    BY <1>8, <2>1 DEF LineRows
  <2>. HIDE DEF r1
  <2>. QED
    BY <1>5, <1>6, <1>8, <2>2 DEF RowsInv
<1>9. ASSUME \A d \in ds : d.UEnded, after = ds \cup {Open(b)}
      PROVE  /\ RowsInv(r1, t, lates2)
             /\ PhaseOf(ds) = "normal" /\ PhaseOf(after) = "community"
  <2>. DEFINE o == Open(b)
  <2>1. /\ o \in Disturbance /\ ~o.UEnded /\ ~o.OEnded /\ ~o.Official
        /\ o.UStartTime = b.Time /\ o.UEndTime = 0 /\ o.OStartTime = 0
        /\ o.Statuses = {b.Time}
    BY OpenFacts DEF Open, IsOfficial
  <2>. HIDE DEF o
  <2>2. after = ds \cup {o}
    BY <1>9 DEF o
  <2>. HIDE DEF after
  <2>3. after \in SUBSET Disturbance /\ OneOpen(after)
    BY <1>1, <1>9, <2>1, <2>2 DEF OneOpen
  <2>4. DisjointBut(after, lates2)
    BY <1>2, <1>9, <2>1, <2>2 DEF DisjointBut, Disjoint, Before, IsCurrent, EndedBefore
  <2>5. WellTimed(after)
    BY <2>1, <2>2 DEF RowsInv, WellTimed
  <2>6. StartedBefore(after, t + 1)
    BY <1>1, <1>4, <2>1, <2>2 DEF StartedBefore
  <2>7. Agrees(log, after)
    BY <1>5, <1>7, <2>1, <2>2 DEF RowsInv, Agrees
  <2>8. PhaseOf(ds) = "normal"
    BY <1>9 DEF PhaseOf
  <2>9. PhaseOf(after) = "community"
    BY <1>9, <2>1, <2>2 DEF PhaseOf
  <2>. QED
    BY <1>8, <2>3, <2>4, <2>5, <2>6, <2>7, <2>8, <2>9
<1>10. ASSUME NEW d \in ds, ~d.UEnded, after = (ds \ {d}) \cup {Amend(d, b)},
              Amend(d, b) \in Disturbance,
              Amend(d, b) = [d EXCEPT !.Statuses = @ \cup {b.Time}]
       PROVE  RowsInv(r1, t, lates2) /\ PhaseOf(after) = PhaseOf(ds)
  <2>. DEFINE a == Amend(d, b)
  <2>1. /\ a.Official = d.Official
        /\ a.OStartTime = d.OStartTime /\ a.OEndTime = d.OEndTime /\ a.OEnded = d.OEnded
        /\ a.UStartTime = d.UStartTime /\ a.UEndTime = d.UEndTime /\ a.UEnded = d.UEnded
        /\ a.Statuses = d.Statuses \cup {b.Time}
    BY <1>1, <1>10, StatusAdded
  <2>2. a \in Disturbance
    BY <1>10
  <2>. HIDE DEF a
  <2>3. after = (ds \ {d}) \cup {a}
    BY <1>10 DEF a
  <2>. HIDE DEF after
  <2>4. after \in SUBSET Disturbance /\ OneOpen(after)
    BY <1>1, <1>10, <2>1, <2>2, <2>3 DEF OneOpen
  <2>5. DisjointBut(after, lates2)
    BY <1>2, <2>1, <2>3 DEF DisjointBut, Disjoint, Before
  <2>6. WellTimed(after)
    BY <1>1, <2>1, <2>3 DEF RowsInv, WellTimed
  <2>7. StartedBefore(after, t + 1)
    BY <1>4, <2>1, <2>3 DEF StartedBefore
  <2>8. Agrees(log, after)
    <3>1. ASSUME NEW q \in Latest(r.log)
          PROVE  /\ q.IsDowntime => \E e \in after : ~e.UEnded /\ (IsOfficial(q) => e.Official)
                 /\ ~q.IsDowntime =>
                      \A e \in after : \/ e.UEnded
                                       \/ e.Official <=> ~IsOfficial(q)
                                       \/ ~IsOfficial(q) /\ q.Time \notin e.Statuses
      BY <1>7, <2>1, <2>3, <3>1 DEF RowsInv, Agrees
    <3>2. \E e \in after : ~e.UEnded
      BY <1>10, <2>1, <2>3
    <3>. QED
      BY <1>5, <3>1, <3>2 DEF Agrees
  <2>9. PhaseOf(after) = PhaseOf(ds)
    BY <2>1, <2>3 DEF PhaseOf
  <2>. QED
    BY <1>8, <2>4, <2>5, <2>6, <2>7, <2>8, <2>9
<1>11. CASE ~IsDuplicate(r.log, b)
  <2>1. AddStatus(r, b) = r1
    BY <1>11 DEF AddStatus
  <2>2. r1.disturbances = after
    OBVIOUS
  <2>3. \/ (\A d \in ds : d.UEnded) /\ after = ds \cup {Open(b)}
        \/ \E d \in ds : /\ ~d.UEnded /\ after = (ds \ {d}) \cup {Amend(d, b)}
                         /\ Amend(d, b) \in Disturbance
                         /\ Amend(d, b) = [d EXCEPT !.Statuses = @ \cup {b.Time}]
    BY <1>1, TwoOutcomes
  <2>. HIDE DEF r1, after
  <2>. QED
    BY <1>9, <1>10, <2>1, <2>2, <2>3
<1>. QED
  BY <1>3, <1>11

-----------------------------------------------------------------------------
(***************************************************************************)
(* The steps of LineStatus.                                                *)
(***************************************************************************)
\* The phase moves as the timeline allows for what the operator now says.
PhaseMoves ==
    \/ phase' = phase /\ operatorDown' = operatorDown
    \/ phase' = "official" /\ operatorDown' = TRUE
    \/ /\ phase' = IF phase = "official" THEN "normal" ELSE phase
       /\ operatorDown' = FALSE
    \/ phase = "normal" /\ phase' = "community" /\ operatorDown' = operatorDown
    \/ phase = "community" /\ phase' = "normal" /\ operatorDown' = operatorDown

LEMMA StatusTypes ==
    ASSUME NEW t \in Nat \ {0}, NEW isDowntime \in BOOLEAN
    PROVE  /\ \A text \in OperatorTexts \cup {OkText} :
                 LET s == StatusAt(t, isDowntime, text, "mlxscraper-pt-ml")
                 IN  s \in Status /\ IsOfficial(s)
           /\ \A text \in BotTexts :
                 LET s == StatusAt(t, isDowntime, text, "underlx-bot")
                 IN  s \in Status /\ ~IsOfficial(s)
           /\ \A text \in ReportTexts :
                 LET s == CommunityStatus(t, isDowntime, text)
                 IN  s \in Status /\ ~IsOfficial(s)
BY LineStatusAssumption DEF StatusAt, CommunityStatus, Status, IsOfficial

\* The three kinds of steps: those that add no status,
AddsNone ==
    /\ rows' = rows /\ operatorDown' = operatorDown /\ late' = late
    /\ now' \in {now, now + 1}

\* those that add one stamped with the clock,
AddsStamped(s) ==
    /\ s.Time = now + 1 /\ now' = now + 1
    /\ rows' = AddStatus(rows, s)
    /\ operatorDown' = IF IsOfficial(s) THEN s.IsDowntime ELSE operatorDown
    /\ late' = late

\* and those that add a first status.
AddsFirst(e) ==
    /\ evaluations[e].next = "begin"
    /\ rows' = AddStatus(rows, BeginStatus(evaluations[e].at))
    /\ late' = IF evaluations[e].overtaken THEN late \cup {evaluations[e].at} ELSE late
    /\ now' = now /\ operatorDown' = operatorDown

LEMMA StepKinds ==
    ASSUME now \in Nat, Next
    PROVE  \/ AddsNone
           \/ \E s \in Status : AddsStamped(s)
           \/ \E e \in Evaluations : AddsFirst(e)
<1>1. Stamp => now' = now + 1 /\ now' \in Nat \ {0}
  BY DEF Stamp
<1>2. CASE Tick
  BY <1>1, <1>2 DEF Tick, AddsNone
<1>3. ASSUME NEW text \in OperatorTexts \cup {OkText}, ScrapeStatus(text)
      PROVE  \E s \in Status : AddsStamped(s)
  <2>. DEFINE s == StatusAt(now', text # OkText, text, "mlxscraper-pt-ml")
  <2>1. now' = now + 1 /\ now' \in Nat \ {0}
    BY <1>1, <1>3 DEF ScrapeStatus
  <2>2. s \in Status /\ IsOfficial(s)
    BY <2>1, StatusTypes
  <2>3. s.Time = now + 1 /\ s.IsDowntime = (text # OkText)
    BY <2>1 DEF StatusAt
  <2>4. rows' = AddStatus(rows, s) /\ operatorDown' = (text # OkText) /\ late' = late
    BY <1>3 DEF ScrapeStatus, Add
  <2>. HIDE DEF s
  <2>5. AddsStamped(s)
    BY <2>1, <2>2, <2>3, <2>4 DEF AddsStamped
  <2>. QED
    BY <2>2, <2>5
<1>4. ASSUME NEW isDowntime \in BOOLEAN, NEW text \in BotTexts, BotStatus(isDowntime, text)
      PROVE  \E s \in Status : AddsStamped(s)
  <2>. DEFINE s == StatusAt(now', isDowntime, text, "underlx-bot")
  <2>1. now' = now + 1 /\ now' \in Nat \ {0}
    BY <1>1, <1>4 DEF BotStatus
  <2>2. s \in Status /\ ~IsOfficial(s)
    BY <2>1, StatusTypes
  <2>3. s.Time = now + 1
    BY <2>1 DEF StatusAt
  <2>4. rows' = AddStatus(rows, s) /\ operatorDown' = operatorDown /\ late' = late
    BY <1>4 DEF BotStatus, Add
  <2>. HIDE DEF s
  <2>5. AddsStamped(s)
    BY <2>1, <2>2, <2>3, <2>4 DEF AddsStamped
  <2>. QED
    BY <2>2, <2>5
<1>5. ASSUME NEW e \in Evaluations, Evaluate(e)
      PROVE  AddsNone
  BY <1>5 DEF Evaluate, AddsNone
<1>6. ASSUME NEW e \in Evaluations, CompareWithLast(e)
      PROVE  AddsNone
  BY <1>6 DEF CompareWithLast, AddsNone
<1>7. ASSUME NEW e \in Evaluations, AddFirst(e)
      PROVE  AddsFirst(e)
  BY <1>7 DEF AddFirst, Add, AddsFirst
<1>8. ASSUME NEW e \in Evaluations, AddFinal(e)
      PROVE  \E s \in Status : AddsStamped(s)
  <2>. DEFINE next == evaluations[e].next
              s == CommunityStatus(now', next # "solve", FinalText[next])
  <2>1. now' = now + 1 /\ now' \in Nat \ {0}
    BY <1>1, <1>8 DEF AddFinal
  <2>2. next \in {"confirm", "reconfirm", "solve"}
    BY <1>8 DEF AddFinal, Finals
  <2>3. FinalText[next] \in ReportTexts /\ (next # "solve") \in BOOLEAN
    BY <2>2 DEF FinalText, ReportTexts
  <2>4. s \in Status /\ ~IsOfficial(s)
    BY <2>1, <2>3, StatusTypes
  <2>5. s.Time = now + 1
    BY <2>1 DEF CommunityStatus, StatusAt
  <2>6. rows' = AddStatus(rows, s) /\ operatorDown' = operatorDown /\ late' = late
    BY <1>8 DEF AddFinal, Add
  <2>. HIDE DEF s
  <2>7. AddsStamped(s)
    BY <2>1, <2>4, <2>5, <2>6 DEF AddsStamped
  <2>. QED
    BY <2>4, <2>7
<1>. QED
  BY <1>2, <1>3, <1>4, <1>5, <1>6, <1>7, <1>8 DEF Next

\* An evaluation about to add a first status was, and then the rows are as they
\* were or it is overtaken; or it has just read the line.
StillToBegin(e) ==
    /\ evaluations[e].next = "begin"
    /\ evaluations'[e].at = evaluations[e].at
    /\ ~evaluations'[e].overtaken => ~evaluations[e].overtaken /\ rows' = rows

JustRead(e) ==
    LET t == evaluations'[e].at
    IN  /\ rows' = rows /\ now' = now
        /\ t \in 1..now /\ AfterLast(rows.disturbances, t)
        /\ \A s \in rows.log : s.Time = t => s = BeginStatus(t)
        /\ ~evaluations'[e].overtaken => OngoingDisturbances(rows.disturbances) = {}

EvaluationsMove ==
    /\ evaluations' \in [Evaluations -> Evaluation]
    /\ \A e \in Evaluations :
           evaluations'[e].next = "begin" => StillToBegin(e) \/ JustRead(e)

LEMMA ToDoTypes ==
    \A next \in {"evaluate", "start"} \cup Finals :
        ToDo(next) \in Evaluation /\ ToDo(next).next = next
BY DEF ToDo, Evaluation, Finals

\* What recording a status does to evaluations that the caller leaves at evals.
LEMMA AddMoves ==
    ASSUME evaluations \in [Evaluations -> Evaluation],
           NEW evals \in [Evaluations -> Evaluation], NEW s, Add(s, evals),
           \A e \in Evaluations : evals[e].next = "begin" => evals[e] = evaluations[e]
    PROVE  EvaluationsMove
<1>1. ASSUME NEW e \in Evaluations
      PROVE  /\ Overtaken(evals)[e] \in Evaluation
             /\ Overtaken(evals)[e].next = evals[e].next
             /\ Overtaken(evals)[e].at = evals[e].at
             /\ evals[e].next = "begin" => Overtaken(evals)[e].overtaken
  <2>1. evals[e] \in Evaluation
    OBVIOUS
  <2>. QED
    BY <2>1 DEF Overtaken, Evaluation
<1>2. Overtaken(evals) \in [Evaluations -> Evaluation]
  <2>1. Overtaken(evals) = [e \in Evaluations |-> Overtaken(evals)[e]]
    BY DEF Overtaken
  <2>. QED
    BY <1>1, <2>1
<1>3. CASE rows' = rows
  <2>1. evaluations' = evals
    BY <1>3 DEF Add
  <2>. QED
    BY <1>3, <2>1 DEF EvaluationsMove, StillToBegin
<1>4. CASE rows' # rows
  <2>1. evaluations' = Overtaken(evals)
    BY <1>4 DEF Add
  <2>. QED
    BY <1>1, <1>2, <2>1 DEF EvaluationsMove, StillToBegin
<1>. QED
  BY <1>3, <1>4

\* An evaluation that goes elsewhere than to begin.
LEMMA GoesMoves ==
    ASSUME evaluations \in [Evaluations -> Evaluation], NEW e \in Evaluations,
           NEW next \in {"evaluate", "start"} \cup Finals, rows' = rows,
           Goes(e, ToDo(next))
    PROVE  EvaluationsMove
<1>1. ToDo(next) \in Evaluation /\ ToDo(next).next # "begin"
  BY ToDoTypes DEF Finals
<1>. QED
  BY <1>1 DEF Goes, EvaluationsMove, StillToBegin

LEMMA NextMovesEvaluations ==
    ASSUME now \in Nat, evaluations \in [Evaluations -> Evaluation], Next
    PROVE  EvaluationsMove
<1>1. CASE Tick
  BY <1>1 DEF Tick, EvaluationsMove, StillToBegin
<1>2. ASSUME NEW s, Add(s, evaluations)
      PROVE  EvaluationsMove
  BY <1>2, AddMoves
<1>3. ASSUME NEW e \in Evaluations, Evaluate(e)
      PROVE  EvaluationsMove
  BY <1>3, GoesMoves DEF Evaluate, Finals
<1>4. ASSUME NEW e \in Evaluations, CompareWithLast(e)
      PROVE  EvaluationsMove
  <2>. DEFINE ds == rows.disturbances
              begin(t) == [next |-> "begin", at |-> t, overtaken |-> OngoingDisturbances(ds) # {}]
  <2>1. rows' = rows /\ now' = now
    BY <1>4 DEF CompareWithLast
  <2>2. ASSUME NEW t \in 1..now, AfterLast(ds, t), Goes(e, begin(t)),
               \A s \in rows.log : s.Time = t => s = BeginStatus(t)
        PROVE  EvaluationsMove
    <3>1. t \in Nat /\ (OngoingDisturbances(ds) # {}) \in BOOLEAN
      OBVIOUS
    <3>2. begin(t) \in Evaluation
      BY <3>1 DEF Evaluation
    <3>3. begin(t).at = t /\ (~begin(t).overtaken => OngoingDisturbances(ds) = {})
      OBVIOUS
    <3>. HIDE DEF begin
    <3>4. evaluations' \in [Evaluations -> Evaluation]
      BY <2>2, <3>2 DEF Goes
    <3>5. evaluations'[e] = begin(t) /\ \A f \in Evaluations : f # e => evaluations'[f] = evaluations[f]
      BY <2>2 DEF Goes
    <3>6. JustRead(e)
      BY <2>1, <2>2, <3>3, <3>5 DEF JustRead
    <3>. QED
      BY <2>1, <3>4, <3>5, <3>6 DEF EvaluationsMove, StillToBegin
  <2>3. ASSUME NEW next \in {"evaluate", "confirm", "reconfirm"}, Goes(e, ToDo(next))
        PROVE  EvaluationsMove
    BY <2>1, <2>3, GoesMoves DEF Finals
  <2>. QED
    BY <1>4, <2>2, <2>3 DEF CompareWithLast
<1>5. ASSUME NEW e \in Evaluations, NEW s, NEW next \in {"evaluate", "confirm"},
             Add(s, [evaluations EXCEPT ![e] = ToDo(next)])
      PROVE  EvaluationsMove
  <2>. DEFINE evals == [evaluations EXCEPT ![e] = ToDo(next)]
  <2>1. ToDo(next) \in Evaluation /\ ToDo(next).next # "begin"
    BY ToDoTypes DEF Finals
  <2>2. evals \in [Evaluations -> Evaluation]
    BY <2>1
  <2>3. \A f \in Evaluations : evals[f].next = "begin" => evals[f] = evaluations[f]
    BY <2>1
  <2>4. Add(s, evals)
    BY <1>5
  <2>. HIDE DEF evals
  <2>. QED
    BY <2>2, <2>3, <2>4, AddMoves
<1>6. ASSUME NEW e \in Evaluations, AddFirst(e)
      PROVE  EvaluationsMove
  BY <1>5, <1>6 DEF AddFirst
<1>7. ASSUME NEW e \in Evaluations, AddFinal(e)
      PROVE  EvaluationsMove
  BY <1>5, <1>7 DEF AddFinal
<1>. QED
  BY <1>1, <1>2, <1>3, <1>4, <1>6, <1>7 DEF Next, ScrapeStatus, BotStatus

LEMMA IInvIsRowsInv ==
    IInv <=> /\ now \in Nat
             /\ operatorDown \in BOOLEAN
             /\ evaluations \in [Evaluations -> Evaluation]
             /\ late \subseteq 1..now
             /\ \A e \in Evaluations :
                    evaluations[e].next = "begin" => evaluations[e].at \in 1..now
             /\ RowsInv(rows, now, late)
             /\ OfficialFollowsOperator
             /\ FirstsAreCurrent
<1>1. ASSUME now \in Nat, rows \in LineRows
      PROVE  StartedBefore(rows.disturbances, now + 1)
               <=> \A d \in rows.disturbances :
                     d.UStartTime <= now /\ d.UEndTime <= now /\ d.OStartTime <= now
  BY <1>1 DEF StartedBefore, LineRows, Disturbance
<1>. QED
  BY <1>1 DEF IInv, RowsInv, TypeOK, AtMostOneOngoing, DisjointIntervals,
              OfficialWithinUnofficial, LastStatusAgrees

LEMMA BeginStatusFacts ==
    ASSUME NEW t \in Nat \ {0}
    PROVE  /\ BeginStatus(t) \in Status /\ BeginStatus(t).IsDowntime
           /\ ~IsOfficial(BeginStatus(t)) /\ BeginStatus(t).Time = t
<1>1. BeginStatus(t) \in Status /\ ~IsOfficial(BeginStatus(t))
  BY StatusTypes DEF BeginStatus, ReportTexts
<1>2. BeginStatus(t).IsDowntime /\ BeginStatus(t).Time = t
  BY DEF BeginStatus, CommunityStatus, StatusAt
<1>. QED
  BY <1>1, <1>2

\* Every step keeps the rows in order and moves the phase as it may.
LEMMA NextKeepsRows ==
    ASSUME IInv, Next
    PROVE  /\ now' \in {now, now + 1} /\ late' \subseteq 1..now'
           /\ RowsInv(rows, now, late)' /\ PhaseMoves
<1>1. /\ now \in Nat /\ RowsInv(rows, now, late) /\ late \subseteq 1..now
      /\ FirstsAreCurrent
      /\ \A e \in Evaluations : evaluations[e].next = "begin" => evaluations[e].at \in 1..now
  BY IInvIsRowsInv
<1>2. 1..now \subseteq 1..(now + 1)
  BY <1>1
<1>3. ASSUME AddsNone
      PROVE  /\ now' \in {now, now + 1} /\ late' \subseteq 1..now'
             /\ RowsInv(rows, now, late)' /\ PhaseMoves
  <2>1. RowsInv(rows, now + 1, late)
    BY <1>1, RowsInvLater
  <2>. QED
    BY <1>1, <1>2, <1>3, <2>1 DEF AddsNone, PhaseMoves, phase
<1>4. ASSUME NEW s \in Status, AddsStamped(s)
      PROVE  /\ now' \in {now, now + 1} /\ late' \subseteq 1..now'
             /\ RowsInv(rows, now, late)' /\ PhaseMoves
  <2>1. /\ RowsInv(rows', now + 1, late)
        /\ phase' = PhaseAfter(phase, s) \/ (~IsOfficial(s) /\ phase' = phase)
    BY <1>1, <1>4, AddStatusStep DEF AddsStamped, phase
  <2>2. phase \in {"normal", "community", "official"}
    BY DEF phase, PhaseOf
  <2>3. s.IsDowntime \in BOOLEAN
    BY DEF Status
  <2>4. PhaseMoves
    <3>1. CASE ~IsOfficial(s)
      BY <1>4, <2>1, <2>2, <2>3, <3>1 DEF AddsStamped, PhaseMoves, PhaseAfter
    <3>2. CASE IsOfficial(s) /\ s.IsDowntime
      BY <1>4, <2>1, <2>2, <2>3, <3>2 DEF AddsStamped, PhaseMoves, PhaseAfter
    <3>3. CASE IsOfficial(s) /\ ~s.IsDowntime
      BY <1>4, <2>1, <2>2, <2>3, <3>3 DEF AddsStamped, PhaseMoves, PhaseAfter
    <3>. QED
      BY <3>1, <3>2, <3>3
  <2>. QED
    BY <1>1, <1>2, <1>4, <2>1, <2>4 DEF AddsStamped
<1>5. ASSUME NEW e \in Evaluations, AddsFirst(e)
      PROVE  /\ now' \in {now, now + 1} /\ late' \subseteq 1..now'
             /\ RowsInv(rows, now, late)' /\ PhaseMoves
  <2>. DEFINE t == evaluations[e].at
              b == BeginStatus(t)
  <2>1. t \in 1..now /\ t \in Nat \ {0} /\ t <= now
    BY <1>1, <1>5 DEF AddsFirst
  <2>2. b \in Status /\ b.IsDowntime /\ ~IsOfficial(b) /\ b.Time = t
    BY <2>1, BeginStatusFacts
  <2>3. OnlyAtItsTime(rows.log, b)
    BY <1>1, <1>5, <2>2 DEF AddsFirst, FirstsAreCurrent, OnlyAtItsTime
  <2>4. late \subseteq late' /\ (t \in late' \/ IsCurrent(rows, b))
    BY <1>1, <1>5, <2>2 DEF AddsFirst, FirstsAreCurrent, IsCurrent, OngoingDisturbances
  <2>5. rows' = AddStatus(rows, b) /\ now' = now /\ operatorDown' = operatorDown
    BY <1>5 DEF AddsFirst
  <2>6. late' \subseteq 1..now
    BY <1>1, <1>5, <2>1 DEF AddsFirst
  <2>. HIDE DEF b, t
  <2>7. /\ RowsInv(AddStatus(rows, b), now, late')
        /\ \/ PhaseOf(AddStatus(rows, b).disturbances) = PhaseOf(rows.disturbances)
           \/ /\ PhaseOf(rows.disturbances) = "normal"
              /\ PhaseOf(AddStatus(rows, b).disturbances) = "community"
    BY <1>1, <2>1, <2>2, <2>3, <2>4, FirstStatusStep
  <2>8. /\ RowsInv(rows', now, late')
        /\ phase' = phase \/ (phase = "normal" /\ phase' = "community")
    BY <2>5, <2>7 DEF phase
  <2>. QED
    BY <1>1, <2>5, <2>6, <2>8 DEF PhaseMoves
<1>. QED
  BY <1>1, <1>3, <1>4, <1>5, StepKinds

\* What first statuses were compared with stays so, or they are overtaken.
LEMMA NextKeepsFirsts ==
    ASSUME IInv, Next
    PROVE  /\ FirstsAreCurrent'
           /\ \A e \in Evaluations :
                  evaluations'[e].next = "begin" => evaluations'[e].at \in 1..now'
<1>1. /\ now \in Nat /\ FirstsAreCurrent /\ evaluations \in [Evaluations -> Evaluation]
      /\ rows.log \in SUBSET Status /\ rows.disturbances \in SUBSET Disturbance
      /\ \A e \in Evaluations : evaluations[e].next = "begin" => evaluations[e].at \in 1..now
  BY IInvIsRowsInv DEF RowsInv, LineRows
<1>2. /\ EvaluationsMove
      /\ AddsNone \/ (\E s \in Status : AddsStamped(s)) \/ (\E e \in Evaluations : AddsFirst(e))
  BY <1>1, NextMovesEvaluations, StepKinds
<1>3. now' \in {now, now + 1}
  BY <1>2 DEF AddsNone, AddsStamped, AddsFirst
<1>. SUFFICES ASSUME NEW e \in Evaluations, evaluations'[e].next = "begin"
              PROVE  LET t == evaluations'[e].at
                     IN  /\ t \in 1..now'
                         /\ \A s \in rows'.log : s.Time = t => s = BeginStatus(t)
                         /\ ~evaluations'[e].overtaken =>
                                /\ OngoingDisturbances(rows'.disturbances) = {}
                                /\ EndedBefore(rows'.disturbances, t)
  BY DEF FirstsAreCurrent
<1>. DEFINE t == evaluations'[e].at
<1>4. CASE JustRead(e)
  BY <1>1, <1>4 DEF JustRead, AfterLast
<1>5. CASE StillToBegin(e)
  <2>1. /\ evaluations[e].next = "begin" /\ t = evaluations[e].at /\ t \in 1..now
        /\ ~evaluations'[e].overtaken => ~evaluations[e].overtaken /\ rows' = rows
    BY <1>1, <1>5 DEF StillToBegin
  <2>2. \A s \in rows.log : s.Time = t => s = BeginStatus(t)
    BY <1>1, <2>1 DEF FirstsAreCurrent
  <2>3. ~evaluations'[e].overtaken =>
            /\ OngoingDisturbances(rows'.disturbances) = {}
            /\ EndedBefore(rows'.disturbances, t)
    BY <1>1, <2>1 DEF FirstsAreCurrent
  <2>. HIDE DEF t
  <2>4. t \in 1..now'
    BY <1>1, <1>3, <2>1
  <2>5. ASSUME NEW s, rows' = AddStatus(rows, s), s.Time = t => s = BeginStatus(t)
        PROVE  \A q \in rows'.log : q.Time = t => q = BeginStatus(t)
    <3>1. rows'.log \subseteq rows.log \cup {s}
      BY <2>5 DEF AddStatus
    <3>. QED
      BY <2>2, <2>5, <3>1
  <2>6. \A q \in rows'.log : q.Time = t => q = BeginStatus(t)
    <3>1. CASE AddsNone
      BY <2>2, <3>1 DEF AddsNone
    <3>2. ASSUME NEW s \in Status, AddsStamped(s)
          PROVE  \A q \in rows'.log : q.Time = t => q = BeginStatus(t)
      <4>1. s.Time # t /\ rows' = AddStatus(rows, s)
        BY <1>1, <2>1, <3>2 DEF AddsStamped
      <4>. QED
        BY <2>5, <4>1
    <3>3. ASSUME NEW f \in Evaluations, AddsFirst(f)
          PROVE  \A q \in rows'.log : q.Time = t => q = BeginStatus(t)
      <4>1. evaluations[f].at \in Nat \ {0} /\ rows' = AddStatus(rows, BeginStatus(evaluations[f].at))
        BY <1>1, <3>3 DEF AddsFirst
      <4>2. BeginStatus(evaluations[f].at).Time = evaluations[f].at
        BY <4>1, BeginStatusFacts
      <4>. QED
        BY <2>5, <4>1, <4>2
    <3>. QED
      BY <1>2, <3>1, <3>2, <3>3
  <2>. QED
    BY <2>3, <2>4, <2>6 DEF t
<1>. QED
  BY <1>2, <1>4, <1>5 DEF EvaluationsMove

LEMMA Invariance == Spec => []IInv
<1>1. Init => IInv
  <2>. SUFFICES ASSUME Init
                PROVE  IInv
    OBVIOUS
  <2>1. rows \in LineRows /\ rows.log = {} /\ rows.disturbances = {}
    BY DEF Init, NoRows, LineRows
  <2>2. RowsInv(rows, now, late)
    BY <2>1 DEF RowsInv, StartedBefore, OneOpen, DisjointBut, Disjoint, WellTimed, Agrees, Latest
  <2>3. OfficialFollowsOperator
    BY <2>1 DEF Init, OfficialFollowsOperator, phase, PhaseOf
  <2>4. /\ evaluations \in [Evaluations -> Evaluation]
        /\ \A e \in Evaluations : evaluations[e].next # "begin"
    BY ToDoTypes DEF Init
  <2>. QED
    BY <2>2, <2>3, <2>4, IInvIsRowsInv DEF Init, FirstsAreCurrent
<1>2. IInv /\ [Next]_vars => IInv'
  <2>. SUFFICES ASSUME IInv, [Next]_vars
                PROVE  IInv'
    OBVIOUS
  <2>1. CASE UNCHANGED vars
    BY <2>1 DEF vars, IInv, TypeOK, AtMostOneOngoing, DisjointIntervals,
       OfficialWithinUnofficial, LastStatusAgrees, OfficialFollowsOperator, phase,
       FirstsAreCurrent
  <2>2. CASE Next
    <3>1. /\ now \in Nat /\ operatorDown \in BOOLEAN
          /\ evaluations \in [Evaluations -> Evaluation]
          /\ RowsInv(rows, now, late) /\ OfficialFollowsOperator
      BY IInvIsRowsInv
    <3>2. /\ now' \in Nat /\ late' \subseteq 1..now'
          /\ RowsInv(rows, now, late)' /\ PhaseMoves
      BY <2>2, <3>1, NextKeepsRows
    <3>3. operatorDown' \in BOOLEAN /\ OfficialFollowsOperator'
      <4>1. operatorDown <=> phase = "official"
        BY <3>1 DEF OfficialFollowsOperator
      <4>2. operatorDown' \in BOOLEAN /\ (operatorDown' <=> phase' = "official")
        BY <3>1, <3>2, <4>1 DEF PhaseMoves
      <4>. QED
        BY <4>2 DEF OfficialFollowsOperator
    <3>4. /\ evaluations' \in [Evaluations -> Evaluation] /\ FirstsAreCurrent'
          /\ \A e \in Evaluations :
                 evaluations'[e].next = "begin" => evaluations'[e].at \in 1..now'
      BY <2>2, <3>1, NextMovesEvaluations, NextKeepsFirsts DEF EvaluationsMove
    <3>5. (/\ now \in Nat
           /\ operatorDown \in BOOLEAN
           /\ evaluations \in [Evaluations -> Evaluation]
           /\ late \subseteq 1..now
           /\ \A e \in Evaluations :
                  evaluations[e].next = "begin" => evaluations[e].at \in 1..now
           /\ RowsInv(rows, now, late)
           /\ OfficialFollowsOperator
           /\ FirstsAreCurrent)'
      BY <3>2, <3>3, <3>4
    <3>. QED
      BY <3>5, IInvIsRowsInv, PTL
  <2>. QED
    BY <2>1, <2>2
<1>. QED
  BY <1>1, <1>2, PTL DEF Spec

-----------------------------------------------------------------------------
(***************************************************************************)
(* What the README states.                                                 *)
(***************************************************************************)
\* The types of the rows, and no time after now, whatever AddStatus is given.
THEOREM TypeCorrect == Spec => []TypeOK
<1>1. IInv => TypeOK
  BY DEF IInv
<1>. QED
  BY <1>1, Invariance, PTL

\* At most one disturbance of a line is ongoing (compute/reports.go:204).
THEOREM OneOngoing == Spec => []AtMostOneOngoing
<1>1. IInv => AtMostOneOngoing
  BY DEF IInv
<1>. QED
  BY <1>1, Invariance, PTL

\* The disturbances of a line do not overlap, those that startDisturbance dates
\* in the past included, unless their first status was overtaken: another was
\* recorded after the handler had read the line and before it added its own.
THEOREM IntervalsDisjoint == Spec => []DisjointIntervals
<1>1. IInv => DisjointIntervals
  BY DEF IInv
<1>. QED
  BY <1>1, Invariance, PTL

\* The official interval of a disturbance is within the unofficial one.
THEOREM OfficialWithin == Spec => []OfficialWithinUnofficial
<1>1. IInv => OfficialWithinUnofficial
  BY DEF IInv
<1>. QED
  BY <1>1, Invariance, PTL

\* The status AddStatus compares with agrees with the phase of the line, but for
\* a disturbance that an older first status began after it.
THEOREM LastAgrees == Spec => []LastStatusAgrees
<1>1. IInv => LastStatusAgrees
  BY DEF IInv
<1>. QED
  BY <1>1, Invariance, PTL

\* AddStatus, with its duplicates, early returns and statuses in the past,
\* implements the timeline a line promises.
THEOREM ImplementsTimeline == Spec => Timeline
<1>1. Init => T!TimelineInit
  BY DEF Init, NoRows, T!TimelineInit, phase, PhaseOf
<1>2. IInv /\ [Next]_vars => [T!TimelineNext]_<<phase, operatorDown>>
  <2>. SUFFICES ASSUME IInv, [Next]_vars
                PROVE  [T!TimelineNext]_<<phase, operatorDown>>
    OBVIOUS
  <2>1. CASE UNCHANGED vars
    BY <2>1 DEF vars, phase
  <2>2. CASE Next
    <3>1. PhaseMoves
      BY <2>2, NextKeepsRows
    <3>. QED
      BY <3>1 DEF PhaseMoves, T!TimelineNext, T!OperatorReports, T!CommunityReports,
         T!AfterOperator, T!AfterCommunity
  <2>. QED
    BY <2>1, <2>2
<1>. QED
  BY <1>1, <1>2, Invariance, PTL DEF Spec, Timeline, T!TimelineSpec, T!timelineVars
-----------------------------------------------------------------------------
(***************************************************************************)
(* Disturbances that ended.                                                *)
(***************************************************************************)
\* The first status that an evaluation adds.
LEMMA FirstIsStatus ==
    ASSUME IInv, NEW e \in Evaluations, AddsFirst(e)
    PROVE  LET b == BeginStatus(evaluations[e].at)
           IN  b \in Status /\ b.IsDowntime /\ ~IsOfficial(b) /\ b.Time = evaluations[e].at
<1>1. evaluations[e].at \in Nat \ {0}
  BY DEF IInv, TypeOK, AddsFirst
<1>. QED
  BY <1>1, BeginStatusFacts

\* What AddStatus amends has not ended.
LEMMA EndedKept ==
    ASSUME NEW r, r.disturbances \in SUBSET Disturbance, OneOpen(r.disturbances),
           NEW s \in Status, NEW d \in r.disturbances, d.UEnded
    PROVE  d \in AddStatus(r, s).disturbances
<1>. DEFINE ds == r.disturbances
<1>1. d \in DisturbancesAfter(ds, s)
  <2>1. CASE OngoingDisturbances(ds) = {}
    BY <2>1 DEF DisturbancesAfter
  <2>2. CASE OngoingDisturbances(ds) # {}
    <3>1. PICK e \in ds : ~e.UEnded
      BY <2>2 DEF OngoingDisturbances
    <3>2. OngoingDisturbances(ds) = {e}
      BY <3>1 DEF OngoingDisturbances, OneOpen
    <3>3. e.UStartTime <= e.UStartTime
      BY DEF Disturbance
    <3>4. LatestStarted({e}) = e
      BY <3>3 DEF LatestStarted
    <3>. QED
      BY <3>1, <3>2, <3>4 DEF DisturbancesAfter
  <2>. QED
    BY <2>1, <2>2
<1>. QED
  BY <1>1 DEF AddStatus

LEMMA NextKeepsEnded ==
    ASSUME IInv, Next, NEW d \in rows.disturbances, d.UEnded
    PROVE  d \in rows'.disturbances
<1>1. /\ now \in Nat
      /\ rows.disturbances \in SUBSET Disturbance /\ OneOpen(rows.disturbances)
  BY DEF IInv, TypeOK, LineRows, AtMostOneOngoing
<1>2. ASSUME NEW s \in Status, rows' = AddStatus(rows, s)
      PROVE  d \in rows'.disturbances
  BY <1>1, <1>2, EndedKept
<1>3. ASSUME NEW e \in Evaluations, AddsFirst(e)
      PROVE  d \in rows'.disturbances
  BY <1>2, <1>3, FirstIsStatus DEF AddsFirst
<1>. QED
  BY <1>1, <1>2, <1>3, StepKinds DEF AddsNone, AddsStamped

\* The history of a line is final: no status, late, repeated or dated in the
\* past, changes a disturbance that has ended.
THEOREM HistoryIsFinal == Spec => EndedIsFinal
<1>. DEFINE Final == \A d \in rows.disturbances : d.UEnded => d \in rows'.disturbances
<1>1. ASSUME IInv, [Next]_vars
      PROVE  [Final]_vars
  BY <1>1, NextKeepsEnded DEF Final
<1>2. Spec => [][Final]_vars
  <2>. HIDE DEF Final
  <2>. QED
    BY <1>1, Invariance, PTL DEF Spec
<1>. QED
  BY <1>2, PTL DEF EndedIsFinal

-----------------------------------------------------------------------------
(***************************************************************************)
(* Downtime statuses.                                                      *)
(***************************************************************************)
\* Disturbances hold statuses of the line and no others.
OwnStatuses(r) == \A d \in r.disturbances : d.Statuses \subseteq {q.Time : q \in r.log}

AInv(r, lates) == Attributed(r.log, r.disturbances, lates) /\ OwnStatuses(r)

\* Where a downtime status is, of a time among lates or not.
HasPlace(n, d, ds, lates) ==
    /\ n \in d.Statuses
    /\ d.UEnded => n < d.UEndTime
    /\ n \notin lates => d.UStartTime <= n /\ \A e \in ds : n \in e.Statuses => e = d

LEMMA AttributedIsPlaced ==
    ASSUME NEW log, NEW ds, NEW lates
    PROVE  Attributed(log, ds, lates)
             <=> \A s \in log : s.IsDowntime => \E d \in ds : HasPlace(s.Time, d, ds, lates)
BY DEF Attributed, HasPlace

\* A status that is not in the log, after all there is in what is ongoing.
NewTo(r, s) ==
    /\ \A q \in r.log : q.Time # s.Time
    /\ \A d \in r.disturbances :
           ~d.UEnded => d.UStartTime < s.Time /\ \A n \in d.Statuses : n < s.Time

LEMMA StatusesOfAmended ==
    ASSUME NEW d \in Disturbance, NEW s \in Status
    PROVE  Amend(d, s).Statuses = d.Statuses \cup {s.Time}
<1>. DEFINE OEnd == IF d.Official THEN s.Time ELSE d.OEndTime
            Closed == [d EXCEPT !.OEndTime = OEnd, !.OEnded = d.Official,
                                !.UEndTime = s.Time, !.UEnded = TRUE]
            With(c) == [c EXCEPT !.Statuses = @ \cup {s.Time}]
<1>1. ASSUME NEW c \in Disturbance
      PROVE  With(c).Statuses = c.Statuses \cup {s.Time}
  BY DEF Disturbance
<1>2. /\ s.IsDowntime \in BOOLEAN /\ s.Time \in Nat \ {0}
      /\ d.Official \in BOOLEAN /\ OEnd \in Nat
  BY DEF Status, Disturbance
<1>3. MakeOfficial(d, s) \in Disturbance /\ MakeOfficial(d, s).Statuses = d.Statuses
  BY <1>2 DEF MakeOfficial, Disturbance
<1>4. Closed \in Disturbance /\ Closed.Statuses = d.Statuses
  <2>. HIDE DEF OEnd
  <2>. QED
    BY <1>2 DEF Disturbance
<1>5. Close(d, s) \in {d, Closed}
  BY DEF Close
<1>6. \E c \in Disturbance : c.Statuses = d.Statuses /\ Amend(d, s) = With(c)
  <2>. HIDE DEF Closed
  <2>. QED
    BY <1>3, <1>4, <1>5 DEF Amend
<1>. HIDE DEF With
<1>. QED
  BY <1>1, <1>6

\* A downtime status that opens a disturbance, or that is amended into the one
\* that is ongoing, is in no other; what ends ends after its statuses.
LEMMA AttributedStep ==
    ASSUME NEW r \in LineRows, OneOpen(r.disturbances), NEW lates, AInv(r, lates),
           NEW s \in Status, NewTo(r, s)
    PROVE  AInv(AddStatus(r, s), lates)
<1>. DEFINE ds == r.disturbances
            log == r.log \cup {s}
            after == DisturbancesAfter(ds, s)
            Good == /\ Attributed(log, after, lates)
                    /\ \A d \in after : d.Statuses \subseteq {q.Time : q \in log}
<1>1. r.log \in SUBSET Status /\ ds \in SUBSET Disturbance
  BY DEF LineRows
<1>2. CASE IsDuplicate(r.log, s)
  BY <1>2 DEF AddStatus
<1>3. ASSUME ~IsDuplicate(r.log, s), Good
      PROVE  AInv(AddStatus(r, s), lates)
  <2>1. AddStatus(r, s) = [log |-> log, disturbances |-> after]
    BY <1>3 DEF AddStatus
  <2>. HIDE DEF log, after
  <2>. QED
    BY <1>3, <2>1 DEF AInv, OwnStatuses
<1>4. \A d \in ds : s.Time \notin d.Statuses
  BY DEF AInv, OwnStatuses, NewTo
<1>5. ASSUME after = ds, ~s.IsDowntime
      PROVE  Good
  BY <1>5 DEF AInv, Attributed, OwnStatuses
<1>6. ASSUME after = ds \cup {Open(s)}
      PROVE  Good
  <2>. DEFINE o == Open(s)
  <2>1. o.Statuses = {s.Time} /\ o.UStartTime = s.Time /\ ~o.UEnded
    BY DEF Open
  <2>2. s.Time \in Nat
    BY DEF Status
  <2>. HIDE DEF o
  <2>3. after = ds \cup {o}
    BY <1>6 DEF o
  <2>. HIDE DEF after
  <2>4. \A d \in after : d.Statuses \subseteq {q.Time : q \in log}
    BY <2>1, <2>3 DEF AInv, OwnStatuses
  <2>5. ASSUME NEW q \in r.log, q.IsDowntime
        PROVE  \E d \in after : HasPlace(q.Time, d, after, lates)
    <3>1. PICK d \in ds : HasPlace(q.Time, d, ds, lates)
      BY <2>5, AttributedIsPlaced DEF AInv
    <3>2. HasPlace(q.Time, d, after, lates) /\ d \in after
      BY <2>1, <2>3, <3>1 DEF NewTo, HasPlace
    <3>. QED
      BY <3>2
  <2>6. o \in after /\ HasPlace(s.Time, o, after, lates)
    BY <1>4, <2>1, <2>2, <2>3 DEF HasPlace
  <2>7. Attributed(log, after, lates)
    BY <2>5, <2>6, AttributedIsPlaced
  <2>. QED
    BY <2>4, <2>7
<1>7. ASSUME NEW d \in ds, ~d.UEnded, ~Ignores(d, s), after = (ds \ {d}) \cup {Amend(d, s)}
      PROVE  Good
  <2>. DEFINE a == Amend(d, s)
  <2>1. /\ a.Statuses = d.Statuses \cup {s.Time}
        /\ a.UStartTime = d.UStartTime
        /\ a.UEnded => ~s.IsDowntime /\ a.UEndTime = s.Time
    <3>1. /\ a.UStartTime = d.UStartTime
          /\ a.UEnded <=> (~s.IsDowntime /\ (IsOfficial(s) <=> d.Official))
          /\ a.UEndTime = IF ~s.IsDowntime /\ (IsOfficial(s) <=> d.Official)
                          THEN s.Time ELSE d.UEndTime
      BY <1>1, <1>7, AmendFacts
    <3>. QED
      BY <1>1, <3>1, StatusesOfAmended
  <2>2. s.Time \in Nat /\ d.UStartTime \in Nat
    BY <1>1 DEF Status, Disturbance
  <2>3. d.UStartTime < s.Time /\ \A n \in d.Statuses : n < s.Time
    BY <1>7 DEF NewTo
  <2>. HIDE DEF a
  <2>4. after = (ds \ {d}) \cup {a}
    BY <1>7 DEF a
  <2>. HIDE DEF after
  <2>5. \A e \in after : e.Statuses \subseteq {q.Time : q \in log}
    BY <2>1, <2>4 DEF AInv, OwnStatuses
  <2>6. ASSUME NEW q \in r.log, q.IsDowntime
        PROVE  \E x \in after : HasPlace(q.Time, x, after, lates)
    <3>1. PICK x \in ds : HasPlace(q.Time, x, ds, lates)
      BY <2>6, AttributedIsPlaced DEF AInv
    <3>2. q.Time # s.Time
      BY DEF NewTo
    <3>3. CASE x = d
      <4>1. a \in after /\ q.Time \in a.Statuses /\ (a.UEnded => q.Time < a.UEndTime)
        BY <2>1, <2>3, <2>4, <3>1, <3>3 DEF HasPlace
      <4>2. q.Time \notin lates =>
                a.UStartTime <= q.Time /\ \A e \in after : q.Time \in e.Statuses => e = a
        BY <2>1, <2>4, <3>1, <3>3 DEF HasPlace
      <4>. QED
        BY <4>1, <4>2 DEF HasPlace
    <3>4. CASE x # d
      <4>1. q.Time \notin lates => q.Time \notin a.Statuses
        BY <2>1, <3>1, <3>2, <3>4 DEF HasPlace
      <4>2. x \in after /\ HasPlace(q.Time, x, after, lates)
        BY <2>4, <3>1, <3>4, <4>1 DEF HasPlace
      <4>. QED
        BY <4>2
    <3>. QED
      BY <3>3, <3>4
  <2>7. a \in after /\ (s.IsDowntime => HasPlace(s.Time, a, after, lates))
    BY <1>4, <2>1, <2>2, <2>3, <2>4 DEF HasPlace
  <2>8. Attributed(log, after, lates)
    BY <2>6, <2>7, AttributedIsPlaced
  <2>. QED
    BY <2>5, <2>8
<1>8. CASE ~IsDuplicate(r.log, s)
  <2>. HIDE DEF after, log
  <2>1. Good
    <3>1. \A d \in ds : Ignores(d, s) => ~s.IsDowntime
      BY DEF Ignores
    <3>. QED
      BY <1>1, <1>5, <1>6, <1>7, <3>1, FourOutcomes DEF after
  <2>. QED
    BY <1>3, <1>8, <2>1
<1>. QED
  BY <1>2, <1>8

\* A first status whose time is late goes to one disturbance at least, and leaves
\* the others' statuses where they are.
LEMMA LateStep ==
    ASSUME NEW r \in LineRows, OneOpen(r.disturbances), NEW lates, AInv(r, lates),
           NEW b \in Status, b.IsDowntime, ~IsOfficial(b)
    PROVE  AInv(AddStatus(r, b), lates \cup {b.Time})
<1>. DEFINE ds == r.disturbances
            log == r.log \cup {b}
            lates2 == lates \cup {b.Time}
            after == DisturbancesAfter(ds, b)
<1>1. r.log \in SUBSET Status /\ ds \in SUBSET Disturbance
  BY DEF LineRows
<1>2. ASSUME NEW q \in r.log, q.IsDowntime
      PROVE  \E x \in ds : HasPlace(q.Time, x, ds, lates) /\ HasPlace(q.Time, x, ds, lates2)
  <2>1. PICK x \in ds : HasPlace(q.Time, x, ds, lates)
    BY <1>2, AttributedIsPlaced DEF AInv
  <2>2. HasPlace(q.Time, x, ds, lates2)
    BY <2>1 DEF HasPlace
  <2>. QED
    BY <2>1, <2>2
<1>. HIDE DEF lates2
<1>3. CASE IsDuplicate(r.log, b)
  <2>1. AddStatus(r, b) = r
    BY <1>3 DEF AddStatus
  <2>2. Attributed(r.log, ds, lates2)
    BY <1>2, AttributedIsPlaced
  <2>. QED
    BY <2>1, <2>2 DEF AInv, lates2
<1>4. ASSUME NEW x, x \in after, b.Time \in x.Statuses, ~x.UEnded,
             \A e \in after : e.Statuses \subseteq {q.Time : q \in log},
             \A q \in r.log : q.IsDowntime => \E y \in after : HasPlace(q.Time, y, after, lates2),
             ~IsDuplicate(r.log, b)
      PROVE  AInv(AddStatus(r, b), lates2)
  <2>1. AddStatus(r, b) = [log |-> log, disturbances |-> after]
    BY <1>4 DEF AddStatus
  <2>2. HasPlace(b.Time, x, after, lates2)
    BY <1>4 DEF HasPlace, lates2
  <2>. HIDE DEF after
  <2>3. Attributed(log, after, lates2)
    BY <1>4, <2>2, AttributedIsPlaced
  <2>. HIDE DEF log
  <2>. QED
    BY <1>4, <2>1, <2>3 DEF AInv, OwnStatuses
<1>5. ASSUME after = ds \cup {Open(b)}, ~IsDuplicate(r.log, b)
      PROVE  AInv(AddStatus(r, b), lates2)
  <2>. DEFINE o == Open(b)
  <2>1. o.Statuses = {b.Time} /\ ~o.UEnded
    BY DEF Open
  <2>. HIDE DEF o
  <2>2. after = ds \cup {o}
    BY <1>5 DEF o
  <2>. HIDE DEF after
  <2>3. \A e \in after : e.Statuses \subseteq {q.Time : q \in log}
    BY <2>1, <2>2 DEF AInv, OwnStatuses
  <2>4. ASSUME NEW q \in r.log, q.IsDowntime
        PROVE  \E y \in after : HasPlace(q.Time, y, after, lates2)
    <3>1. PICK y \in ds : HasPlace(q.Time, y, ds, lates2)
      BY <1>2, <2>4
    <3>2. y \in after /\ HasPlace(q.Time, y, after, lates2)
      BY <2>1, <2>2, <3>1 DEF HasPlace, lates2
    <3>. QED
      BY <3>2
  <2>. QED
    BY <1>4, <1>5, <2>1, <2>2, <2>3, <2>4
<1>6. ASSUME NEW d \in ds, ~d.UEnded, after = (ds \ {d}) \cup {Amend(d, b)},
             Amend(d, b) = [d EXCEPT !.Statuses = @ \cup {b.Time}], ~IsDuplicate(r.log, b)
      PROVE  AInv(AddStatus(r, b), lates2)
  <2>. DEFINE a == Amend(d, b)
  <2>1. /\ a.Statuses = d.Statuses \cup {b.Time}
        /\ a.UStartTime = d.UStartTime /\ ~a.UEnded
    BY <1>1, <1>6, StatusAdded
  <2>. HIDE DEF a
  <2>2. after = (ds \ {d}) \cup {a}
    BY <1>6 DEF a
  <2>. HIDE DEF after
  <2>3. \A e \in after : e.Statuses \subseteq {q.Time : q \in log}
    BY <2>1, <2>2 DEF AInv, OwnStatuses
  <2>4. ASSUME NEW q \in r.log, q.IsDowntime
        PROVE  \E y \in after : HasPlace(q.Time, y, after, lates2)
    <3>1. PICK y \in ds : HasPlace(q.Time, y, ds, lates2)
      BY <1>2, <2>4
    <3>2. CASE y = d
      <4>1. a \in after /\ HasPlace(q.Time, a, after, lates2)
        BY <2>1, <2>2, <3>1, <3>2 DEF HasPlace, lates2
      <4>. QED
        BY <4>1
    <3>3. CASE y # d
      <4>1. y \in after /\ HasPlace(q.Time, y, after, lates2)
        BY <2>1, <2>2, <3>1, <3>3 DEF HasPlace, lates2
      <4>. QED
        BY <4>1
    <3>. QED
      BY <3>2, <3>3
  <2>5. a \in after /\ b.Time \in a.Statuses
    BY <2>1, <2>2
  <2>. QED
    BY <1>4, <1>6, <2>1, <2>3, <2>4, <2>5
<1>7. CASE ~IsDuplicate(r.log, b)
  <2>1. \/ after = ds \cup {Open(b)}
        \/ \E d \in ds : /\ ~d.UEnded /\ after = (ds \ {d}) \cup {Amend(d, b)}
                         /\ Amend(d, b) = [d EXCEPT !.Statuses = @ \cup {b.Time}]
    BY <1>1, TwoOutcomes
  <2>. HIDE DEF after
  <2>2. AInv(AddStatus(r, b), lates2)
    BY <1>5, <1>6, <1>7, <2>1
  <2>. QED
    BY <2>2 DEF lates2
<1>. QED
  BY <1>3, <1>7 DEF lates2

\* A first status that is current is new: were it in the log, it would be of a
\* disturbance that had not ended at its time.
LEMMA CurrentIsNew ==
    ASSUME NEW r \in LineRows, NEW lates, AInv(r, lates),
           NEW b \in Status, b.IsDowntime, OnlyAtItsTime(r.log, b), IsCurrent(r, b)
    PROVE  NewTo(r, b)
<1>1. r.disturbances \in SUBSET Disturbance /\ b.Time \in Nat
  BY DEF LineRows, Status
<1>2. ASSUME NEW q \in r.log, q.Time = b.Time
      PROVE  FALSE
  <2>1. PICK d \in r.disturbances : HasPlace(b.Time, d, r.disturbances, lates)
    BY <1>2, AttributedIsPlaced DEF AInv, OnlyAtItsTime
  <2>2. b.Time < d.UEndTime /\ d.UEndTime < b.Time /\ d.UEndTime \in Nat
    BY <1>1, <2>1 DEF HasPlace, IsCurrent, EndedBefore, Disturbance
  <2>. QED
    BY <1>1, <2>2
<1>. QED
  BY <1>2 DEF NewTo, IsCurrent

LEMMA NextKeepsAttributed ==
    ASSUME IInv, AInv(rows, late), Next
    PROVE  AInv(rows, late)'
<1>1. /\ now \in Nat /\ rows \in LineRows /\ OneOpen(rows.disturbances)
      /\ \A q \in rows.log : q.Time \in Nat /\ q.Time <= now
      /\ \A d \in rows.disturbances : d.UStartTime \in Nat /\ d.UStartTime <= now
  BY DEF IInv, TypeOK, LineRows, AtMostOneOngoing, Status, Disturbance
<1>2. CASE AddsNone
  BY <1>2 DEF AddsNone
<1>3. ASSUME NEW s \in Status, AddsStamped(s)
      PROVE  AInv(rows, late)'
  <2>1. NewTo(rows, s)
    BY <1>1, <1>3 DEF NewTo, AInv, OwnStatuses, AddsStamped
  <2>2. AInv(AddStatus(rows, s), late)
    BY <1>1, <2>1, AttributedStep
  <2>. QED
    BY <1>3, <2>2 DEF AddsStamped
<1>4. ASSUME NEW e \in Evaluations, AddsFirst(e)
      PROVE  AInv(rows, late)'
  <2>. DEFINE b == BeginStatus(evaluations[e].at)
  <2>1. b \in Status /\ b.IsDowntime /\ ~IsOfficial(b) /\ b.Time = evaluations[e].at
    BY <1>4, FirstIsStatus
  <2>2. /\ rows' = AddStatus(rows, b)
        /\ late' = IF evaluations[e].overtaken THEN late \cup {b.Time} ELSE late
    BY <1>4, <2>1 DEF AddsFirst
  <2>3. /\ OnlyAtItsTime(rows.log, b)
        /\ ~evaluations[e].overtaken => IsCurrent(rows, b)
    BY <1>4, <2>1 DEF AddsFirst, IInv, FirstsAreCurrent, OnlyAtItsTime, IsCurrent,
                      OngoingDisturbances
  <2>. HIDE DEF b
  <2>4. CASE evaluations[e].overtaken
    <3>1. AInv(AddStatus(rows, b), late \cup {b.Time})
      BY <1>1, <2>1, LateStep
    <3>. QED
      BY <2>2, <2>4, <3>1
  <2>5. CASE ~evaluations[e].overtaken
    <3>1. NewTo(rows, b)
      BY <1>1, <2>1, <2>3, <2>5, CurrentIsNew
    <3>2. AInv(AddStatus(rows, b), late)
      BY <1>1, <2>1, <3>1, AttributedStep
    <3>. QED
      BY <2>2, <2>5, <3>2
  <2>. QED
    BY <2>4, <2>5
<1>. QED
  BY <1>1, <1>2, <1>3, <1>4, StepKinds

\* No downtime is lost: every one that is recorded belongs to one disturbance,
\* whose interval holds its time; one that was overtaken belongs to a disturbance
\* that had not ended at its time.
THEOREM DowntimeIsAttributed == Spec => []DowntimeAttributed
<1>1. Init => AInv(rows, late)
  BY DEF Init, NoRows, AInv, Attributed, OwnStatuses
<1>2. IInv /\ AInv(rows, late) /\ [Next]_vars => AInv(rows, late)'
  BY NextKeepsAttributed DEF vars, AInv
<1>3. AInv(rows, late) => DowntimeAttributed
  BY DEF AInv, DowntimeAttributed
<1>. QED
  BY <1>1, <1>2, <1>3, Invariance, PTL DEF Spec

-----------------------------------------------------------------------------
(***************************************************************************)
(* Statistics. Induction over finite sets, and what folds compute.         *)
(***************************************************************************)
\* What holds of nothing, and of more by one element, holds of a finite set.
LEMMA SubsetInduction ==
    ASSUME NEW S, IsFiniteSet(S), NEW F, {} \in F,
           \A Q \in SUBSET S : \A x \in S \ Q : Q \in F => Q \cup {x} \in F
    PROVE  S \in F
<1>. DEFINE Bad == (SUBSET S) \ F
<1>1. IsWellFoundedOn(StrictSubsetOrdering(S), SUBSET S)
  BY FS_StrictSubsetOrderingWellFounded, FS_FiniteSubsetsOfFinite, Zenon
<1>2. SUFFICES ASSUME Bad # {}
               PROVE  FALSE
  OBVIOUS
<1>3. PICK Q \in Bad : \A U \in Bad : <<U, Q>> \notin StrictSubsetOrdering(S)
  BY <1>1, <1>2, WFMin, Zenon
<1>4. PICK x \in Q : TRUE
  BY <1>3, Zenon
<1>5. Q \ {x} \in SUBSET S /\ Q \ {x} \subseteq Q /\ Q \ {x} # Q
  BY <1>3, <1>4
<1>6. <<Q \ {x}, Q>> \in StrictSubsetOrdering(S)
  BY <1>3, <1>5 DEF StrictSubsetOrdering
<1>7. Q \ {x} \in F
  BY <1>3, <1>5, <1>6
<1>8. (Q \ {x}) \cup {x} = Q /\ x \in S \ (Q \ {x})
  BY <1>3, <1>4
<1>. QED
  BY <1>3, <1>5, <1>7, <1>8

\* Induction over numbers, of a set of them.
LEMMA NumberInduction ==
    ASSUME NEW F, 0 \in F, \A n \in Nat : n \in F => n + 1 \in F
    PROVE  Nat \subseteq F
<1>. SUFFICES ASSUME NEW n \in Nat
              PROVE  n \in F
  OBVIOUS
<1>. DEFINE G == {Q \in SUBSET (1..n) : \A k \in Nat : Cardinality(Q) = k => k \in F}
<1>1. IsFiniteSet(1..n) /\ Cardinality(1..n) = n
  BY FS_Interval
<1>2. {} \in G
  BY FS_EmptySet
<1>3. ASSUME NEW Q \in SUBSET (1..n), NEW x \in (1..n) \ Q, Q \in G
      PROVE  Q \cup {x} \in G
  <2>1. IsFiniteSet(Q)
    BY <1>1, FS_Subset, Zenon
  <2>2. Cardinality(Q) \in Nat /\ Cardinality(Q \cup {x}) = Cardinality(Q) + 1
    BY <1>3, <2>1, FS_CardinalityType, FS_AddElement, Zenon
  <2>. QED
    BY <1>3, <2>2
<1>. HIDE DEF G
<1>4. (1..n) \in G
  BY <1>1, <1>2, <1>3, SubsetInduction, Zenon
<1>. QED
  BY <1>1, <1>4 DEF G

(***************************************************************************)
(* Folds take one element of a set after the other, as pick says. What a   *)
(* fold is defined by is an equation over the subsets of a set.            *)
(***************************************************************************)
Picks(pick, D) == \A Q \in SUBSET D : Q # {} => pick[Q] \in Q

IsFold(g, D, V, base, step, pick) ==
    /\ g \in [SUBSET D -> V]
    /\ \A Q \in SUBSET D : g[Q] = IF Q = {} THEN base ELSE step[<<pick[Q], g[Q \ {pick[Q]}]>>]

FoldTogether(g, h, D, pick) ==
    /\ g[{}] = h[{}]
    /\ \A Q \in SUBSET D : Q # {} /\ g[Q \ {pick[Q]}] = h[Q \ {pick[Q]}] => g[Q] = h[Q]

\* The equation of a fold over a finite set has a solution in the values that its
\* step maps to one another.
LEMMA FoldExists ==
    ASSUME NEW D, IsFiniteSet(D), NEW V, NEW base, base \in V,
           NEW step, step \in [D \X V -> V], NEW pick, Picks(pick, D)
    PROVE  \E g : IsFold(g, D, V, base, step, pick)
<1>. USE DEF Picks
<1>. DEFINE Next1(g, Q) == IF Q = {} THEN base ELSE step[<<pick[Q], g[Q \ {pick[Q]}]>>]
<1>. DEFINE F == {n \in Nat : \E g \in [SUBSET D -> V] :
                      \A Q \in SUBSET D : Cardinality(Q) <= n => g[Q] = Next1(g, Q)}
<1>1. \A Q \in SUBSET D : IsFiniteSet(Q) /\ Cardinality(Q) \in Nat /\ (Cardinality(Q) = 0 => Q = {})
  <2>. SUFFICES ASSUME NEW Q \in SUBSET D
                PROVE  IsFiniteSet(Q) /\ Cardinality(Q) \in Nat /\ (Cardinality(Q) = 0 => Q = {})
    OBVIOUS
  <2>1. IsFiniteSet(Q)
    BY FS_Subset
  <2>. QED
    BY <2>1, FS_CardinalityType, FS_EmptySet
<1>2. 0 \in F
  <2>. DEFINE g == [Q \in SUBSET D |-> base]
  <2>1. g \in [SUBSET D -> V]
    OBVIOUS
  <2>2. \A Q \in SUBSET D : Cardinality(Q) <= 0 => Q = {}
    BY <1>1
  <2>3. \A Q \in SUBSET D : Cardinality(Q) <= 0 => g[Q] = Next1(g, Q)
    BY <2>2
  <2>. QED
    BY <2>1, <2>3, Zenon
<1>3. ASSUME NEW n \in Nat, n \in F
      PROVE  n + 1 \in F
  <2>1. PICK g \in [SUBSET D -> V] : \A Q \in SUBSET D : Cardinality(Q) <= n => g[Q] = Next1(g, Q)
    BY <1>3, Zenon
  <2>. DEFINE h == [Q \in SUBSET D |-> Next1(g, Q)]
  <2>2. h \in [SUBSET D -> V]
    <3>. SUFFICES ASSUME NEW Q \in SUBSET D
                  PROVE  Next1(g, Q) \in V
      OBVIOUS
    <3>1. CASE Q # {}
      <4>1. pick[Q] \in D /\ Q \ {pick[Q]} \in SUBSET D
        BY <3>1
      <4>2. g[Q \ {pick[Q]}] \in V
        BY <4>1, <2>1
      <4>. QED
        BY <3>1, <4>1, <4>2
    <3>. QED
      BY <3>1
  <2>3. ASSUME NEW Q \in SUBSET D, Cardinality(Q) <= n + 1, Q # {}
        PROVE  h[Q \ {pick[Q]}] = g[Q \ {pick[Q]}]
    <3>. HIDE DEF Next1
    <3>1. pick[Q] \in Q /\ Q \ {pick[Q]} \in SUBSET D
      BY <2>3
    <3>2. Cardinality(Q \ {pick[Q]}) = Cardinality(Q) - 1
      BY <1>1, <3>1, FS_RemoveElement
    <3>3. Cardinality(Q) \in Nat
      BY <1>1
    <3>4. g[Q \ {pick[Q]}] = Next1(g, Q \ {pick[Q]})
      BY <2>1, <2>3, <3>1, <3>2, <3>3
    <3>. QED
      BY <3>1, <3>4
  <2>4. \A Q \in SUBSET D : Cardinality(Q) <= n + 1 => h[Q] = Next1(h, Q)
    BY <2>3, Zenon
  <2>. HIDE DEF h, Next1
  <2>. QED
    BY <2>2, <2>4
<1>. HIDE DEF F
<1>4. Nat \subseteq F
  BY <1>2, <1>3, NumberInduction
<1>5. Cardinality(D) \in F
  BY <1>1, <1>4
<1>6. PICK g \in [SUBSET D -> V] : \A Q \in SUBSET D : Cardinality(Q) <= Cardinality(D) => g[Q] = Next1(g, Q)
  BY <1>5, Zenon DEF F
<1>7. \A Q \in SUBSET D : Cardinality(Q) <= Cardinality(D)
  BY FS_Subset
<1>. QED
  BY <1>6, <1>7, Zenon DEF IsFold

\* Functions of sets that follow the same recursion are the same.
LEMMA FoldUnique ==
    ASSUME NEW D, IsFiniteSet(D), NEW pick, Picks(pick, D),
           NEW g, NEW h, FoldTogether(g, h, D, pick)
    PROVE  \A Q \in SUBSET D : g[Q] = h[Q]
<1>. USE DEF Picks, FoldTogether
<1>. DEFINE F == {n \in Nat : \A Q \in SUBSET D : Cardinality(Q) = n => g[Q] = h[Q]}
<1>1. \A Q \in SUBSET D : IsFiniteSet(Q) /\ Cardinality(Q) \in Nat /\ (Cardinality(Q) = 0 => Q = {})
  <2>. SUFFICES ASSUME NEW Q \in SUBSET D
                PROVE  IsFiniteSet(Q) /\ Cardinality(Q) \in Nat /\ (Cardinality(Q) = 0 => Q = {})
    OBVIOUS
  <2>1. IsFiniteSet(Q)
    BY FS_Subset
  <2>. QED
    BY <2>1, FS_CardinalityType, FS_EmptySet
<1>2. 0 \in F
  BY <1>1, Zenon
<1>3. ASSUME NEW n \in Nat, n \in F
      PROVE  n + 1 \in F
  <2>. SUFFICES ASSUME NEW Q \in SUBSET D, Cardinality(Q) = n + 1
                PROVE  g[Q] = h[Q]
    OBVIOUS
  <2>0. Cardinality({}) = 0
    BY FS_EmptySet
  <2>1. Q # {}
    <3>1. n + 1 # 0
      OBVIOUS
    <3>. QED
      BY <2>0, <3>1, Zenon
  <2>2. pick[Q] \in Q /\ Q \ {pick[Q]} \in SUBSET D
    BY <2>1
  <2>3. Cardinality(Q \ {pick[Q]}) = n
    BY <1>1, <2>2, FS_RemoveElement
  <2>. QED
    BY <1>3, <2>1, <2>2, <2>3
<1>. HIDE DEF F
<1>4. Nat \subseteq F
  BY <1>2, <1>3, NumberInduction
<1>. QED
  BY <1>1, <1>4 DEF F

(***************************************************************************)
(* The totals of the subsets of some amounts: of none, 0; of one more, so  *)
(* much more, whichever it is.                                             *)
(***************************************************************************)
TotalsOf(g, w, S) ==
    /\ g \in [SUBSET S -> Nat]
    /\ g[{}] = 0
    /\ \A Q \in SUBSET S : \A x \in S \ Q : g[Q \cup {x}] = w[x] + g[Q]
    /\ \A Q \in SUBSET S : Total([x \in Q |-> w[x]]) = g[Q]

\* Amounts have totals.
LEMMA Totals ==
    ASSUME NEW S, IsFiniteSet(S), NEW w, w \in [S -> Nat]
    PROVE  \E g : TotalsOf(g, w, S)
<1>. DEFINE pick == [Q \in SUBSET S |-> CHOOSE x \in Q : TRUE]
            step == [p \in S \X Nat |-> w[p[1]] + p[2]]
<1>1. Picks(pick, S)
  BY DEF Picks
<1>2. step \in [S \X Nat -> Nat]
  OBVIOUS
<1>3. \A x \in S, n \in Nat : step[<<x, n>>] = w[x] + n
  OBVIOUS
<1>4. \A Q \in SUBSET S : pick[Q] = CHOOSE x \in Q : TRUE
  OBVIOUS
<1>. HIDE DEF pick, step
<1>5. PICK g : IsFold(g, S, Nat, 0, step, pick)
  <2>1. 0 \in Nat
    OBVIOUS
  <2>. QED
    BY <1>1, <1>2, <2>1, FoldExists, Zenon
<1>6. g \in [SUBSET S -> Nat] /\ g[{}] = 0
  BY <1>5, Zenon DEF IsFold
<1>7. ASSUME NEW Q \in SUBSET S, Q # {}
      PROVE  g[Q] = w[pick[Q]] + g[Q \ {pick[Q]}] /\ pick[Q] \in Q /\ g[Q \ {pick[Q]}] \in Nat
  <2>1. pick[Q] \in Q /\ Q \ {pick[Q]} \in SUBSET S
    BY <1>1, <1>7 DEF Picks
  <2>2. g[Q \ {pick[Q]}] \in Nat
    BY <1>6, <2>1
  <2>. QED
    BY <1>3, <1>5, <1>7, <2>1, <2>2, Zenon DEF IsFold
<1>8. \A Q \in SUBSET S : IsFiniteSet(Q) /\ Cardinality(Q) \in Nat
  BY FS_Subset, FS_CardinalityType
<1>9. \A Q \in SUBSET S : \A x \in S \ Q : g[Q \cup {x}] = w[x] + g[Q]
  <2>. DEFINE F == {n \in Nat : \A Q \in SUBSET S : \A x \in S \ Q :
                        Cardinality(Q) = n => g[Q \cup {x}] = w[x] + g[Q]}
  <2>1. ASSUME NEW Q \in SUBSET S, NEW x \in S \ Q, pick[Q \cup {x}] = x
        PROVE  g[Q \cup {x}] = w[x] + g[Q]
    <3>1. Q \cup {x} \in SUBSET S /\ Q \cup {x} # {} /\ (Q \cup {x}) \ {x} = Q
      OBVIOUS
    <3>. QED
      BY <1>7, <2>1, <3>1, Zenon
  <2>2. 0 \in F
    <3>. SUFFICES ASSUME NEW Q \in SUBSET S, NEW x \in S \ Q, Cardinality(Q) = 0
                  PROVE  g[Q \cup {x}] = w[x] + g[Q]
      OBVIOUS
    <3>1. Q = {}
      BY <1>8, FS_EmptySet
    <3>2. pick[Q \cup {x}] = x
      BY <1>1, <3>1 DEF Picks
    <3>. QED
      BY <2>1, <3>2
  <2>3. ASSUME NEW n \in Nat, n \in F
        PROVE  n + 1 \in F
    <3>. SUFFICES ASSUME NEW Q \in SUBSET S, NEW x \in S \ Q, Cardinality(Q) = n + 1
                  PROVE  g[Q \cup {x}] = w[x] + g[Q]
      OBVIOUS
    <3>. DEFINE p == pick[Q \cup {x}]
                R == Q \ {p}
    <3>1. Q \cup {x} \in SUBSET S /\ Q \cup {x} # {}
      OBVIOUS
    <3>2. p \in Q \cup {x} /\ g[Q \cup {x}] = w[p] + g[(Q \cup {x}) \ {p}]
      BY <1>7, <3>1, Zenon
    <3>3. CASE p # x
      <4>1. p \in Q /\ R \in SUBSET S /\ x \in S \ R /\ p \in S \ R
        BY <3>2, <3>3
      <4>2. (Q \cup {x}) \ {p} = R \cup {x} /\ R \cup {p} = Q
        BY <3>3, <4>1
      <4>. HIDE DEF p
      <4>3. Cardinality(R) = n
        <5>1. Cardinality(Q \ {p}) = Cardinality(Q) - 1
          BY <1>8, <4>1, FS_RemoveElement
        <5>. QED
          BY <5>1
      <4>. HIDE DEF R
      <4>4. g[R \cup {x}] = w[x] + g[R]
        BY <2>3, <4>1, <4>3
      <4>5. g[R \cup {p}] = w[p] + g[R]
        BY <2>3, <4>1, <4>3
      <4>6. g[R] \in Nat /\ w[x] \in Nat /\ w[p] \in Nat
        BY <1>6, <4>1
      <4>7. g[Q \cup {x}] = w[p] + g[R \cup {x}] /\ g[Q] = w[p] + g[R]
        BY <3>2, <4>2, <4>5
      <4>. QED
        BY <4>4, <4>6, <4>7
    <3>. QED
      BY <2>1, <3>3
  <2>. HIDE DEF F
  <2>4. Nat \subseteq F
    BY <2>2, <2>3, NumberInduction
  <2>. QED
    BY <1>8, <2>4, Zenon DEF F
<1>10. ASSUME NEW Q \in SUBSET S
       PROVE  Total([x \in Q |-> w[x]]) = g[Q]
  <2>. DEFINE v == [x \in Q |-> w[x]]
              Solves(it) == it = [s \in SUBSET Q |-> IF s = {} THEN 0
                                      ELSE v[CHOOSE x \in s : TRUE] + it[s \ {CHOOSE x \in s : TRUE}]]
              it == CHOOSE it : Solves(it)
  <2>1. Total(v) = it[Q]
    BY DEF Total, MapThenSumSet, MapThenFoldSet
  <2>2. \E h : Solves(h)
    <3>. DEFINE h == [s \in SUBSET Q |-> g[s]]
    <3>1. ASSUME NEW s \in SUBSET Q
          PROVE  g[s] = IF s = {} THEN 0 ELSE v[CHOOSE x \in s : TRUE] + h[s \ {CHOOSE x \in s : TRUE}]
      <4>1. CASE s # {}
        <5>1. s \in SUBSET S /\ pick[s] = CHOOSE x \in s : TRUE
          BY <1>4
        <5>2. g[s] = w[pick[s]] + g[s \ {pick[s]}] /\ pick[s] \in s
          BY <1>7, <4>1, <5>1, Zenon
        <5>3. v[pick[s]] = w[pick[s]] /\ h[s \ {pick[s]}] = g[s \ {pick[s]}]
          BY <5>2
        <5>. HIDE DEF v, h
        <5>. QED
          BY <4>1, <5>1, <5>2, <5>3
      <4>. QED
        BY <1>6, <4>1, Zenon
    <3>2. Solves(h)
      BY <3>1, Zenon
    <3>. QED
      BY <3>2, Zenon
  <2>. HIDE DEF Solves
  <2>3. Solves(it)
    BY <2>2
  <2>. HIDE DEF it
  <2>4. it[{}] = 0
    BY <2>3 DEF Solves
  <2>5. ASSUME NEW s \in SUBSET Q, s # {}, it[s \ {pick[s]}] = g[s \ {pick[s]}]
        PROVE  it[s] = g[s]
    <3>1. s \in SUBSET S /\ pick[s] = CHOOSE x \in s : TRUE
      BY <1>4
    <3>2. it[s] = v[pick[s]] + it[s \ {pick[s]}]
      BY <2>3, <2>5, <3>1, Zenon DEF Solves
    <3>3. g[s] = w[pick[s]] + g[s \ {pick[s]}] /\ pick[s] \in s
      BY <1>7, <2>5, <3>1, Zenon
    <3>. QED
      BY <2>5, <3>2, <3>3
  <2>6. Picks(pick, Q)
    BY <1>1 DEF Picks
  <2>7. IsFiniteSet(Q)
    BY <1>8
  <2>8. FoldTogether(it, g, Q, pick)
    BY <1>6, <2>4, <2>5 DEF FoldTogether
  <2>9. \A s \in SUBSET Q : it[s] = g[s]
    BY <2>6, <2>7, <2>8, FoldUnique
  <2>. QED
    BY <2>1, <2>9
<1>. QED
  BY <1>6, <1>9, <1>10, Zenon DEF TotalsOf

\* A finite set of integers that is not empty has a greatest element.
LEMMA HasMaximum ==
    ASSUME NEW S, IsFiniteSet(S), S \subseteq Int, S # {}
    PROVE  \E m \in S : \A y \in S : m >= y
<1>. DEFINE F == {Q \in SUBSET S : Q # {} => \E m \in Q : \A y \in Q : m >= y}
<1>1. {} \in F
  OBVIOUS
<1>2. ASSUME NEW Q \in SUBSET S, NEW x \in S \ Q, Q \in F
      PROVE  Q \cup {x} \in F
  <2>1. CASE Q = {}
    <3>1. x >= x /\ Q \cup {x} = {x}
      BY <2>1
    <3>. QED
      BY <3>1
  <2>2. CASE Q # {}
    <3>1. PICK m \in Q : \A y \in Q : m >= y
      BY <1>2, <2>2
    <3>2. m \in Int /\ x \in Int /\ \A y \in Q : y \in Int
      OBVIOUS
    <3>3. CASE m >= x
      <4>1. \A y \in Q \cup {x} : m >= y
        BY <3>1, <3>3
      <4>. QED
        BY <4>1
    <3>4. CASE ~(m >= x)
      <4>1. \A y \in Q \cup {x} : x >= y
        BY <3>1, <3>2, <3>4
      <4>. QED
        BY <4>1
    <3>. QED
      BY <3>3, <3>4
  <2>. QED
    BY <2>1, <2>2
<1>. HIDE DEF F
<1>3. S \in F
  BY <1>1, <1>2, SubsetInduction, Zenon
<1>. QED
  BY <1>3 DEF F

-----------------------------------------------------------------------------
(***************************************************************************)
(* Folds over sequences, from the left. The values that they go through    *)
(* are a run.                                                              *)
(***************************************************************************)
LatestOf(n) == [Q \in SUBSET (1..n) |-> Max(Q)]

Run(f, n, V, base, step) ==
    /\ f \in [0..n -> V]
    /\ f[0] = base
    /\ \A k \in 1..n : f[k] = step[<<k, f[k - 1]>>]

\* The latest of some places is one of them.
LEMMA LatestPicks ==
    ASSUME NEW n \in Nat
    PROVE  Picks(LatestOf(n), 1..n) /\ IsFiniteSet(1..n) /\ \A Q \in SUBSET (1..n) : LatestOf(n)[Q] = Max(Q)
<1>1. IsFiniteSet(1..n)
  BY FS_Interval
<1>2. ASSUME NEW Q \in SUBSET (1..n), Q # {}
      PROVE  Max(Q) \in Q
  <2>1. Q \subseteq 1..n /\ Q \subseteq Int
    OBVIOUS
  <2>3. IsFiniteSet(Q)
    BY <1>1, <2>1, FS_Subset, Zenon
  <2>2. \E m \in Q : \A y \in Q : m >= y
    BY <1>2, <2>1, <2>3, HasMaximum, Zenon
  <2>. QED
    BY <2>2, Zenon DEF Max
<1>. QED
  BY <1>1, <1>2 DEF Picks, LatestOf

\* A fold over places goes through a run.
LEMMA FoldRuns ==
    ASSUME NEW n \in Nat, NEW V, NEW base, NEW step, NEW g, IsFold(g, 1..n, V, base, step, LatestOf(n))
    PROVE  \E f : Run(f, n, V, base, step) /\ g[1..n] = f[n]
<1>. DEFINE f == [k \in 0..n |-> g[1..k]]
<1>1. \A k \in 0..n : 1..k \in SUBSET (1..n)
  OBVIOUS
<1>2. f \in [0..n -> V]
  BY <1>1 DEF IsFold
<1>3. f[0] = base
  <2>1. 1..0 = {} /\ 0 \in 0..n /\ {} \in SUBSET (1..n)
    OBVIOUS
  <2>2. f[0] = g[1..0]
    BY <2>1
  <2>3. g[{}] = base
    BY <2>1, Zenon DEF IsFold
  <2>. QED
    BY <2>1, <2>2, <2>3
<1>4. ASSUME NEW k \in 1..n
      PROVE  f[k] = step[<<k, f[k - 1]>>]
  <2>1. 1..k \in SUBSET (1..n) /\ 1..k # {} /\ (1..k) \ {k} = 1..(k - 1) /\ k - 1 \in 0..n /\ k \in 0..n
    <3>1. k - 1 \in 0..n /\ k \in 0..n
      OBVIOUS
    <3>2. k \in 1..k
      OBVIOUS
    <3>3. 1..k \in SUBSET (1..n)
      OBVIOUS
    <3>4. \A y \in Int : y \in (1..k) \ {k} <=> y \in 1..(k - 1)
      OBVIOUS
    <3>5. (1..k) \ {k} = 1..(k - 1)
      BY <3>4
    <3>. QED
      BY <3>1, <3>2, <3>3, <3>5
  <2>2. LatestOf(n)[1..k] = k
    <3>1. Max(1..k) \in 1..k /\ \A y \in 1..k : Max(1..k) >= y
      <4>1. k \in 1..k /\ \A y \in 1..k : k >= y
        OBVIOUS
      <4>. QED
        BY <4>1, Zenon DEF Max
    <3>2. Max(1..k) = k
      BY <3>1
    <3>. QED
      BY <2>1, <3>2, LatestPicks
  <2>3. g[1..k] = step[<<k, g[(1..k) \ {k}]>>]
    BY <2>1, <2>2, Zenon DEF IsFold
  <2>. QED
    BY <2>1, <2>3, Zenon
<1>5. g[1..n] = f[n]
  OBVIOUS
<1>. HIDE DEF f
<1>. QED
  BY <1>2, <1>3, <1>4, <1>5 DEF Run

-----------------------------------------------------------------------------
(***************************************************************************)
(* Times count hours, and days have DayLength of them.                     *)
(***************************************************************************)
\* The greater and the smaller of two numbers.
LEMMA OfTwo ==
    ASSUME NEW a \in Int, NEW b \in Int
    PROVE  /\ Max({a, b}) = IF a >= b THEN a ELSE b
           /\ Min({a, b}) = IF a <= b THEN a ELSE b
<1>1. ASSUME a >= b PROVE Max({a, b}) = a /\ Min({a, b}) = b
  <2>1. \A m \in {a, b} : (\A y \in {a, b} : m >= y) <=> m = a
    BY <1>1
  <2>2. \A m \in {a, b} : (\A y \in {a, b} : m <= y) <=> m = b
    BY <1>1
  <2>. QED
    BY <2>1, <2>2 DEF Max, Min
<1>2. ASSUME ~(a >= b) PROVE Max({a, b}) = b /\ Min({a, b}) = a
  <2>1. \A m \in {a, b} : (\A y \in {a, b} : m >= y) <=> m = b
    BY <1>2
  <2>2. \A m \in {a, b} : (\A y \in {a, b} : m <= y) <=> m = a
    BY <1>2
  <2>. QED
    BY <2>1, <2>2 DEF Max, Min
<1>. QED
  BY <1>1, <1>2

\* The hours of the days are one day's after the other's.
LEMMA HoursOfDays ==
    ASSUME NEW d \in Int, NEW e \in Int
    PROVE  /\ d * DayLength \in Int /\ (d + 1) * DayLength = d * DayLength + DayLength
           /\ (d - 1) * DayLength = d * DayLength - DayLength
           /\ (e - d) * DayLength = e * DayLength - d * DayLength
           /\ d <= e => d * DayLength <= e * DayLength
<1>. USE DayLengthAssumption
<1>1. d * DayLength \in Int /\ (d + 1) * DayLength = d * DayLength + DayLength
      /\ (d - 1) * DayLength = d * DayLength - DayLength
  OBVIOUS
<1>2. (e - d) * DayLength = e * DayLength - d * DayLength
  OBVIOUS
<1>3. d <= e => (e - d) * DayLength >= 0
  OBVIOUS
<1>. QED
  BY <1>1, <1>2, <1>3

\* An hour is of its day.
LEMMA HourInDay ==
    ASSUME NEW h \in Int
    PROVE  /\ DayOf(h) \in Int
           /\ DayOf(h) * DayLength <= h /\ h < DayOf(h) * DayLength + DayLength
BY DayLengthAssumption DEF DayOf

\* The sizes of sets that share nothing add up to the size of their union.
Apart(U) == \A x, y \in DOMAIN U : x # y => U[x] \cap U[y] = {}

UnionOver(U, Q) == UNION {U[x] : x \in Q}

SizesOf(U) == [x \in DOMAIN U |-> Cardinality(U[x])]

LEMMA SumOfSizes ==
    ASSUME NEW U, IsFiniteSet(DOMAIN U), \A x \in DOMAIN U : IsFiniteSet(U[x]), Apart(U)
    PROVE  /\ Total(SizesOf(U)) = Cardinality(UnionOver(U, DOMAIN U))
           /\ IsFiniteSet(UnionOver(U, DOMAIN U))
<1>. DEFINE S == DOMAIN U
            w == SizesOf(U)
<1>1. w \in [S -> Nat] /\ \A x \in S : w[x] = Cardinality(U[x])
  BY FS_CardinalityType DEF SizesOf
<1>. HIDE DEF w
<1>2. PICK g : TotalsOf(g, w, S)
  BY <1>1, Totals
<1>. DEFINE F == {Q \in SUBSET S : IsFiniteSet(UnionOver(U, Q)) /\ g[Q] = Cardinality(UnionOver(U, Q))}
<1>3. {} \in F
  <2>1. UnionOver(U, {}) = {}
    BY DEF UnionOver
  <2>. QED
    BY <1>2, <2>1, FS_EmptySet, Zenon DEF TotalsOf
<1>4. ASSUME NEW Q \in SUBSET S, NEW x \in S \ Q, Q \in F
      PROVE  Q \cup {x} \in F
  <2>. DEFINE A == UnionOver(U, Q)
  <2>1. UnionOver(U, Q \cup {x}) = A \cup U[x]
    BY DEF UnionOver
  <2>2. A \cap U[x] = {}
    BY DEF UnionOver, Apart
  <2>3. IsFiniteSet(A) /\ IsFiniteSet(U[x]) /\ g[Q] = Cardinality(A)
    BY <1>4
  <2>. HIDE DEF A
  <2>4. IsFiniteSet(A \cup U[x]) /\ Cardinality(A \cup U[x]) = Cardinality(A) + Cardinality(U[x]) - Cardinality(A \cap U[x])
    BY <2>3, FS_Union
  <2>5. Cardinality(A) \in Nat /\ Cardinality(U[x]) \in Nat /\ Cardinality({}) = 0
    BY <2>3, FS_CardinalityType, FS_EmptySet
  <2>6. Cardinality(A \cup U[x]) = Cardinality(A) + Cardinality(U[x])
    <3>1. Cardinality(A \cap U[x]) = 0
      BY <2>2, <2>5, Zenon
    <3>. QED
      BY <2>4, <2>5, <3>1
  <2>7. g[Q \cup {x}] = w[x] + g[Q]
    BY <1>2 DEF TotalsOf
  <2>8. g[Q \cup {x}] = Cardinality(U[x]) + Cardinality(A)
    BY <1>1, <2>3, <2>7
  <2>9. IsFiniteSet(UnionOver(U, Q \cup {x})) /\ g[Q \cup {x}] = Cardinality(UnionOver(U, Q \cup {x}))
    <3>1. g[Q \cup {x}] = Cardinality(A \cup U[x])
      BY <2>5, <2>6, <2>8
    <3>. HIDE DEF w, S
    <3>. QED
      BY <2>1, <2>4, <3>1, Zenon
  <2>. QED
    BY <2>9
<1>. HIDE DEF F
<1>5. S \in F
  BY <1>3, <1>4, SubsetInduction, Zenon
<1>6. Total([x \in S |-> w[x]]) = g[S]
  BY <1>2 DEF TotalsOf
<1>7. [x \in S |-> w[x]] = w
  BY <1>1
<1>. QED
  BY <1>5, <1>6, <1>7 DEF F, w

-----------------------------------------------------------------------------
(***************************************************************************)
(* When a line is open. It may not open before it has closed.              *)
(***************************************************************************)
OpensInTurn(line) ==
    \A day \in Int :
        /\ getScheduleForDay(day, line.schedules, line.holidays) \in Schedule
        /\ OpenSpan(day, line).to <= OpenSpan(day + 1, line).from

Within(span, h) == span.from <= h /\ h < span.to

HoursIn(span) == span.from..(span.to - 1)

OpenHours(line, from, to) == {h \in from..(to - 1) : OpenAt(line, h)}

\* Every day's hours begin in that day, and are over before the next's begin.
LEMMA SpanOfDay ==
    ASSUME NEW line, OpensInTurn(line), NEW d \in Int
    PROVE  LET s == OpenSpan(d, line)
           IN  /\ s.from \in Int /\ s.to \in Int /\ s.from <= s.to
               /\ d * DayLength <= s.from /\ s.from < d * DayLength + DayLength
               /\ s.to < (d + 1) * DayLength + DayLength
<1>. DEFINE k == getScheduleForDay(d, line.schedules, line.holidays)
            n == getScheduleForDay(d + 1, line.schedules, line.holidays)
<1>1. k \in Schedule /\ n \in Schedule /\ OpenSpan(d, line).to <= OpenSpan(d + 1, line).from
  BY DEF OpensInTurn
<1>2. d * DayLength \in Int /\ (d + 1) * DayLength \in Int
  BY HoursOfDays, DayLengthAssumption
<1>3. OpenSpan(d, line) = [from |-> d * DayLength + k.OpenTime, to |-> d * DayLength + k.OpenTime + k.OpenDuration]
      /\ OpenSpan(d + 1, line).from = (d + 1) * DayLength + n.OpenTime
  BY DEF OpenSpan
<1>4. k.OpenTime \in 0..(DayLength - 1) /\ k.OpenDuration \in Nat /\ n.OpenTime \in 0..(DayLength - 1)
  BY <1>1 DEF Schedule
<1>. HIDE DEF k, n
<1>. QED
  BY <1>1, <1>2, <1>3, <1>4, DayLengthAssumption

\* Whichever day is later opens after the other has closed.
LEMMA SpansInTurn ==
    ASSUME NEW line, OpensInTurn(line), NEW d \in Int, NEW e \in Int, d < e
    PROVE  OpenSpan(d, line).to <= OpenSpan(e, line).from
<1>1. CASE e = d + 1
  BY <1>1 DEF OpensInTurn
<1>2. CASE e # d + 1
  <2>1. OpenSpan(d, line).to <= OpenSpan(d + 1, line).from
    BY DEF OpensInTurn
  <2>2. OpenSpan(d + 1, line).from < (d + 1) * DayLength + DayLength
    BY SpanOfDay
  <2>3. (d + 1) * DayLength + DayLength = (d + 1 + 1) * DayLength
    BY HoursOfDays
  <2>4. (d + 1 + 1) * DayLength <= e * DayLength /\ (d + 1 + 1) * DayLength \in Int /\ e * DayLength \in Int
    BY <1>2, HoursOfDays
  <2>5. e * DayLength <= OpenSpan(e, line).from /\ OpenSpan(e, line).from \in Int
    BY SpanOfDay
  <2>6. OpenSpan(d, line).to \in Int /\ OpenSpan(d + 1, line).from \in Int
    BY SpanOfDay
  <2>. QED
    BY <2>1, <2>2, <2>3, <2>4, <2>5, <2>6
<1>. QED
  BY <1>1, <1>2

\* Whoever is within the hours of any day is so on the hour's day or the one before.
LEMMA OpenOnSomeDay ==
    ASSUME NEW line, OpensInTurn(line), NEW h \in Int
    PROVE  /\ OpenAt(line, h) <=> \E d \in Int : Within(OpenSpan(d, line), h)
           /\ \A d \in Int : Within(OpenSpan(d, line), h) => d \in (DayOf(h) - 1)..DayOf(h)
<1>. DEFINE D == DayOf(h)
<1>1. D \in Int /\ D * DayLength <= h /\ h < D * DayLength + DayLength
  BY HourInDay
<1>. HIDE DEF D
<1>2. ASSUME NEW d \in Int, Within(OpenSpan(d, line), h)
      PROVE  d \in (D - 1)..D
  <2>1. OpenSpan(d, line).from \in Int /\ OpenSpan(d, line).to \in Int
        /\ d * DayLength <= OpenSpan(d, line).from /\ OpenSpan(d, line).to < (d + 1) * DayLength + DayLength
    BY SpanOfDay
  <2>2. d * DayLength <= h /\ h < (d + 1) * DayLength + DayLength
    BY <1>2, <2>1, HoursOfDays, DayLengthAssumption DEF Within
  <2>3. CASE d > D
    <3>1. (D + 1) * DayLength <= d * DayLength /\ (D + 1) * DayLength = D * DayLength + DayLength
      BY <1>1, <2>3, HoursOfDays
    <3>. QED
      BY <1>1, <2>2, <3>1, HoursOfDays, DayLengthAssumption
  <2>4. CASE d < D - 1
    <3>1. d + 1 + 1 \in Int /\ d + 1 + 1 <= D
      BY <1>1, <2>4
    <3>2. (d + 1 + 1) * DayLength <= D * DayLength
      BY <1>1, <3>1, HoursOfDays
    <3>3. (d + 1 + 1) * DayLength = (d + 1) * DayLength + DayLength
      BY HoursOfDays
    <3>. QED
      BY <1>1, <2>2, <3>2, <3>3, HoursOfDays, DayLengthAssumption
  <2>. QED
    BY <1>1, <2>3, <2>4
<1>3. OpenAt(line, h) <=> \E d \in (D - 1)..D : Within(OpenSpan(d, line), h)
  BY DEF OpenAt, Within, D
<1>4. (D - 1)..D \subseteq Int
  BY <1>1
<1>. QED
  BY <1>2, <1>3, <1>4 DEF D

\* Spans are read as numbers of hours.
IsSpan(span) == span.from \in Int /\ span.to \in Int

\* What two spans share is the hours of both, and how many they are.
LEMMA SharedHours ==
    ASSUME NEW a, IsSpan(a), NEW b, IsSpan(b)
    PROVE  LET both == Intersection(a, b)
           IN  /\ IsSpan(both)
               /\ \A h : h \in HoursIn(both) <=> h \in Int /\ Within(a, h) /\ Within(b, h)
               /\ IsFiniteSet(HoursIn(both))
               /\ Cardinality(HoursIn(both)) = IF Intersects(a, b) THEN Length(both) ELSE 0
               /\ Intersects(a, b) <=> both.from < both.to
<1>. DEFINE both == Intersection(a, b)
<1>. USE DEF IsSpan
<1>1. /\ both.from = IF a.from >= b.from THEN a.from ELSE b.from
      /\ both.to = IF a.to <= b.to THEN a.to ELSE b.to
  BY OfTwo, Zenon DEF Intersection
<1>2. Intersects(a, b) <=> Length(both) > 0
  BY DEF Intersects
<1>. HIDE DEF both
<1>3. \A h : h \in HoursIn(both) <=> h \in Int /\ Within(a, h) /\ Within(b, h)
  BY <1>1 DEF HoursIn, Within
<1>4. both.from \in Int /\ both.to \in Int /\ both.to - 1 \in Int
  BY <1>1
<1>5. IsFiniteSet(HoursIn(both)) /\ Cardinality(HoursIn(both)) = IF both.from > both.to - 1 THEN 0 ELSE (both.to - 1) - both.from + 1
  BY <1>4, FS_Interval, Zenon DEF HoursIn
<1>6. Cardinality(HoursIn(both)) = IF Intersects(a, b) THEN Length(both) ELSE 0
  BY <1>2, <1>4, <1>5 DEF Length
<1>7. Intersects(a, b) <=> both.from < both.to
  BY <1>2, <1>4 DEF Length
<1>. QED
  BY <1>3, <1>4, <1>5, <1>6, <1>7 DEF both

\* Spans of some days that a line is open in a period, and its hours in them.
OpenSpans(open, line, from, to) ==
    /\ IsFiniteSet(DOMAIN open)
    /\ \A d \in DOMAIN open :
          /\ IsSpan(open[d]) /\ open[d].from < open[d].to
          /\ \A h \in Int : Within(open[d], h) => \A e \in DOMAIN open : Within(open[e], h) => e = d
    /\ \A h : h \in OpenHours(line, from, to) <=> h \in Int /\ \E d \in DOMAIN open : Within(open[d], h)

\* Those of getOpenSpans are such.
LEMMA OpenSpansFacts ==
    ASSUME NEW line, OpensInTurn(line), NEW from \in Int, NEW to \in Int
    PROVE  OpenSpans(getOpenSpans(line, from, to), line, from, to)
<1>. DEFINE open == getOpenSpans(line, from, to)
            whole == [from |-> from, to |-> to]
            D == {d \in VisitedDays(from, to) : Intersects(whole, OpenSpan(d, line))}
<1>1. D = DOMAIN open /\ \A d \in D : open[d] = Intersection(whole, OpenSpan(d, line))
  BY DEF getOpenSpans
<1>2. DayOf(from) \in Int /\ DayOf(to) \in Int
  BY HourInDay
<1>3. D \subseteq Int /\ IsFiniteSet(D)
  <2>1. DayOf(from) - 1 \in Int /\ DayOf(to) + 1 \in Int
    BY <1>2
  <2>2. IsFiniteSet((DayOf(from) - 1)..(DayOf(to) + 1)) /\ D \subseteq (DayOf(from) - 1)..(DayOf(to) + 1)
    BY <2>1, FS_Interval DEF VisitedDays
  <2>. QED
    BY <2>1, <2>2, FS_Subset
<1>4. IsSpan(whole) /\ \A h \in Int : Within(whole, h) <=> h \in from..(to - 1)
  BY DEF IsSpan, Within
<1>5. \A d \in Int : IsSpan(OpenSpan(d, line))
  BY SpanOfDay DEF IsSpan
<1>. HIDE DEF whole, open
<1>6. ASSUME NEW d \in D
      PROVE  /\ IsSpan(open[d]) /\ open[d].from < open[d].to
             /\ \A h \in Int : Within(open[d], h) <=> Within(whole, h) /\ Within(OpenSpan(d, line), h)
  <2>1. d \in Int /\ IsSpan(OpenSpan(d, line)) /\ Intersects(whole, OpenSpan(d, line))
    BY <1>3, <1>5
  <2>2. open[d] = Intersection(whole, OpenSpan(d, line))
    BY <1>1
  <2>3. IsSpan(open[d]) /\ open[d].from < open[d].to
    BY <1>4, <2>1, <2>2, SharedHours
  <2>4. \A h : h \in HoursIn(open[d]) <=> h \in Int /\ Within(whole, h) /\ Within(OpenSpan(d, line), h)
    BY <1>4, <2>1, <2>2, SharedHours
  <2>5. \A h \in Int : h \in HoursIn(open[d]) <=> Within(open[d], h)
    BY <2>3 DEF HoursIn, Within, IsSpan
  <2>. QED
    BY <2>3, <2>4, <2>5
<1>7. ASSUME NEW d \in D, NEW e \in D, NEW h \in Int, Within(open[d], h), Within(open[e], h)
      PROVE  e = d
  <2>1. d \in Int /\ e \in Int /\ Within(OpenSpan(d, line), h) /\ Within(OpenSpan(e, line), h)
    BY <1>3, <1>6, <1>7
  <2>2. IsSpan(OpenSpan(d, line)) /\ IsSpan(OpenSpan(e, line))
    BY <1>5, <2>1
  <2>3. CASE d < e
    <3>1. OpenSpan(d, line).to <= OpenSpan(e, line).from
      BY <2>1, <2>3, SpansInTurn
    <3>. QED
      BY <2>1, <2>2, <3>1 DEF Within, IsSpan
  <2>4. CASE e < d
    <3>1. OpenSpan(e, line).to <= OpenSpan(d, line).from
      BY <2>1, <2>4, SpansInTurn
    <3>. QED
      BY <2>1, <2>2, <3>1 DEF Within, IsSpan
  <2>. QED
    BY <2>1, <2>3, <2>4
<1>8. ASSUME NEW h \in OpenHours(line, from, to)
      PROVE  h \in Int /\ \E d \in D : Within(open[d], h)
  <2>1. h \in Int /\ h \in from..(to - 1) /\ OpenAt(line, h)
    BY DEF OpenHours
  <2>2. PICK d \in Int : Within(OpenSpan(d, line), h)
    BY <2>1, OpenOnSomeDay
  <2>3. d \in (DayOf(h) - 1)..DayOf(h)
    BY <2>1, <2>2, OpenOnSomeDay
  <2>4. d \in VisitedDays(from, to)
    <3>. DEFINE A == DayOf(from)
                B == DayOf(to)
                H == DayOf(h)
    <3>1. /\ A \in Int /\ A * DayLength <= from /\ from < A * DayLength + DayLength
          /\ B \in Int /\ B * DayLength <= to /\ to < B * DayLength + DayLength
          /\ H \in Int /\ H * DayLength <= h /\ h < H * DayLength + DayLength
      BY <2>1, HourInDay
    <3>. HIDE DEF A, B, H
    <3>2. /\ A * DayLength \in Int /\ B * DayLength \in Int /\ H * DayLength \in Int /\ d * DayLength \in Int
          /\ (d - A) * DayLength = d * DayLength - A * DayLength
          /\ (A + 0) * DayLength = A * DayLength
          /\ (H + 1) * DayLength = H * DayLength + DayLength
          /\ (B + 1) * DayLength = B * DayLength + DayLength
      BY <3>1, <2>2, HoursOfDays
    <3>3. H >= A
      <4>1. CASE H + 1 <= A
        <5>1. (H + 1) * DayLength <= A * DayLength
          BY <3>1, <4>1, HoursOfDays
        <5>. QED
          BY <2>1, <3>1, <3>2, <5>1, DayLengthAssumption
      <4>. QED
        BY <3>1, <4>1
    <3>4. H <= B
      <4>1. CASE B + 1 <= H
        <5>1. (B + 1) * DayLength <= H * DayLength
          BY <3>1, <4>1, HoursOfDays
        <5>. QED
          BY <2>1, <3>1, <3>2, <5>1, DayLengthAssumption
      <4>. QED
        BY <3>1, <4>1
    <3>5. d \in (A - 1)..(B + 1) /\ d <= H
      BY <2>2, <2>3, <3>1, <3>3, <3>4 DEF H
    <3>6. d * DayLength <= H * DayLength
      BY <2>2, <3>1, <3>5, HoursOfDays
    <3>7. from + (d - A) * DayLength < to + DayLength
      BY <2>1, <3>1, <3>2, <3>6, DayLengthAssumption
    <3>. QED
      BY <3>5, <3>7 DEF VisitedDays, A, B
  <2>5. Intersects(whole, OpenSpan(d, line))
    <3>1. h \in HoursIn(Intersection(whole, OpenSpan(d, line)))
      BY <1>4, <1>5, <2>1, <2>2, SharedHours
    <3>2. IsSpan(Intersection(whole, OpenSpan(d, line)))
      BY <1>4, <1>5, <2>2, SharedHours
    <3>3. Intersection(whole, OpenSpan(d, line)).from < Intersection(whole, OpenSpan(d, line)).to
      BY <3>1, <3>2 DEF HoursIn, IsSpan
    <3>. QED
      BY <1>4, <1>5, <2>2, <3>3, SharedHours
  <2>6. d \in D
    BY <2>4, <2>5
  <2>. HIDE DEF D
  <2>. QED
    BY <1>4, <1>6, <2>1, <2>2, <2>6
<1>9. ASSUME NEW h \in Int, NEW d \in D, Within(open[d], h)
      PROVE  h \in OpenHours(line, from, to)
  <2>1. d \in Int /\ h \in from..(to - 1) /\ Within(OpenSpan(d, line), h)
    BY <1>3, <1>4, <1>6, <1>9
  <2>2. OpenAt(line, h)
    BY <2>1, OpenOnSomeDay
  <2>. QED
    BY <2>1, <2>2 DEF OpenHours
<1>. HIDE DEF D
<1>. QED
  BY <1>1, <1>3, <1>6, <1>7, <1>8, <1>9 DEF OpenSpans, open

\* The hours of a period in which a line is open, and of a span of it, are its
\* open time.
LEMMA OpenTimeIsHours ==
    ASSUME NEW line, NEW from, NEW to, NEW open, OpenSpans(open, line, from, to)
    PROVE  /\ IsFiniteSet(OpenHours(line, from, to))
           /\ Total([d \in DOMAIN open |-> Length(open[d])]) = Cardinality(OpenHours(line, from, to))
           /\ \A span : IsSpan(span) =>
                 OpenTimeOf(span, open) = Cardinality({h \in OpenHours(line, from, to) : Within(span, h)})
<1>. DEFINE O == OpenHours(line, from, to)
            D == DOMAIN open
<1>1. /\ IsFiniteSet(D)
      /\ \A d \in D :
            /\ IsSpan(open[d]) /\ open[d].from < open[d].to
            /\ \A h \in Int : Within(open[d], h) => \A e \in D : Within(open[e], h) => e = d
      /\ \A h : h \in O <=> h \in Int /\ \E d \in D : Within(open[d], h)
  BY DEF OpenSpans
<1>. HIDE DEF O, D
<1>2. IsFiniteSet(O) /\ Total([d \in D |-> Length(open[d])]) = Cardinality(O)
  <2>. DEFINE U == [d \in D |-> HoursIn(open[d])]
  <2>1. DOMAIN U = D /\ \A d \in D : U[d] = HoursIn(open[d])
    OBVIOUS
  <2>. HIDE DEF U
  <2>2. \A d \in D : \A h : h \in U[d] <=> h \in Int /\ Within(open[d], h)
    BY <1>1, <2>1 DEF HoursIn, Within, IsSpan
  <2>3. ASSUME NEW d \in D
        PROVE  IsFiniteSet(U[d]) /\ Cardinality(U[d]) = Length(open[d])
    <3>1. open[d].from \in Int /\ open[d].to \in Int /\ open[d].to - 1 \in Int /\ open[d].from < open[d].to
      BY <1>1 DEF IsSpan
    <3>2. IsFiniteSet(U[d]) /\ Cardinality(U[d]) = IF open[d].from > open[d].to - 1 THEN 0 ELSE (open[d].to - 1) - open[d].from + 1
      BY <2>1, <3>1, FS_Interval, Zenon DEF HoursIn
    <3>. QED
      BY <3>1, <3>2 DEF Length
  <2>4. Apart(U)
    <3>. SUFFICES ASSUME NEW d \in D, NEW e \in D, NEW h, h \in U[d], h \in U[e]
                  PROVE  d = e
      BY <2>1 DEF Apart
    <3>. QED
      BY <1>1, <2>2
  <2>5. \A h : h \in UnionOver(U, D) <=> h \in O
    BY <1>1, <2>2 DEF UnionOver
  <2>6. SizesOf(U) = [d \in D |-> Length(open[d])]
    BY <2>1, <2>3 DEF SizesOf
  <2>7. UnionOver(U, D) = O
    BY <2>5
  <2>. QED
    BY <1>1, <2>1, <2>3, <2>4, <2>6, <2>7, SumOfSizes
<1>3. ASSUME NEW span, IsSpan(span)
      PROVE  OpenTimeOf(span, open) = Cardinality({h \in O : Within(span, h)})
  <2>. DEFINE U == [d \in D |-> HoursIn(Intersection(span, open[d]))]
              w == [d \in D |-> IF Intersects(span, open[d]) THEN Length(Intersection(span, open[d])) ELSE 0]
              In == {h \in O : Within(span, h)}
  <2>1. DOMAIN U = D /\ \A d \in D : U[d] = HoursIn(Intersection(span, open[d]))
    OBVIOUS
  <2>2. OpenTimeOf(span, open) = Total(w)
    BY DEF OpenTimeOf, D
  <2>3. \A d \in D : w[d] = IF Intersects(span, open[d]) THEN Length(Intersection(span, open[d])) ELSE 0
    OBVIOUS
  <2>4. w = [d \in D |-> w[d]]
    OBVIOUS
  <2>. HIDE DEF U, w
  <2>5. ASSUME NEW d \in D
        PROVE  /\ IsFiniteSet(U[d]) /\ Cardinality(U[d]) = w[d]
               /\ \A h : h \in U[d] <=> h \in Int /\ Within(span, h) /\ Within(open[d], h)
    <3>1. IsSpan(open[d])
      BY <1>1
    <3>. QED
      BY <1>3, <2>1, <2>3, <3>1, SharedHours
  <2>6. Apart(U)
    <3>. SUFFICES ASSUME NEW d \in D, NEW e \in D, NEW h, h \in U[d], h \in U[e]
                  PROVE  d = e
      BY <2>1 DEF Apart
    <3>. QED
      BY <1>1, <2>5
  <2>7. \A h : h \in UnionOver(U, D) <=> h \in In
    BY <1>1, <2>5 DEF UnionOver
  <2>. HIDE DEF In
  <2>8. UnionOver(U, D) = In
    BY <2>7
  <2>9. SizesOf(U) = w
    BY <2>1, <2>4, <2>5 DEF SizesOf
  <2>10. Total(w) = Cardinality(In)
    BY <1>1, <2>1, <2>5, <2>6, <2>8, <2>9, SumOfSizes
  <2>. QED
    BY <2>2, <2>10 DEF In
<1>. QED
  BY <1>2, <1>3 DEF O, D

-----------------------------------------------------------------------------
(***************************************************************************)
(* When a line is down. Its disturbances, those that are looked at, follow *)
(* one another.                                                            *)
(***************************************************************************)
FollowOneAnother(ds, official, clock) ==
    /\ IsFiniteSet(ds)
    /\ \A d \in Chosen(ds, official) :
          /\ Start(d, official) \in Int /\ EndOrNow(d, official, clock) \in Int
          /\ \A e \in Chosen(ds, official) :
                \/ d = e
                \/ EndOrNow(d, official, clock) <= Start(e, official)
                \/ EndOrNow(e, official, clock) <= Start(d, official)

DownHours(line, from, to, official, clock) ==
    {h \in OpenHours(line, from, to) : DownAt(line, h, official, clock)}

\* The downtime of a period is the hours in which the line was down while open.
LEMMA DownTimeIsHours ==
    ASSUME NEW line, OpensInTurn(line), NEW official, NEW clock,
           FollowOneAnother(line.disturbances, official, clock), NEW from \in Int, NEW to \in Int
    PROVE  /\ IsFiniteSet(DownHours(line, from, to, official, clock))
           /\ DisturbanceDuration(line, from, to, official, clock).downTime
                = Cardinality(DownHours(line, from, to, official, clock))
<1>. DEFINE O == OpenHours(line, from, to)
            open == getOpenSpans(line, from, to)
            ds == DisturbancesBetween(line.disturbances, from, to, official, clock)
            span(d) == Clamped(d, from, to, official, clock)
            w == [d \in ds |-> OpenTimeOf(span(d), open)]
            U == [d \in ds |-> {h \in O : Within(span(d), h)}]
            Down == DownHours(line, from, to, official, clock)
            s(d) == Start(d, official)
            e(d) == EndOrNow(d, official, clock)
<1>1. DisturbanceDuration(line, from, to, official, clock).downTime = Total(w)
  BY DEF DisturbanceDuration
<1>2. /\ IsFiniteSet(O)
      /\ \A h \in O : h \in Int /\ from <= h /\ h < to
      /\ \A sp : IsSpan(sp) => OpenTimeOf(sp, open) = Cardinality({h \in O : Within(sp, h)})
  <2>1. \A h \in O : h \in Int /\ from <= h /\ h < to
    BY DEF OpenHours
  <2>2. OpenSpans(open, line, from, to)
    BY OpenSpansFacts
  <2>. HIDE DEF open
  <2>3. IsFiniteSet(O) /\ \A sp : IsSpan(sp) => OpenTimeOf(sp, open) = Cardinality({h \in O : Within(sp, h)})
    BY <2>2, OpenTimeIsHours, Zenon
  <2>. QED
    BY <2>1, <2>3
<1>3. /\ IsFiniteSet(ds)
      /\ \A d : d \in ds <=> d \in Chosen(line.disturbances, official) /\ s(d) <= to /\ e(d) >= from
      /\ \A d \in Chosen(line.disturbances, official) :
            /\ s(d) \in Int /\ e(d) \in Int
            /\ \A f \in Chosen(line.disturbances, official) : d = f \/ e(d) <= s(f) \/ e(f) <= s(d)
  <2>1. ds \subseteq line.disturbances /\ IsFiniteSet(line.disturbances)
    BY DEF DisturbancesBetween, Chosen, FollowOneAnother
  <2>2. IsFiniteSet(ds)
    BY <2>1, FS_Subset
  <2>. QED
    BY <2>2 DEF DisturbancesBetween, FollowOneAnother
<1>4. \A h \in Int : DownAt(line, h, official, clock) <=> \E d \in Chosen(line.disturbances, official) : s(d) <= h /\ h < e(d)
  BY DEF DownAt
<1>5. DOMAIN U = ds /\ DOMAIN w = ds /\ \A d \in ds : U[d] = {h \in O : Within(span(d), h)} /\ w[d] = OpenTimeOf(span(d), open)
  OBVIOUS
<1>6. w = [d \in ds |-> w[d]]
  OBVIOUS
<1>7. Down = {h \in O : DownAt(line, h, official, clock)}
  BY DEF DownHours
<1>8. \A d \in ds : span(d) = [from |-> Max({s(d), from}), to |-> Min({e(d), to})]
  BY DEF Clamped
<1>. HIDE DEF O, open, ds, span, w, U, Down, s, e
<1>9. ASSUME NEW d \in ds
      PROVE  IsSpan(span(d)) /\ \A h \in O : Within(span(d), h) <=> s(d) <= h /\ h < e(d)
  <2>1. s(d) \in Int /\ e(d) \in Int
    BY <1>3
  <2>2. /\ Max({s(d), from}) = IF s(d) >= from THEN s(d) ELSE from
        /\ Min({e(d), to}) = IF e(d) <= to THEN e(d) ELSE to
    BY <2>1, OfTwo, Zenon
  <2>3. span(d).from = Max({s(d), from}) /\ span(d).to = Min({e(d), to})
    BY <1>8
  <2>. QED
    BY <1>2, <2>1, <2>2, <2>3 DEF IsSpan, Within
<1>10. ASSUME NEW d \in ds
       PROVE  IsFiniteSet(U[d]) /\ Cardinality(U[d]) = w[d]
  <2>1. U[d] \subseteq O
    BY <1>5
  <2>2. IsFiniteSet(U[d])
    BY <1>2, <2>1, FS_Subset
  <2>. QED
    BY <1>2, <1>5, <1>9, <2>2
<1>11. \A d \in ds : \A h : h \in U[d] <=> h \in O /\ s(d) <= h /\ h < e(d)
  BY <1>5, <1>9
<1>12. Apart(U)
  <2>. SUFFICES ASSUME NEW d \in ds, NEW f \in ds, NEW h, h \in U[d], h \in U[f]
                PROVE  d = f
    BY <1>5 DEF Apart
  <2>1. h \in Int /\ s(d) <= h /\ h < e(d) /\ s(f) <= h /\ h < e(f)
    BY <1>2, <1>11
  <2>2. s(d) \in Int /\ e(d) \in Int /\ s(f) \in Int /\ e(f) \in Int /\ (d = f \/ e(d) <= s(f) \/ e(f) <= s(d))
    BY <1>3
  <2>. QED
    BY <2>1, <2>2
<1>13. ASSUME NEW h \in O, NEW d \in Chosen(line.disturbances, official), s(d) <= h, h < e(d)
       PROVE  d \in ds
  <2>1. h \in Int /\ from <= h /\ h < to /\ s(d) \in Int /\ e(d) \in Int
    BY <1>2, <1>3
  <2>2. s(d) <= to /\ e(d) >= from
    BY <1>13, <2>1
  <2>. QED
    BY <1>3, <2>2
<1>14. \A h : h \in UnionOver(U, ds) <=> h \in Down
  <2>1. \A h : h \in UnionOver(U, ds) <=> \E d \in ds : h \in U[d]
    BY DEF UnionOver
  <2>2. \A h : h \in Down <=> h \in O /\ \E d \in Chosen(line.disturbances, official) : s(d) <= h /\ h < e(d)
    BY <1>2, <1>4, <1>7
  <2>. QED
    BY <1>3, <1>11, <1>13, <2>1, <2>2
<1>15. UnionOver(U, ds) = Down
  BY <1>14, Zenon
<1>16. SizesOf(U) = w
  BY <1>5, <1>6, <1>10 DEF SizesOf
<1>17. Total(w) = Cardinality(Down) /\ IsFiniteSet(Down)
  BY <1>3, <1>5, <1>10, <1>12, <1>15, <1>16, SumOfSizes
<1>. QED
  BY <1>1, <1>17 DEF Down

-----------------------------------------------------------------------------
(***************************************************************************)
(* A period of days.                                                       *)
(***************************************************************************)
MidnightOf(firstDay, i) == firstDay * DayLength + i * DayLength

\* Each hour of a period is of one of its days.
LEMMA DaysOfPeriod ==
    ASSUME NEW firstDay \in Int, NEW days \in Nat, NEW h \in Int
    PROVE  /\ \A i \in 0..days : MidnightOf(firstDay, i) \in Int
           /\ \A i, j \in 0..days : i < j =>
                 /\ MidnightOf(firstDay, i) + DayLength <= MidnightOf(firstDay, j)
                 /\ MidnightOf(firstDay, i + 1) = MidnightOf(firstDay, i) + DayLength
           /\ MidnightOf(firstDay, 0) <= h /\ h < MidnightOf(firstDay, days) =>
                 \E i \in 1..days : MidnightOf(firstDay, i - 1) <= h /\ h < MidnightOf(firstDay, i)
           /\ MidnightOf(firstDay, 0) = firstDay * DayLength
           /\ (firstDay + days) * DayLength = MidnightOf(firstDay, days)
<1>. DEFINE M(i) == MidnightOf(firstDay, i)
            F == firstDay * DayLength
<1>. USE DayLengthAssumption
<1>1. F \in Int
  BY HoursOfDays
<1>2. \A i \in Int : M(i) = F + i * DayLength /\ i * DayLength \in Int
  BY HoursOfDays DEF MidnightOf
<1>3. (firstDay + days) * DayLength = F + days * DayLength
  <2>1. firstDay + days \in Int /\ (firstDay + days) - firstDay = days
    OBVIOUS
  <2>2. ((firstDay + days) - firstDay) * DayLength = (firstDay + days) * DayLength - F
    BY <2>1, HoursOfDays
  <2>3. (firstDay + days) * DayLength \in Int
    BY <2>1, HoursOfDays
  <2>. QED
    BY <1>1, <1>2, <2>1, <2>2, <2>3
<1>4. M(0) = F
  <2>1. 0 * DayLength = 0
    OBVIOUS
  <2>. QED
    BY <1>1, <1>2, <2>1
<1>5. ASSUME NEW i \in Int, NEW j \in Int, i < j
      PROVE  M(i) + DayLength <= M(j) /\ M(i + 1) = M(i) + DayLength /\ M(i) \in Int /\ M(j) \in Int
  <2>1. i + 1 \in Int /\ i + 1 <= j
    BY <1>5
  <2>2. (i + 1) * DayLength <= j * DayLength /\ (i + 1) * DayLength = i * DayLength + DayLength
    BY <2>1, HoursOfDays
  <2>3. M(i) = F + i * DayLength /\ M(j) = F + j * DayLength /\ M(i + 1) = F + (i + 1) * DayLength
    BY <1>2, <2>1
  <2>. QED
    BY <1>1, <1>2, <2>1, <2>2, <2>3
<1>6. ASSUME M(0) <= h, h < M(days)
      PROVE  \E i \in 1..days : M(i - 1) <= h /\ h < M(i)
  <2>. DEFINE H == DayOf(h)
              i == H - firstDay + 1
  <2>1. H \in Int /\ H * DayLength <= h /\ h < H * DayLength + DayLength
    BY HourInDay
  <2>. HIDE DEF H
  <2>2. i \in Int /\ i - 1 = H - firstDay /\ (H - firstDay) * DayLength = H * DayLength - F
    BY <2>1, HoursOfDays
  <2>3. H * DayLength \in Int
    BY <2>1, HoursOfDays
  <2>4. M(i - 1) = H * DayLength
    <3>1. M(i - 1) = F + (i - 1) * DayLength
      BY <1>2, <2>2
    <3>. QED
      BY <1>1, <2>2, <2>3, <3>1
  <2>5. M(i) = M(i - 1) + DayLength
    <3>1. i - 1 \in Int /\ i - 1 < i /\ (i - 1) + 1 = i
      BY <2>2
    <3>. QED
      BY <1>5, <3>1
  <2>. HIDE DEF i, M
  <2>6. M(i - 1) <= h /\ h < M(i)
    BY <2>1, <2>3, <2>4, <2>5
  <2>7. i \in 1..days
    <3>1. CASE i < 1
      <4>1. i <= 0
        BY <2>2, <3>1
      <4>2. M(i) <= M(0) /\ M(i) \in Int /\ M(0) \in Int
        <5>1. i < 0 => M(i) + DayLength <= M(0) /\ M(i) \in Int /\ M(0) \in Int
          BY <1>5, <2>2
        <5>. QED
          BY <1>1, <1>4, <2>2, <4>1, <5>1
      <4>. QED
        BY <1>6, <2>6, <4>2
    <3>2. CASE i > days
      <4>1. i - 1 >= days /\ i - 1 \in Int
        BY <2>2, <3>2
      <4>2. M(days) <= M(i - 1) /\ M(days) \in Int /\ M(i - 1) \in Int
        <5>1. days < i - 1 => M(days) + DayLength <= M(i - 1) /\ M(days) \in Int /\ M(i - 1) \in Int
          BY <1>5, <4>1
        <5>2. M(i - 1) \in Int
          BY <2>3, <2>4
        <5>. QED
          BY <4>1, <5>1, <5>2
      <4>. QED
        BY <1>6, <2>6, <4>2
    <3>. QED
      BY <2>2, <3>1, <3>2
  <2>. QED
    BY <2>6, <2>7
<1>7. \A i \in 0..days : M(i) \in Int
  BY <1>1, <1>2
<1>8. \A i, j \in 0..days : i < j => M(i) + DayLength <= M(j) /\ M(i + 1) = M(i) + DayLength
  <2>1. \A i \in 0..days : i \in Int
    OBVIOUS
  <2>. HIDE DEF M
  <2>. QED
    BY <1>5, <2>1
<1>9. (firstDay + days) * DayLength = M(days)
  BY <1>2, <1>3
<1>. HIDE DEF F
<1>. QED
  BY <1>4, <1>6, <1>7, <1>8, <1>9 DEF F

\* What is of a period is of its days, each of them once.
ByDays(A, firstDay, days, W) ==
    /\ IsFiniteSet(A)
    /\ \A h \in A : h \in Int /\ MidnightOf(firstDay, 0) <= h /\ h < MidnightOf(firstDay, days)
    /\ DOMAIN W = 1..days
    /\ \A i \in 1..days :
          W[i] = Cardinality({h \in A : MidnightOf(firstDay, i - 1) <= h /\ h < MidnightOf(firstDay, i)})

\* What is of the days adds up to what is of the period.
LEMMA DaysAddUp ==
    ASSUME NEW firstDay \in Int, NEW days \in Nat, NEW A, NEW W, ByDays(A, firstDay, days, W),
           W = [i \in 1..days |-> W[i]]
    PROVE  Total(W) = Cardinality(A)
<1>. DEFINE M(i) == MidnightOf(firstDay, i)
            U == [i \in 1..days |-> {h \in A : M(i - 1) <= h /\ h < M(i)}]
<1>. USE DEF ByDays
<1>1. DOMAIN U = 1..days /\ \A i \in 1..days : U[i] = {h \in A : M(i - 1) <= h /\ h < M(i)}
  OBVIOUS
<1>2. \A i \in 1..days : W[i] = Cardinality(U[i])
  BY <1>1
<1>3. \A i \in 0..days : M(i) \in Int
  BY DaysOfPeriod
<1>4. \A i, j \in 0..days : i < j => M(i) + DayLength <= M(j)
  BY DaysOfPeriod
<1>5. \A h \in A : \E i \in 1..days : M(i - 1) <= h /\ h < M(i)
  BY DaysOfPeriod
<1>. HIDE DEF U, M
<1>6. ASSUME NEW i \in 1..days, NEW j \in 1..days, i < j, NEW h \in A
      PROVE  ~(h \in U[i] /\ h \in U[j])
  <2>1. M(i) <= M(j - 1) /\ M(i) \in Int /\ M(j - 1) \in Int
    <3>1. i \in 0..days /\ j - 1 \in 0..days /\ (i = j - 1 \/ i < j - 1)
      BY <1>6
    <3>2. M(i) \in Int /\ M(j - 1) \in Int
      BY <1>3, <3>1
    <3>3. i < j - 1 => M(i) + DayLength <= M(j - 1)
      BY <1>4, <3>1
    <3>. QED
      BY <3>1, <3>2, <3>3, DayLengthAssumption
  <2>. QED
    BY <1>1, <2>1
<1>7. Apart(U)
  <2>. SUFFICES ASSUME NEW i \in 1..days, NEW j \in 1..days, NEW h, h \in U[i], h \in U[j]
                PROVE  i = j
    BY <1>1 DEF Apart
  <2>1. h \in A
    BY <1>1
  <2>. QED
    BY <1>6, <2>1
<1>8. \A h : h \in UnionOver(U, 1..days) <=> h \in A
  <2>1. \A h : h \in UnionOver(U, 1..days) <=> \E i \in 1..days : h \in U[i]
    BY DEF UnionOver
  <2>. QED
    BY <1>1, <1>5, <2>1
<1>9. UnionOver(U, 1..days) = A
  BY <1>8, Zenon
<1>10. SizesOf(U) = W
  BY <1>1, <1>2 DEF SizesOf
<1>11. \A i \in 1..days : IsFiniteSet(U[i])
  <2>. SUFFICES ASSUME NEW i \in 1..days
                PROVE  IsFiniteSet(U[i])
    OBVIOUS
  <2>1. U[i] \subseteq A
    BY <1>1
  <2>. QED
    BY <2>1, FS_Subset
<1>12. IsFiniteSet(1..days)
  BY FS_Interval
<1>. QED
  BY <1>1, <1>7, <1>9, <1>10, <1>11, <1>12, SumOfSizes, Zenon

\* The open time of a period, and whether a line is closed.
LEMMA ClosedTime ==
    ASSUME NEW line, OpensInTurn(line), NEW from \in Int, NEW to \in Int
    PROVE  /\ Cardinality(OpenHours(line, from, to)) \in Nat
           /\ IsFiniteSet(OpenHours(line, from, to))
           /\ getClosedDuration(line, from, to) = (to - from) - Cardinality(OpenHours(line, from, to))
           /\ (to - from) - getClosedDuration(line, from, to) = Cardinality(OpenHours(line, from, to))
<1>. DEFINE open == getOpenSpans(line, from, to)
<1>1. OpenSpans(open, line, from, to)
  BY OpenSpansFacts
<1>2. getClosedDuration(line, from, to) = (to - from) - Total([d \in DOMAIN open |-> Length(open[d])])
  BY DEF getClosedDuration
<1>. HIDE DEF open
<1>3. IsFiniteSet(OpenHours(line, from, to)) /\ Total([d \in DOMAIN open |-> Length(open[d])]) = Cardinality(OpenHours(line, from, to))
  BY <1>1, OpenTimeIsHours
<1>4. Cardinality(OpenHours(line, from, to)) \in Nat
  BY <1>3, FS_CardinalityType
<1>. QED
  BY <1>2, <1>3, <1>4

\* A line is closed when no day of its schedule has it open.
LEMMA ClosedNow ==
    ASSUME NEW line, OpensInTurn(line), NEW h \in Int
    PROVE  CurrentlyClosed(line, h) <=> ~OpenAt(line, h)
<1>1. getClosedDuration(line, h, h + 1) = ((h + 1) - h) - Cardinality(OpenHours(line, h, h + 1))
      /\ Cardinality(OpenHours(line, h, h + 1)) \in Nat
  BY ClosedTime
<1>2. \A k : k \in OpenHours(line, h, h + 1) <=> k = h /\ OpenAt(line, h)
  BY DEF OpenHours
<1>3. CASE OpenAt(line, h)
  <2>1. OpenHours(line, h, h + 1) = {h}
    BY <1>2, <1>3
  <2>2. Cardinality(OpenHours(line, h, h + 1)) = 1
    BY <2>1, FS_Singleton, Zenon
  <2>. QED
    BY <1>1, <1>3, <2>2 DEF CurrentlyClosed
<1>4. CASE ~OpenAt(line, h)
  <2>1. OpenHours(line, h, h + 1) = {}
    BY <1>2, <1>4
  <2>2. Cardinality(OpenHours(line, h, h + 1)) = 0
    BY <2>1, FS_EmptySet
  <2>. QED
    BY <1>1, <1>4, <2>2 DEF CurrentlyClosed
<1>. QED
  BY <1>3, <1>4

\* Whatever the disturbances of a line, if they follow one another, and whatever its
\* schedule, if it does not open before it has closed: the hours in which it was
\* down are counted once, in a period and in its days (types/line.go
\* DisturbanceDuration, getOpenSpans, Availability, CurrentlyClosed).
THEOREM DowntimeForAnyRows ==
    ASSUME NEW line, OpensInTurn(line), NEW official, NEW clock,
           FollowOneAnother(line.disturbances, official, clock), NEW firstDay \in Int, NEW days \in Nat
    PROVE  DowntimeCountedOnceIn(line, firstDay, days, official, clock)
<1>. DEFINE M(i) == MidnightOf(firstDay, i)
            hours == (firstDay * DayLength)..((firstDay + days) * DayLength - 1)
            open == {h \in hours : OpenAt(line, h)}
            down == {h \in open : DownAt(line, h, official, clock)}
            page == DisturbanceListPage(line, firstDay, days, official, clock)
<1>1. /\ \A i \in 0..days : M(i) \in Int
      /\ M(0) = firstDay * DayLength
      /\ (firstDay + days) * DayLength = M(days)
      /\ 0 \in 0..days /\ days \in 0..days
  BY DaysOfPeriod
<1>2. open = OpenHours(line, M(0), M(days))
  BY <1>1 DEF OpenHours
<1>3. down = DownHours(line, M(0), M(days), official, clock)
  BY <1>2 DEF DownHours
<1>4. /\ page.total = DisturbanceDuration(line, M(0), M(days), official, clock).downTime
      /\ page.TotalAvailability.totalTime = (M(days) - M(0)) - getClosedDuration(line, M(0), M(days))
      /\ page.HoursDown = [i \in 1..days |-> DisturbanceDuration(line, M(i - 1), M(i), official, clock).downTime]
      /\ \A i \in 1..days : page.Availability[i].totalTime = (M(i) - M(i - 1)) - getClosedDuration(line, M(i - 1), M(i))
  <2>. HIDE DEF hours, open, down
  <2>1. firstDay * DayLength = M(0)
    BY <1>1
  <2>2. \A i : M(i) = firstDay * DayLength + i * DayLength
    BY DEF MidnightOf
  <2>3. page = [total |-> DisturbanceDuration(line, M(0), M(days), official, clock).downTime,
                TotalAvailability |-> Availability(line, M(0), M(days), official, clock),
                HoursDown |-> [i \in 1..days |-> DisturbanceDuration(line, M(i - 1), M(i), official, clock).downTime],
                Availability |-> [i \in 1..days |-> Availability(line, M(i - 1), M(i), official, clock)]]
    BY <2>1, Zenon DEF DisturbanceListPage, MidnightOf
  <2>4. \A from, to : Availability(line, from, to, official, clock).totalTime = (to - from) - getClosedDuration(line, from, to)
    BY DEF Availability
  <2>. HIDE DEF page, M
  <2>. QED
    BY <2>3, <2>4
<1>5. \A h \in open : h \in Int /\ M(0) <= h /\ h < M(days)
  BY <1>1
<1>6. \A h \in down : h \in open
  OBVIOUS
<1>7. \A h : /\ h \in open <=> h \in hours /\ OpenAt(line, h)
             /\ h \in down <=> h \in open /\ DownAt(line, h, official, clock)
  OBVIOUS
<1>8. \A h : h \in hours <=> h \in Int /\ M(0) <= h /\ h < M(days)
  BY <1>1
<1>9. \A h \in hours : CurrentlyClosed(line, h) <=> h \notin open
  BY <1>7, <1>8, ClosedNow
<1>. HIDE DEF hours, open, down, page, M
<1>10. IsFiniteSet(open) /\ IsFiniteSet(down)
  BY <1>1, <1>2, <1>3, ClosedTime, DownTimeIsHours
<1>11. page.total = Cardinality(down)
  BY <1>1, <1>3, <1>4, DownTimeIsHours
<1>12. page.TotalAvailability.totalTime = Cardinality(open)
  BY <1>1, <1>2, <1>4, ClosedTime
<1>13. ASSUME NEW i \in 1..days
       PROVE  /\ M(i) \in Int /\ M(i - 1) \in Int /\ M(0) <= M(i - 1) /\ M(i) <= M(days)
              /\ \A h \in Int : M(i - 1) <= h /\ h < M(i) => h \in hours
  <2>1. i \in 0..days /\ i - 1 \in 0..days /\ (i - 1 = 0 \/ 0 < i - 1) /\ (i = days \/ i < days)
    OBVIOUS
  <2>2. \A j, k \in 0..days : j < k => M(j) + DayLength <= M(k)
    <3>1. 0 \in Int
      OBVIOUS
    <3>. QED
      BY <3>1, DaysOfPeriod DEF M
  <2>3. M(i) \in Int /\ M(i - 1) \in Int /\ M(0) \in Int /\ M(days) \in Int
    BY <1>1, <2>1
  <2>4. 0 < i - 1 => M(0) + DayLength <= M(i - 1)
    BY <1>1, <2>1, <2>2
  <2>5. i < days => M(i) + DayLength <= M(days)
    BY <1>1, <2>1, <2>2
  <2>6. M(0) <= M(i - 1)
    <3>1. CASE i - 1 = 0
      BY <2>3, <3>1
    <3>2. CASE 0 < i - 1
      BY <2>3, <2>4, <3>2, DayLengthAssumption
    <3>. QED
      BY <2>1, <3>1, <3>2
  <2>7. M(i) <= M(days)
    <3>1. CASE i = days
      BY <2>3, <3>1
    <3>2. CASE i < days
      BY <2>3, <2>5, <3>2, DayLengthAssumption
    <3>. QED
      BY <2>1, <3>1, <3>2
  <2>. QED
    BY <1>8, <2>3, <2>6, <2>7
<1>14. ASSUME NEW i \in 1..days
       PROVE  /\ OpenHours(line, M(i - 1), M(i)) = {h \in open : M(i - 1) <= h /\ h < M(i)}
              /\ DownHours(line, M(i - 1), M(i), official, clock) = {h \in down : M(i - 1) <= h /\ h < M(i)}
  <2>1. M(i) \in Int /\ M(i - 1) \in Int /\ \A h \in Int : M(i - 1) <= h /\ h < M(i) => h \in hours
    BY <1>13
  <2>2. \A h : h \in OpenHours(line, M(i - 1), M(i)) <=> h \in Int /\ M(i - 1) <= h /\ h < M(i) /\ OpenAt(line, h)
    BY <2>1 DEF OpenHours
  <2>3. \A h : h \in open <=> h \in Int /\ h \in hours /\ OpenAt(line, h)
    BY <1>7, <1>8
  <2>4. OpenHours(line, M(i - 1), M(i)) = {h \in open : M(i - 1) <= h /\ h < M(i)}
    BY <2>1, <2>2, <2>3
  <2>5. \A h : h \in DownHours(line, M(i - 1), M(i), official, clock) <=>
            h \in OpenHours(line, M(i - 1), M(i)) /\ DownAt(line, h, official, clock)
    BY DEF DownHours
  <2>. QED
    BY <1>7, <2>4, <2>5
<1>15. Total(page.HoursDown) = Cardinality(down)
  <2>1. ASSUME NEW i \in 1..days
        PROVE  page.HoursDown[i] = Cardinality({h \in down : M(i - 1) <= h /\ h < M(i)})
    <3>1. M(i) \in Int /\ M(i - 1) \in Int
      BY <1>13
    <3>2. DisturbanceDuration(line, M(i - 1), M(i), official, clock).downTime = Cardinality(DownHours(line, M(i - 1), M(i), official, clock))
      BY <3>1, DownTimeIsHours
    <3>3. page.HoursDown[i] = DisturbanceDuration(line, M(i - 1), M(i), official, clock).downTime
      BY <1>4
    <3>. QED
      BY <1>14, <3>2, <3>3
  <2>2. DOMAIN page.HoursDown = 1..days /\ page.HoursDown = [i \in 1..days |-> page.HoursDown[i]]
    BY <1>4
  <2>3. ByDays(down, firstDay, days, page.HoursDown)
    BY <1>5, <1>6, <1>10, <2>1, <2>2 DEF ByDays, M
  <2>. QED
    BY <2>2, <2>3, DaysAddUp
<1>16. Total([i \in 1..days |-> page.Availability[i].totalTime]) = Cardinality(open)
  <2>. DEFINE W == [i \in 1..days |-> page.Availability[i].totalTime]
  <2>1. ASSUME NEW i \in 1..days
        PROVE  W[i] = Cardinality({h \in open : M(i - 1) <= h /\ h < M(i)})
    <3>1. M(i) \in Int /\ M(i - 1) \in Int
      BY <1>13
    <3>2. (M(i) - M(i - 1)) - getClosedDuration(line, M(i - 1), M(i)) = Cardinality(OpenHours(line, M(i - 1), M(i)))
      BY <3>1, ClosedTime
    <3>3. W[i] = (M(i) - M(i - 1)) - getClosedDuration(line, M(i - 1), M(i))
      BY <1>4
    <3>. QED
      BY <1>14, <3>2, <3>3, Zenon
  <2>2. DOMAIN W = 1..days /\ W = [i \in 1..days |-> W[i]]
    OBVIOUS
  <2>. HIDE DEF W
  <2>3. ByDays(open, firstDay, days, W)
    BY <1>5, <1>10, <2>1, <2>2 DEF ByDays, M
  <2>4. Total(W) = Cardinality(open)
    BY <2>2, <2>3, DaysAddUp
  <2>. QED
    BY <2>4 DEF W
<1>17. AddsUp(page, days, line, hours, open, official, clock)
  <2>1. {h \in open : DownAt(line, h, official, clock)} = down
    BY DEF down
  <2>. QED
    BY <1>9, <1>11, <1>12, <1>15, <1>16, <2>1, Zenon DEF AddsUp
<1>. QED
  BY <1>17 DEF DowntimeCountedOnceIn, hours, open, page

-----------------------------------------------------------------------------
(***************************************************************************)
(* The disturbances that AddStatus makes follow one another.               *)
(***************************************************************************)
LEMMA RowsFollow ==
    ASSUME NEW ds \in SUBSET Disturbance, IsFiniteSet(ds), Disjoint(ds), WellTimed(ds),
           NEW official \in BOOLEAN, NEW clock \in Nat
    PROVE  FollowOneAnother(ds, official, clock)
<1>1. \A d \in Chosen(ds, official) : d \in ds /\ (official => d.Official)
  BY DEF Chosen
<1>2. ASSUME NEW d \in ds, official => d.Official
      PROVE  /\ Start(d, official) \in Int /\ EndOrNow(d, official, clock) \in Int
             /\ d.UStartTime <= Start(d, official)
             /\ d.UEnded => EndOrNow(d, official, clock) = d.UEndTime
  <2>1. /\ d.Official \in BOOLEAN /\ d.OEnded \in BOOLEAN /\ d.UEnded \in BOOLEAN
        /\ d.OStartTime \in Nat /\ d.OEndTime \in Nat /\ d.UStartTime \in Nat /\ d.UEndTime \in Nat
    BY DEF Disturbance
  <2>2. /\ d.Official => d.UStartTime <= d.OStartTime
        /\ d.OEnded <=> (d.Official /\ d.UEnded)
        /\ d.OEnded => d.OEndTime = d.UEndTime
    BY DEF WellTimed
  <2>3. CASE official
    BY <1>2, <2>1, <2>2, <2>3 DEF Start, EndOrNow, Ended, End
  <2>4. CASE ~official
    BY <2>1, <2>4 DEF Start, EndOrNow, Ended, End
  <2>. QED
    BY <2>3, <2>4
<1>3. ASSUME NEW d \in ds, NEW e \in ds, official => d.Official /\ e.Official, Before(d, e)
      PROVE  EndOrNow(d, official, clock) <= Start(e, official)
  <2>1. d.UEnded /\ d.UEndTime < e.UStartTime
    BY <1>3 DEF Before
  <2>2. EndOrNow(d, official, clock) = d.UEndTime /\ e.UStartTime <= Start(e, official) /\ Start(e, official) \in Int
    BY <1>2, <1>3, <2>1
  <2>3. d.UEndTime \in Nat /\ e.UStartTime \in Nat
    BY DEF Disturbance
  <2>. QED
    BY <2>1, <2>2, <2>3
<1>4. \A d, e \in ds : d = e \/ Before(d, e) \/ Before(e, d)
  BY DEF Disjoint
<1>. QED
  BY <1>1, <1>2, <1>3, <1>4 DEF FollowOneAnother

\* Rows as AddStatus leaves them, however it is called.
Rows == {r \in LineRows : IsFiniteSet(r.disturbances)}

\* A status leaves them so.
LEMMA AddStatusRows ==
    ASSUME NEW r \in Rows, NEW s \in Status
    PROVE  AddStatus(r, s) \in Rows
<1>. DEFINE ds == r.disturbances
            ongoing == OngoingDisturbances(ds)
            d == LatestStarted(ongoing)
            after == DisturbancesAfter(ds, s)
<1>1. ds \in SUBSET Disturbance /\ r.log \in SUBSET Status /\ IsFiniteSet(ds)
  BY DEF Rows, LineRows
<1>2. ASSUME ongoing # {}
      PROVE  d \in ds /\ ~d.UEnded
  <2>. DEFINE starts == {e.UStartTime : e \in ongoing}
  <2>1. ongoing \subseteq ds /\ IsFiniteSet(ongoing)
    BY <1>1, FS_Subset DEF OngoingDisturbances
  <2>. DEFINE F == {Q \in SUBSET ongoing : Q # {} => \E e \in Q : \A f \in Q : f.UStartTime <= e.UStartTime}
  <2>2. {} \in F
    OBVIOUS
  <2>3. ASSUME NEW Q \in SUBSET ongoing, NEW x \in ongoing \ Q, Q \in F
        PROVE  Q \cup {x} \in F
    <3>0. \A e \in ongoing : e.UStartTime \in Nat
      BY <1>1, <2>1 DEF Disturbance
    <3>1. CASE Q = {}
      <4>1. x.UStartTime <= x.UStartTime
        BY <3>0
      <4>. QED
        BY <3>1, <4>1
    <3>2. CASE Q # {}
      <4>1. PICK e \in Q : \A f \in Q : f.UStartTime <= e.UStartTime
        BY <2>3, <3>2
      <4>2. CASE x.UStartTime <= e.UStartTime
        BY <4>1, <4>2
      <4>3. CASE ~(x.UStartTime <= e.UStartTime)
        <5>1. \A f \in Q \cup {x} : f.UStartTime <= x.UStartTime
          BY <3>0, <4>1, <4>3
        <5>. QED
          BY <5>1
      <4>. QED
        BY <4>2, <4>3
    <3>. QED
      BY <3>1, <3>2
  <2>. HIDE DEF F, ongoing
  <2>4. ongoing \in F
    BY <2>1, <2>2, <2>3, SubsetInduction, Zenon
  <2>5. \E e \in ongoing : \A f \in ongoing : f.UStartTime <= e.UStartTime
    BY <1>2, <2>4 DEF F
  <2>6. d \in ongoing
    BY <2>5 DEF LatestStarted
  <2>. QED
    BY <2>1, <2>6 DEF ongoing, OngoingDisturbances
<1>3. after \in SUBSET Disturbance /\ IsFiniteSet(after)
  <2>1. CASE ongoing # {} /\ ~Ignores(d, s)
    <3>1. after = (ds \ {d}) \cup {Amend(d, s)}
      BY <2>1 DEF DisturbancesAfter
    <3>2. d \in Disturbance /\ ~d.UEnded
      BY <1>1, <1>2, <2>1
    <3>. HIDE DEF d
    <3>3. Amend(d, s) \in Disturbance
      BY <2>1, <3>2, AmendFacts
    <3>4. IsFiniteSet(ds \ {d})
      BY <1>1, FS_RemoveElement
    <3>5. IsFiniteSet((ds \ {d}) \cup {Amend(d, s)})
      BY <3>4, FS_AddElement
    <3>. QED
      BY <1>1, <3>1, <3>3, <3>5
  <2>2. CASE ongoing = {} /\ s.IsDowntime
    <3>1. after = ds \cup {Open(s)}
      BY <2>2 DEF DisturbancesAfter
    <3>2. Open(s) \in Disturbance
      BY OpenFacts
    <3>3. IsFiniteSet(ds \cup {Open(s)})
      BY <1>1, FS_AddElement
    <3>. QED
      BY <1>1, <3>1, <3>2, <3>3
  <2>3. CASE \/ ongoing # {} /\ Ignores(d, s)
             \/ ongoing = {} /\ ~s.IsDowntime
    <3>1. after = ds
      BY <2>3 DEF DisturbancesAfter
    <3>. QED
      BY <1>1, <3>1
  <2>. QED
    BY <2>1, <2>2, <2>3
<1>. HIDE DEF after
<1>4. CASE IsDuplicate(r.log, s)
  BY <1>4 DEF AddStatus
<1>5. CASE ~IsDuplicate(r.log, s)
  <2>1. AddStatus(r, s) = [log |-> r.log \cup {s}, disturbances |-> after]
    BY <1>5 DEF AddStatus, after
  <2>. QED
    BY <1>1, <1>3, <2>1 DEF Rows, LineRows
<1>. QED
  BY <1>4, <1>5

\* A status later than all there is keeps the intervals of a history disjoint.
LEMMA HistoryStep ==
    ASSUME NEW ds \in SUBSET Disturbance, Disjoint(ds), WellTimed(ds),
           NEW s \in Status, StartedBefore(ds, s.Time)
    PROVE  LET after == DisturbancesAfter(ds, s)
           IN  /\ after \in SUBSET Disturbance
               /\ Disjoint(after)
               /\ WellTimed(after)
               /\ StartedBefore(after, s.Time + 1)
<1>1. OneOpen(ds)
  BY DEF OneOpen, Disjoint, Before
<1>2. ASSUME NEW es
      PROVE  DisjointBut(es, {}) <=> Disjoint(es)
  <2>1. {d \in es : d.UStartTime \notin {}} = es
    OBVIOUS
  <2>. QED
    BY <2>1 DEF DisjointBut
<1>. QED
  BY <1>1, <1>2, IntervalsPreserved

\* The rows after some statuses, each later than those before it.
LEMMA RowsAfterHistory ==
    ASSUME NEW n \in Nat, NEW history \in [1..n -> Status],
           \A i, j \in DOMAIN history : i < j => history[i].Time < history[j].Time
    PROVE  LET ds == FoldLeft(AddStatus, NoRows, history).disturbances
           IN  /\ ds \in SUBSET Disturbance /\ IsFiniteSet(ds) /\ Disjoint(ds) /\ WellTimed(ds)
               /\ \A t \in Nat : (\A i \in 1..n : history[i].Time < t) => StartedBefore(ds, t)
<1>. DEFINE D == DOMAIN history
            pick == LatestOf(n)
            step == [p \in D \X Rows |-> AddStatus(p[2], history[p[1]])]
            Solves(it) == it = [s \in SUBSET D |-> IF s = {} THEN NoRows
                                    ELSE AddStatus(it[s \ {Max(s)}], history[Max(s)])]
            it == CHOOSE it : Solves(it)
<1>1. D = 1..n
  OBVIOUS
<1>2. Picks(pick, D) /\ IsFiniteSet(D) /\ \A Q \in SUBSET D : pick[Q] = Max(Q)
  BY <1>1, LatestPicks
<1>3. NoRows \in Rows /\ NoRows.disturbances = {}
  BY FS_EmptySet, Zenon DEF NoRows, Rows, LineRows
<1>4. \A i \in D, r \in Rows : step[<<i, r>>] = AddStatus(r, history[i]) /\ step[<<i, r>>] \in Rows
  <2>. SUFFICES ASSUME NEW i \in D, NEW r \in Rows
                PROVE  AddStatus(r, history[i]) \in Rows
    OBVIOUS
  <2>1. history[i] \in Status
    OBVIOUS
  <2>. QED
    BY <2>1, AddStatusRows
<1>5. step \in [D \X Rows -> Rows]
  BY <1>4, Zenon
<1>6. FoldLeft(AddStatus, NoRows, history) = it[D]
  BY DEF FoldLeft, MapThenFoldSet
<1>7. \A i \in 1..n : history[i] \in Status
  OBVIOUS
<1>. HIDE DEF D, pick, step
<1>8. PICK g : IsFold(g, D, Rows, NoRows, step, pick)
  BY <1>2, <1>3, <1>5, FoldExists, Zenon
<1>9. ASSUME NEW s \in SUBSET D, s # {}
      PROVE  g[s] = AddStatus(g[s \ {pick[s]}], history[pick[s]])
  <2>1. pick[s] \in D /\ s \ {pick[s]} \in SUBSET D
    BY <1>2, <1>9 DEF Picks
  <2>2. g[s \ {pick[s]}] \in Rows /\ g[s] = step[<<pick[s], g[s \ {pick[s]}]>>]
    BY <1>8, <1>9, <2>1 DEF IsFold
  <2>. QED
    BY <1>4, <2>1, <2>2
<1>10. Solves(g)
  <2>1. g = [s \in SUBSET D |-> g[s]] /\ g[{}] = NoRows
    BY <1>8, Zenon DEF IsFold
  <2>2. \A s \in SUBSET D : g[s] = IF s = {} THEN NoRows ELSE AddStatus(g[s \ {Max(s)}], history[Max(s)])
    BY <1>2, <1>9, <2>1, Zenon
  <2>. QED
    BY <2>1, <2>2, Zenon
<1>. HIDE DEF Solves
<1>11. Solves(it)
  BY <1>10
<1>. HIDE DEF it
<1>12. FoldTogether(it, g, D, pick)
  <2>1. it[{}] = NoRows /\ g[{}] = NoRows
    BY <1>8, <1>11, Zenon DEF Solves, IsFold
  <2>2. ASSUME NEW s \in SUBSET D, s # {}, it[s \ {pick[s]}] = g[s \ {pick[s]}]
        PROVE  it[s] = g[s]
    <3>1. it[s] = AddStatus(it[s \ {Max(s)}], history[Max(s)])
      BY <1>11, <2>2, Zenon DEF Solves
    <3>. QED
      BY <1>2, <1>9, <2>2, <3>1, Zenon
  <2>. QED
    BY <2>1, <2>2, Zenon DEF FoldTogether
<1>13. it[D] = g[D]
  BY <1>2, <1>12, FoldUnique
<1>14. PICK f : Run(f, n, Rows, NoRows, step) /\ g[1..n] = f[n]
  BY <1>1, <1>8, FoldRuns DEF pick
<1>. DEFINE Good(ds) == ds \in SUBSET Disturbance /\ IsFiniteSet(ds) /\ Disjoint(ds) /\ WellTimed(ds)
            Until(k, t) == \A i \in 1..k : history[i].Time < t
            G == {k \in Nat : k <= n =>
                     /\ Good(f[k].disturbances)
                     /\ \A t \in Nat : Until(k, t) => StartedBefore(f[k].disturbances, t)}
<1>15. 0 \in G
  <2>1. f[0].disturbances = {}
    BY <1>3, <1>14 DEF Run
  <2>2. Good({})
    BY FS_EmptySet DEF Disjoint, WellTimed
  <2>. QED
    BY <2>1, <2>2, Zenon DEF StartedBefore
<1>16. ASSUME NEW k \in Nat, k \in G
       PROVE  k + 1 \in G
  <2>. SUFFICES ASSUME k + 1 <= n
                PROVE  /\ Good(f[k + 1].disturbances)
                       /\ \A t \in Nat : Until(k + 1, t) => StartedBefore(f[k + 1].disturbances, t)
    OBVIOUS
  <2>. DEFINE s == history[k + 1]
              ds == f[k].disturbances
              after == f[k + 1].disturbances
  <2>1. k + 1 \in 1..n /\ k \in 0..n /\ k + 1 \in 0..n /\ (k + 1) - 1 = k
    OBVIOUS
  <2>2. f[k] \in Rows /\ f[k + 1] \in Rows /\ f[k + 1] = AddStatus(f[k], s)
    BY <1>1, <1>4, <1>14, <2>1, Zenon DEF Run
  <2>3. s \in Status /\ s.Time \in Nat
    BY <1>7, <2>1 DEF Status
  <2>4. Good(ds) /\ StartedBefore(ds, s.Time)
    <3>1. Until(k, s.Time)
      <4>1. \A i \in 1..k : i \in D /\ k + 1 \in D /\ i < k + 1
        BY <1>1, <2>1
      <4>. QED
        BY <4>1 DEF D
    <3>. HIDE DEF Until
    <3>. QED
      BY <1>16, <2>1, <2>3, <3>1
  <2>5. after = ds \/ after = DisturbancesAfter(ds, s)
    BY <2>2 DEF AddStatus
  <2>6. Good(after) /\ StartedBefore(after, s.Time + 1)
    <3>1. CASE after = DisturbancesAfter(ds, s)
      BY <2>2, <2>3, <2>4, <3>1, HistoryStep DEF Rows
    <3>2. CASE after = ds
      <4>1. \A d \in ds : d.UStartTime \in Nat /\ d.UEndTime \in Nat /\ d.OStartTime \in Nat
        BY <2>4 DEF Disturbance
      <4>2. StartedBefore(ds, s.Time + 1)
        BY <2>3, <2>4, <4>1 DEF StartedBefore
      <4>. QED
        BY <2>4, <3>2, <4>2
    <3>. QED
      BY <2>5, <3>1, <3>2
  <2>. HIDE DEF after
  <2>7. ASSUME NEW t \in Nat, Until(k + 1, t)
        PROVE  StartedBefore(after, t)
    <3>1. s.Time < t
      <4>1. k + 1 \in 1..(k + 1)
        OBVIOUS
      <4>. QED
        BY <2>7, <4>1
    <3>2. \A d \in after : d.UStartTime \in Nat /\ d.UEndTime \in Nat /\ d.OStartTime \in Nat
      BY <2>6 DEF Disturbance
    <3>3. \A d \in after : d.UStartTime < s.Time + 1 /\ d.UEndTime < s.Time + 1 /\ d.OStartTime < s.Time + 1
      BY <2>6 DEF StartedBefore
    <3>4. s.Time \in Nat
      BY <2>3
    <3>. HIDE DEF s, Until
    <3>. QED
      BY <3>1, <3>2, <3>3, <3>4 DEF StartedBefore
  <2>. HIDE DEF Until
  <2>. QED
    BY <2>6, <2>7 DEF after
<1>. HIDE DEF G
<1>17. n \in G
  <2>1. Nat \subseteq G
    BY <1>15, <1>16, NumberInduction
  <2>. QED
    BY <2>1
<1>18. /\ Good(f[n].disturbances)
       /\ \A t \in Nat : Until(n, t) => StartedBefore(f[n].disturbances, t)
  BY <1>17 DEF G
<1>19. FoldLeft(AddStatus, NoRows, history) = f[n]
  BY <1>1, <1>6, <1>13, <1>14
<1>. QED
  BY <1>18, <1>19

\* Schedules of a day of which each closes before any other of them would open.
LEMMA SchedulesInTurn ==
    ASSUME NEW line, line.schedules \subseteq Schedule,
           \A d \in 0..6 : OfDay(line.schedules, FALSE, d) # {},
           \A s, t \in line.schedules : s.OpenTime + s.OpenDuration <= DayLength + t.OpenTime
    PROVE  OpensInTurn(line)
<1>. SUFFICES ASSUME NEW day \in Int
              PROVE  /\ getScheduleForDay(day, line.schedules, line.holidays) \in Schedule
                     /\ OpenSpan(day, line).to <= OpenSpan(day + 1, line).from
  BY DEF OpensInTurn
<1>. DEFINE K(d) == getScheduleForDay(d, line.schedules, line.holidays)
<1>1. ASSUME NEW d \in Int
      PROVE  K(d) \in line.schedules
  <2>. DEFINE special == OfDay(line.schedules, TRUE, YearDay(d))
              festive == IF IsHoliday(line.holidays, YearDay(d)) THEN OfDay(line.schedules, TRUE, 0) ELSE {}
              weekly == OfDay(line.schedules, FALSE, Weekday(d))
              from == IF special # {} THEN special ELSE IF festive # {} THEN festive ELSE weekly
  <2>1. K(d) = CHOOSE s \in from : TRUE
    BY DEF getScheduleForDay
  <2>2. Weekday(d) \in 0..6
    BY DEF Weekday
  <2>3. weekly # {}
    BY <2>2, Zenon
  <2>4. special \subseteq line.schedules /\ festive \subseteq line.schedules /\ weekly \subseteq line.schedules
    BY DEF OfDay
  <2>. HIDE DEF special, festive, weekly
  <2>5. from # {} /\ from \subseteq line.schedules
    BY <2>3, <2>4
  <2>. QED
    BY <2>1, <2>5
<1>2. K(day) \in line.schedules /\ K(day + 1) \in line.schedules
  BY <1>1
<1>3. /\ OpenSpan(day, line).to = day * DayLength + K(day).OpenTime + K(day).OpenDuration
      /\ OpenSpan(day + 1, line).from = (day + 1) * DayLength + K(day + 1).OpenTime
  BY DEF OpenSpan
<1>. HIDE DEF K
<1>4. /\ K(day).OpenTime \in Nat /\ K(day).OpenDuration \in Nat /\ K(day + 1).OpenTime \in Nat
  BY <1>2, DayLengthAssumption DEF Schedule
<1>5. K(day).OpenTime + K(day).OpenDuration <= DayLength + K(day + 1).OpenTime
  BY <1>2
<1>6. day * DayLength \in Int /\ (day + 1) * DayLength = day * DayLength + DayLength
  BY HoursOfDays
<1>7. OpenSpan(day, line).to <= OpenSpan(day + 1, line).from
  BY <1>3, <1>4, <1>5, <1>6, DayLengthAssumption
<1>. QED
  BY <1>2, <1>7 DEF K

-----------------------------------------------------------------------------
(***************************************************************************)
(* The statistics of a line to which statuses are added (LineStatus).      *)
(***************************************************************************)
\* The rows stay finite.
FiniteRows == rows \in Rows

LEMMA RowsStayFinite == Spec => []FiniteRows
<1>1. Init => FiniteRows
  BY FS_EmptySet DEF Init, NoRows, Rows, LineRows, FiniteRows
<1>2. ASSUME IInv, rows \in Rows, [Next]_vars
      PROVE  rows' \in Rows
  <2>1. CASE UNCHANGED vars
    BY <1>2, <2>1 DEF vars
  <2>2. CASE Next
    <3>1. ASSUME NEW e \in Evaluations, AddsFirst(e)
          PROVE  rows' \in Rows
      BY <1>2, <3>1, AddStatusRows, FirstIsStatus DEF AddsFirst
    <3>2. now \in Nat
      BY <1>2 DEF IInv, TypeOK
    <3>. QED
      BY <1>2, <2>2, <3>1, <3>2, AddStatusRows, StepKinds DEF AddsNone, AddsStamped
  <2>. QED
    BY <1>2, <2>1, <2>2
<1>3. IInv /\ FiniteRows /\ [Next]_vars => FiniteRows'
  BY <1>2 DEF FiniteRows
<1>. QED
  BY <1>1, <1>3, Invariance, PTL DEF Spec

\* The statistics of the rows, if no first status was overtaken: of any schedule
\* that opens in turn and of any period, hours in which the line was down are
\* counted once.
CountsOnce ==
    late = {} => \A line : line.disturbances = rows.disturbances /\ OpensInTurn(line) =>
        \A official \in BOOLEAN, firstDay \in Int, days \in Nat :
            DowntimeCountedOnceIn(line, firstDay, days, official, now)

\* Whatever statuses a line gets, from whatever sources and in whatever order, and
\* at any time, but for a first status that another overtakes: on any schedule that does not open before it has closed, the hours
\* of any period in which it was down are counted once.
THEOREM DowntimeOfAnyHistory == Spec => []CountsOnce
<1>1. ASSUME IInv, FiniteRows
      PROVE  CountsOnce
  <2>. SUFFICES ASSUME late = {},
                       NEW line, line.disturbances = rows.disturbances, OpensInTurn(line),
                       NEW official \in BOOLEAN, NEW firstDay \in Int, NEW days \in Nat
                PROVE  DowntimeCountedOnceIn(line, firstDay, days, official, now)
    BY DEF CountsOnce
  <2>1. /\ rows.disturbances \in SUBSET Disturbance /\ IsFiniteSet(rows.disturbances)
        /\ Disjoint(rows.disturbances) /\ WellTimed(rows.disturbances) /\ now \in Nat
    <3>1. {d \in rows.disturbances : d.UStartTime \notin late} = rows.disturbances
      OBVIOUS
    <3>. QED
      BY <1>1, <3>1, IInvIsRowsInv DEF RowsInv, DisjointBut, Rows, LineRows, FiniteRows
  <2>2. FollowOneAnother(line.disturbances, official, now)
    BY <2>1, RowsFollow
  <2>. QED
    BY <2>2, DowntimeForAnyRows
<1>. QED
  BY <1>1, Invariance, RowsStayFinite, PTL

-----------------------------------------------------------------------------
(***************************************************************************)
(* The last disturbance, which several queries tell.                       *)
(***************************************************************************)
\* What is read of a disturbance.
LEMMA ReadOf ==
    ASSUME NEW ds \in SUBSET Disturbance, WellTimed(ds), NEW d \in ds, NEW official \in BOOLEAN,
           official => d.Official
    PROVE  /\ Ended(d, official) = d.UEnded /\ d.UEnded \in BOOLEAN
           /\ Start(d, official) \in Nat /\ End(d, official) \in Nat
           /\ d.UEnded => End(d, official) = d.UEndTime
           /\ d.UEndTime \in Nat
<1>1. /\ d.Official \in BOOLEAN /\ d.OEnded \in BOOLEAN /\ d.UEnded \in BOOLEAN
      /\ d.OStartTime \in Nat /\ d.OEndTime \in Nat /\ d.UStartTime \in Nat /\ d.UEndTime \in Nat
  BY DEF Disturbance
<1>2. /\ d.OEnded <=> (d.Official /\ d.UEnded)
      /\ d.OEnded => d.OEndTime = d.UEndTime
  BY DEF WellTimed
<1>3. CASE official
  BY <1>1, <1>2, <1>3 DEF Start, Ended, End
<1>4. CASE ~official
  BY <1>1, <1>4 DEF Start, Ended, End
<1>. QED
  BY <1>3, <1>4

\* There are no more images than what they are of.
LEMMA FiniteImages ==
    ASSUME NEW S, IsFiniteSet(S), NEW f, f = [x \in S |-> f[x]]
    PROVE  IsFiniteSet({f[x] : x \in S})
<1>. DEFINE Q == {f[x] : x \in S}
<1>1. f \in Surjection(S, Q)
  BY DEF Surjection
<1>. QED
  BY <1>1, FS_Surjection

\* Of finitely many, one has the greatest key.
LEMMA GreatestOf ==
    ASSUME NEW S, IsFiniteSet(S), S # {}, NEW key \in [S -> Int]
    PROVE  \E d \in S : \A e \in S : key[e] <= key[d]
<1>1. IsFiniteSet({key[e] : e \in S})
  <2>1. key = [e \in S |-> key[e]]
    OBVIOUS
  <2>. QED
    BY <2>1, FiniteImages
<1>2. {key[e] : e \in S} \subseteq Int /\ {key[e] : e \in S} # {}
  OBVIOUS
<1>3. PICK m \in {key[e] : e \in S} : \A y \in {key[e] : e \in S} : m >= y
  BY <1>1, <1>2, HasMaximum
<1>4. PICK d \in S : m = key[d]
  OBVIOUS
<1>5. ASSUME NEW e \in S
      PROVE  key[e] <= key[d]
  BY <1>3, <1>4
<1>. QED
  BY <1>5

\* No row is the one that stands for none.
LEMMA RowsAreSome == \A d \in Disturbance : d # NoDisturbance
<1>1. ASSUME NEW d \in Disturbance
      PROVE  "UEnded" \in DOMAIN d
  BY DEF Disturbance
<1>2. "UEnded" \notin DOMAIN NoDisturbance
  BY DEF NoDisturbance
<1>. QED
  BY <1>1, <1>2

\* The last disturbance is one that is chosen, and one that has not ended if there is any.
LEMMA LastOf ==
    ASSUME NEW ds \in SUBSET Disturbance, IsFiniteSet(ds), WellTimed(ds), NEW official \in BOOLEAN
    PROVE  LET c == Chosen(ds, official)
               d == LastDisturbance(ds, official)
               o == LastOngoingDisturbance(ds, official)
           IN  /\ IF c = {} THEN d = NoDisturbance ELSE d \in c
               /\ o # NoDisturbance <=> \E e \in c : ~e.UEnded
               /\ o # NoDisturbance => d = o /\ ~d.UEnded
<1>. DEFINE c == Chosen(ds, official)
            d == LastDisturbance(ds, official)
            o == LastOngoingDisturbance(ds, official)
            open == {e \in c : ~Ended(e, official)}
            past == {e \in c : Ended(e, official)}
            end == [e \in past |-> End(e, official)]
            start == [e \in open |-> Start(e, official)]
<1>1. \A e \in c : e \in ds /\ (official => e.Official) /\ e # NoDisturbance
  BY RowsAreSome DEF Chosen
<1>2. \A e \in c : /\ Ended(e, official) = e.UEnded /\ e.UEnded \in BOOLEAN
                   /\ Start(e, official) \in Nat /\ End(e, official) \in Nat
  BY <1>1, ReadOf
<1>3. IsFiniteSet(open) /\ IsFiniteSet(past)
  <2>1. open \subseteq ds /\ past \subseteq ds
    BY <1>1
  <2>. QED
    BY <2>1, FS_Subset
<1>4. o = IF open = {} THEN NoDisturbance ELSE CHOOSE e \in open : \A f \in open : Start(f, official) <= Start(e, official)
  BY DEF LastOngoingDisturbance, Greatest
<1>5. d = IF o # NoDisturbance THEN o
          ELSE IF past = {} THEN NoDisturbance ELSE CHOOSE e \in past : \A f \in past : End(f, official) <= End(e, official)
  BY DEF LastDisturbance, Greatest
<1>6. open # {} => \E e \in open : \A f \in open : Start(f, official) <= Start(e, official)
  <2>. SUFFICES ASSUME open # {}
                PROVE  \E e \in open : \A f \in open : Start(f, official) <= Start(e, official)
    OBVIOUS
  <2>1. start \in [open -> Int]
    BY <1>2
  <2>2. PICK e \in open : \A f \in open : start[f] <= start[e]
    <3>. HIDE DEF start, open
    <3>. QED
      BY <1>3, <2>1, GreatestOf
  <2>. QED
    BY <2>2
<1>7. past # {} => \E e \in past : \A f \in past : End(f, official) <= End(e, official)
  <2>. SUFFICES ASSUME past # {}
                PROVE  \E e \in past : \A f \in past : End(f, official) <= End(e, official)
    OBVIOUS
  <2>1. end \in [past -> Int]
    BY <1>2
  <2>2. PICK e \in past : \A f \in past : end[f] <= end[e]
    <3>. HIDE DEF end, past
    <3>. QED
      BY <1>3, <2>1, GreatestOf
  <2>. QED
    BY <2>2
<1>8. open # {} => o \in open
  BY <1>4, <1>6
<1>9. past # {} /\ o = NoDisturbance => d \in past
  BY <1>5, <1>7
<1>10. c = open \cup past
  OBVIOUS
<1>11. open # {} <=> \E e \in c : ~e.UEnded
  BY <1>2
<1>12. \A e \in open : e # NoDisturbance /\ ~e.UEnded
  BY <1>1, <1>2
<1>13. o # NoDisturbance <=> open # {}
  BY <1>4, <1>8, <1>12
<1>14. o # NoDisturbance => d = o
  BY <1>5
<1>15. c = {} => d = NoDisturbance
  BY <1>4, <1>5
<1>. HIDE DEF open, past, c, d, o
<1>16. c # {} => d \in c
  BY <1>8, <1>9, <1>10, <1>13, <1>14
<1>. QED
  BY <1>8, <1>11, <1>12, <1>13, <1>14, <1>15, <1>16 DEF c, d, o

\* Disturbances of lines, none of which ended in the future.
EndedByNow(lines, clock) ==
    /\ IsFiniteSet(lines)
    /\ \A l \in lines : /\ l.disturbances \in SUBSET Disturbance
                        /\ IsFiniteSet(l.disturbances) /\ WellTimed(l.disturbances)
                        /\ \A d \in l.disturbances : d.UEndTime <= clock

\* The last of the network is one of a line, and it has ended only if those of all lines have.
LEMMA LastOfNetwork ==
    ASSUME NEW lines, NEW clock \in Nat, EndedByNow(lines, clock), NEW official \in BOOLEAN
    PROVE  LET d == NetworkLastDisturbance(lines, official)
               lasts == {LastDisturbance(l.disturbances, official) : l \in lines} \ {NoDisturbance}
           IN  /\ lasts = {} => d = NoDisturbance
               /\ lasts # {} => d \in lasts /\ \A e \in lasts : ~e.UEnded => ~d.UEnded
               /\ \A e \in lasts : \E l \in lines : e \in Chosen(l.disturbances, official)
<1>. DEFINE d == NetworkLastDisturbance(lines, official)
            last(l) == LastDisturbance(l.disturbances, official)
            lasts == {last(l) : l \in lines} \ {NoDisturbance}
            open == {e \in lasts : ~e.UEnded}
            end == [e \in lasts |-> End(e, official)]
            start == [e \in open |-> Start(e, official)]
<1>1. \A e \in lasts : \E l \in lines : e \in Chosen(l.disturbances, official)
  <2>. SUFFICES ASSUME NEW l \in lines, last(l) # NoDisturbance
                PROVE  last(l) \in Chosen(l.disturbances, official)
    OBVIOUS
  <2>1. l.disturbances \in SUBSET Disturbance /\ IsFiniteSet(l.disturbances) /\ WellTimed(l.disturbances)
    BY DEF EndedByNow
  <2>. QED
    BY <2>1, LastOf
<1>2. ASSUME NEW e \in lasts
      PROVE  /\ Ended(e, official) = e.UEnded /\ e.UEnded \in BOOLEAN
             /\ Start(e, official) \in Nat /\ End(e, official) \in Nat
  <2>1. PICK l \in lines : e \in Chosen(l.disturbances, official)
    BY <1>1, <1>2
  <2>2. e \in l.disturbances /\ (official => e.Official)
    BY <2>1 DEF Chosen
  <2>3. l.disturbances \in SUBSET Disturbance /\ WellTimed(l.disturbances)
    BY DEF EndedByNow
  <2>. QED
    BY <2>2, <2>3, ReadOf
<1>3. IsFiniteSet(lasts) /\ IsFiniteSet(open)
  <2>1. IsFiniteSet(lines)
    BY DEF EndedByNow
  <2>2. IsFiniteSet({last(l) : l \in lines})
    <3>. DEFINE f == [l \in lines |-> last(l)]
    <3>1. f = [l \in lines |-> f[l]] /\ {last(l) : l \in lines} = {f[l] : l \in lines}
      OBVIOUS
    <3>. HIDE DEF f, last
    <3>2. IsFiniteSet({f[l] : l \in lines})
      BY <2>1, <3>1, FiniteImages, Zenon
    <3>. QED
      BY <3>1, <3>2, Zenon
  <2>3. lasts \subseteq {last(l) : l \in lines} /\ open \subseteq {last(l) : l \in lines}
    OBVIOUS
  <2>. QED
    BY <2>2, <2>3, FS_Subset, Zenon
<1>4. d = IF lasts = {} THEN NoDisturbance
          ELSE CHOOSE x \in lasts : \A e \in lasts : NotAfter(e, x, official)
  BY DEF NetworkLastDisturbance
<1>. HIDE DEF lasts, d
<1>5. lasts # {} => \E x \in lasts : \A e \in lasts : NotAfter(e, x, official)
  <2>1. CASE open # {}
    <3>1. start \in [open -> Int]
      BY <1>2
    <3>2. PICK x \in open : \A e \in open : start[e] <= start[x]
      <4>. HIDE DEF start, open
      <4>. QED
        BY <1>3, <2>1, <3>1, GreatestOf
    <3>3. \A e \in lasts : NotAfter(e, x, official)
      BY <1>2, <3>2 DEF NotAfter
    <3>. QED
      BY <3>2, <3>3
  <2>2. CASE open = {} /\ lasts # {}
    <3>1. end \in [lasts -> Int]
      BY <1>2
    <3>2. PICK x \in lasts : \A e \in lasts : end[e] <= end[x]
      <4>. HIDE DEF end
      <4>. QED
        BY <1>3, <2>2, <3>1, GreatestOf
    <3>3. \A e \in lasts : e.UEnded
      BY <2>2
    <3>4. \A e \in lasts : NotAfter(e, x, official)
      BY <1>2, <3>2, <3>3 DEF NotAfter
    <3>. QED
      BY <3>2, <3>4
  <2>. QED
    BY <2>1, <2>2
<1>6. lasts # {} => d \in lasts /\ \A e \in lasts : NotAfter(e, d, official)
  BY <1>4, <1>5
<1>7. lasts # {} => \A e \in lasts : ~e.UEnded => ~d.UEnded
  BY <1>2, <1>6 DEF NotAfter
<1>. QED
  BY <1>1, <1>4, <1>6, <1>7 DEF lasts, d

\* A day without disturbances had none.
LEMMA NoneOfDay ==
    ASSUME NEW ds \in SUBSET Disturbance, IsFiniteSet(ds), WellTimed(ds), NEW official \in BOOLEAN,
           NEW clock \in Nat, NEW from \in Int, NEW to \in Int, NEW day \in DayOf(from)..DayOf(to)
    PROVE  CountDisturbancesByDay(ds, from, to, official, clock)[day] = 0 <=>
               \A d \in Chosen(ds, official) :
                   DayOf(Start(d, official)) > day \/ DayOf(EndOrNow(d, official, clock)) < day
<1>. DEFINE touching == {d \in Chosen(ds, official) :
                            DayOf(Start(d, official)) <= day /\ day <= DayOf(EndOrNow(d, official, clock))}
<1>1. CountDisturbancesByDay(ds, from, to, official, clock)[day] = Cardinality(touching)
  BY DEF CountDisturbancesByDay, Touching
<1>2. IsFiniteSet(touching)
  <2>1. touching \subseteq ds
    BY DEF Chosen
  <2>. QED
    BY <2>1, FS_Subset
<1>3. \A t \in Int : DayOf(t) \in Int
  BY DayLengthAssumption DEF DayOf
<1>4. ASSUME NEW d \in Chosen(ds, official)
      PROVE  DayOf(Start(d, official)) \in Int /\ DayOf(EndOrNow(d, official, clock)) \in Int
  <2>1. d \in ds /\ (official => d.Official)
    BY DEF Chosen
  <2>2. Start(d, official) \in Nat /\ End(d, official) \in Nat
    BY <2>1, ReadOf
  <2>. QED
    BY <1>3, <2>2 DEF EndOrNow
<1>5. DayOf(from) \in Int /\ DayOf(to) \in Int
  BY <1>3
<1>6. day \in Int
  BY <1>5
<1>7. touching = {} <=>
        \A d \in Chosen(ds, official) :
            DayOf(Start(d, official)) > day \/ DayOf(EndOrNow(d, official, clock)) < day
  BY <1>4, <1>6
<1>. HIDE DEF touching
<1>8. Cardinality(touching) = 0 <=> touching = {}
  BY <1>2, FS_EmptySet
<1>. QED
  BY <1>1, <1>7, <1>8

\* Whatever finitely many disturbances finitely many lines had, if they are well
\* timed and none ended in the future: the home page, the API and the bot agree
\* on the last of them (types/line.go LastDisturbance, CountDisturbancesByDay,
\* types/network.go LastDisturbance, resource/stats.go).
THEOREM LastDisturbancesOfAnyLines ==
    ASSUME NEW lines, NEW clock \in Nat, EndedByNow(lines, clock), NEW official \in BOOLEAN, NEW days \in Nat
    PROVE  LastDisturbancesAgreeIn(lines, days, official, clock)
<1>. DEFINE from == clock - (days - 1) * DayLength
            page == HomePage(lines, days, official, clock)
            stats == getStatsForNetwork(lines, clock - (days - 1) * DayLength, clock, official, clock)
            ours == HomePage(lines, days, FALSE, clock)
            lasts(o) == {LastDisturbance(l.disturbances, o) : l \in lines} \ {NoDisturbance}
<1>1. /\ page.Last = LastDisturbanceTime(lines, official, clock)
      /\ page.Down = [l \in lines |-> LastOngoingDisturbance(l.disturbances, FALSE) # NoDisturbance]
      /\ page.DayCounts = [l \in lines |-> CountDisturbancesByDay(l.disturbances, from, clock, official, clock)]
      /\ stats.LastDisturbance = getLastDisturbanceTimeForNetwork(lines, official, clock)
      /\ ours.Last = LastDisturbanceTime(lines, FALSE, clock)
      /\ ours.LastDisturbance = [l \in lines |-> LastDisturbance(l.disturbances, FALSE)]
  BY DEF HomePage, getStatsForNetwork
<1>2. from \in Int
  BY DayLengthAssumption
<1>3. ASSUME NEW l \in lines
      PROVE  /\ l.disturbances \in SUBSET Disturbance /\ IsFiniteSet(l.disturbances)
             /\ WellTimed(l.disturbances) /\ \A d \in l.disturbances : d.UEndTime <= clock
  BY DEF EndedByNow
<1>. HIDE DEF page, stats, ours
<1>4. page.Last = stats.LastDisturbance /\ page.Last \in Nat
  <2>. DEFINE d == NetworkLastDisturbance(lines, official)
  <2>1. /\ page.Last = IF d = NoDisturbance \/ ~d.UEnded THEN clock ELSE d.UEndTime
        /\ stats.LastDisturbance = IF d = NoDisturbance \/ ~Ended(d, official) THEN clock ELSE End(d, official)
    BY <1>1 DEF LastDisturbanceTime, getLastDisturbanceTimeForNetwork
  <2>. HIDE DEF d
  <2>2. CASE d = NoDisturbance
    BY <2>1, <2>2
  <2>3. CASE d # NoDisturbance
    <3>1. PICK l \in lines : d \in Chosen(l.disturbances, official)
      BY <2>3, LastOfNetwork DEF d
    <3>2. d \in l.disturbances /\ (official => d.Official)
      BY <3>1 DEF Chosen
    <3>3. /\ Ended(d, official) = d.UEnded /\ d.UEndTime \in Nat
          /\ d.UEnded => End(d, official) = d.UEndTime
      BY <1>3, <3>2, ReadOf
    <3>. QED
      BY <2>1, <2>3, <3>3
  <2>. QED
    BY <2>2, <2>3
<1>5. ASSUME NEW l \in lines, page.Down[l]
      PROVE  ours.Last = clock /\ ~ours.LastDisturbance[l].UEnded
  <2>. DEFINE e == LastDisturbance(l.disturbances, FALSE)
              d == NetworkLastDisturbance(lines, FALSE)
  <2>1. LastOngoingDisturbance(l.disturbances, FALSE) # NoDisturbance
    BY <1>1, <1>5
  <2>2. e = LastOngoingDisturbance(l.disturbances, FALSE) /\ ~e.UEnded
    BY <1>3, <2>1, LastOf
  <2>3. e \in lasts(FALSE)
    BY <2>1, <2>2
  <2>4. ~d.UEnded
    BY <2>2, <2>3, LastOfNetwork
  <2>5. ours.Last = IF d = NoDisturbance \/ ~d.UEnded THEN clock ELSE d.UEndTime
    BY <1>1 DEF LastDisturbanceTime
  <2>. QED
    BY <1>1, <2>2, <2>4, <2>5
<1>6. ASSUME NEW l \in lines, NEW day \in DOMAIN page.DayCounts[l]
      PROVE  page.DayCounts[l][day] = 0 <=>
                 \A d \in Chosen(l.disturbances, official) :
                     DayOf(Start(d, official)) > day \/ DayOf(EndOrNow(d, official, clock)) < day
  <2>1. page.DayCounts[l] = CountDisturbancesByDay(l.disturbances, from, clock, official, clock)
    BY <1>1
  <2>2. day \in DayOf(from)..DayOf(clock)
    BY <2>1 DEF CountDisturbancesByDay
  <2>. HIDE DEF from
  <2>. QED
    BY <1>2, <1>3, <2>1, <2>2, NoneOfDay
<1>. QED
  <2>1. LastDisturbancesAgreeIn(lines, days, official, clock) =
          (/\ page.Last >= stats.LastDisturbance
           /\ ~official => page.Last = stats.LastDisturbance
           /\ (\E l \in lines : page.Down[l]) => ours.Last = clock
           /\ \A l \in lines : page.Down[l] => ~ours.LastDisturbance[l].UEnded
           /\ \A l \in lines : \A day \in DOMAIN page.DayCounts[l] :
                 page.DayCounts[l][day] = 0 <=>
                     \A d \in Chosen(l.disturbances, official) :
                         DayOf(Start(d, official)) > day \/ DayOf(EndOrNow(d, official, clock)) < day)
    BY Zenon DEF LastDisturbancesAgreeIn, page, stats, ours
  <2>2. page.Last >= stats.LastDisturbance /\ (~official => page.Last = stats.LastDisturbance)
    BY <1>4
  <2>3. (\E l \in lines : page.Down[l]) => ours.Last = clock
    BY <1>5
  <2>4. \A l \in lines : page.Down[l] => ~ours.LastDisturbance[l].UEnded
    BY <1>5
  <2>. QED
    BY <1>6, <2>1, <2>2, <2>3, <2>4, Zenon

\* The pages agree on the line, whatever the line's schedules.
LastIsAgreed ==
    \A line : line.disturbances = rows.disturbances =>
        \A official \in BOOLEAN, days \in Nat : LastDisturbancesAgreeIn({line}, days, official, now)

\* Whatever statuses a line gets, in whatever order: the pages agree on its last
\* disturbance at any time.
THEOREM LastDisturbanceOfAnyHistory == Spec => []LastIsAgreed
<1>1. ASSUME IInv, FiniteRows
      PROVE  LastIsAgreed
  <2>. SUFFICES ASSUME NEW line, line.disturbances = rows.disturbances, NEW official \in BOOLEAN, NEW days \in Nat
                PROVE  LastDisturbancesAgreeIn({line}, days, official, now)
    BY DEF LastIsAgreed
  <2>1. /\ rows.disturbances \in SUBSET Disturbance /\ IsFiniteSet(rows.disturbances)
        /\ WellTimed(rows.disturbances) /\ now \in Nat
    BY <1>1, IInvIsRowsInv DEF RowsInv, Rows, LineRows, FiniteRows
  <2>2. \A d \in rows.disturbances : d.UEndTime <= now
    BY <1>1 DEF IInv, TypeOK
  <2>3. EndedByNow({line}, now)
    BY <2>1, <2>2, FS_Singleton DEF EndedByNow
  <2>. QED
    BY <2>1, <2>3, LastDisturbancesOfAnyLines
<1>. QED
  BY <1>1, Invariance, RowsStayFinite, PTL
=============================================================================

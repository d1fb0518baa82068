--------------------------- MODULE RecordsProofs ----------------------------
(***************************************************************************)
(* The functions of rows, of requests and of trips (MCRecords), for any    *)
(* rows, requests and trips: the waits of a phone that asks for a key, the *)
(* achievements for travelling, the connections past closed stations, and  *)
(* the pages; then, for what the runs ask. (Those of the statistics of a line are     *)
(* with those of its statuses, LineStatusProofs, as are the inductions     *)
(* over finite sets that say what a fold computes.)                        *)
(***************************************************************************)
EXTENDS MCRecords, LineStatusProofs, FiniteSetTheorems, WellFoundedInduction, TLAPS

-----------------------------------------------------------------------------
\* The library's counts are the same in every module that uses it.
LEMMA SameCardinality == \A S : Cardinality(S) = Cardinality(S)
BY DEF Cardinality, Cardinality

\* and so are its totals.
LEMMA SameTotal == \A w : Total(w) = Total(w)
BY DEF Total, MapThenSumSet, MapThenFoldSet, Total, MapThenSumSet, MapThenFoldSet

(***************************************************************************)
(* Keys of phones. Requests are any rows whose times are numbers.          *)
(***************************************************************************)
LEMMA PenaltyFacts ==
    ASSUME NEW r, r.RequestTime \in Nat, NEW p, p.RequestTime \in Nat
    PROVE  Penalty(r, p) \in Nat
<1>. DEFINE a == r.RequestTime - p.RequestTime
            b == p.RequestTime - r.RequestTime
<1>1. a \in Int /\ b \in Int
  OBVIOUS
<1>. HIDE DEF a, b
<1>2. \E m \in {a, b} : \A y \in {a, b} : m >= y
  BY <1>1
<1>3. Max({a, b}) \in {a, b}
  BY <1>2 DEF Max
<1>4. Diff(r, p) \in Int
  BY <1>1, <1>3 DEF Diff, a, b
<1>5. ASSUME NEW d \in Int
      PROVE  DevicePenalty(d) \in Nat /\ AddressPenalty(d) \in Nat
  BY DEF DevicePenalty, AddressPenalty, Hour
<1>. QED
  BY <1>4, <1>5 DEF Penalty

\* The wait is what it is, or a day.
LEMMA CappedWait ==
    ASSUME NEW w \in Nat
    PROVE  Min({w, MaxWait}) = IF w <= MaxWait THEN w ELSE MaxWait
<1>1. PICK m \in {w, MaxWait} : \A y \in {w, MaxWait} : m =< y
  BY DEF MaxWait, Day, Hour
<1>2. Min({w, MaxWait}) \in {w, MaxWait} /\ \A y \in {w, MaxWait} : Min({w, MaxWait}) =< y
  BY <1>1 DEF Min
<1>. QED
  BY <1>2 DEF MaxWait, Day, Hour

Alikes(known, r) == {p \in known : Alike(r, p)}

WaitFor(known, r) == Total([p \in Alikes(known, r) |-> Penalty(r, p)])

\* The wait for a request is a number, of minutes, and grows with the rows.
LEMMA WaitFacts ==
    ASSUME NEW known, IsFiniteSet(known), \A p \in known : p.RequestTime \in Nat,
           NEW r, r.RequestTime \in Nat
    PROVE  /\ WaitFor(known, r) \in Nat
           /\ Alikes(known, r) = {} => WaitFor(known, r) = 0
           /\ \A fewer \in SUBSET known : WaitFor(fewer, r) \in Nat /\ WaitFor(fewer, r) <= WaitFor(known, r)
<1>. DEFINE S == Alikes(known, r)
            w == [p \in S |-> Penalty(r, p)]
<1>1. IsFiniteSet(S)
  BY FS_Subset DEF Alikes
<1>2. w \in [S -> Nat]
  BY PenaltyFacts DEF Alikes
<1>3. \A Q \in SUBSET S : [p \in Q |-> w[p]] = [p \in Q |-> Penalty(r, p)]
  OBVIOUS
<1>. HIDE DEF w, S
<1>4. PICK g : TotalsOf(g, w, S)
  BY <1>1, <1>2, Totals
<1>. USE DEF TotalsOf
<1>5. ASSUME NEW fewer \in SUBSET known
      PROVE  Alikes(fewer, r) \in SUBSET S /\ WaitFor(fewer, r) = g[Alikes(fewer, r)]
  <2>1. Alikes(fewer, r) \in SUBSET S
    BY DEF Alikes, S
  <2>2. Total([p \in Alikes(fewer, r) |-> w[p]]) = g[Alikes(fewer, r)]
    BY <1>4, <2>1
  <2>3. [p \in Alikes(fewer, r) |-> w[p]] = [p \in Alikes(fewer, r) |-> Penalty(r, p)]
    BY <1>3, <2>1
  <2>. QED
    BY <2>1, <2>2, <2>3, SameTotal, Zenon DEF WaitFor
<1>6. ASSUME NEW Q \in SUBSET S
      PROVE  g[Q] <= g[S]
  <2>. DEFINE F == {U \in SUBSET (S \ Q) : g[Q] <= g[Q \cup U]}
  <2>1. {} \in F
    <3>1. Q \cup {} = Q /\ g[Q] \in Nat
      BY <1>4
    <3>. QED
      BY <3>1
  <2>2. ASSUME NEW U \in SUBSET (S \ Q), NEW x \in (S \ Q) \ U, U \in F
        PROVE  U \cup {x} \in F
    <3>1. Q \cup U \in SUBSET S /\ x \in S \ (Q \cup U) /\ Q \cup (U \cup {x}) = (Q \cup U) \cup {x}
      OBVIOUS
    <3>2. g[(Q \cup U) \cup {x}] = w[x] + g[Q \cup U]
      BY <1>4, <3>1, Zenon
    <3>3. w[x] \in Nat /\ g[Q \cup U] \in Nat /\ g[Q] \in Nat
      BY <1>2, <1>4, <3>1
    <3>4. g[Q] <= g[(Q \cup U) \cup {x}]
      BY <2>2, <3>2, <3>3
    <3>5. U \cup {x} \in SUBSET (S \ Q)
      OBVIOUS
    <3>. QED
      BY <3>1, <3>4, <3>5, Zenon
  <2>3. IsFiniteSet(S \ Q)
    BY <1>1, FS_Subset
  <2>. HIDE DEF F
  <2>4. S \ Q \in F
    BY <2>1, <2>2, <2>3, SubsetInduction, Zenon
  <2>5. Q \cup (S \ Q) = S
    OBVIOUS
  <2>. QED
    BY <2>4, <2>5, Zenon DEF F
<1>7. WaitFor(known, r) = g[S]
  BY <1>5 DEF S
<1>8. Alikes(known, r) = {} => WaitFor(known, r) = 0
  BY <1>4, <1>7 DEF S
<1>9. WaitFor(known, r) \in Nat
  BY <1>4, <1>7
<1>10. ASSUME NEW fewer \in SUBSET known
       PROVE  WaitFor(fewer, r) \in Nat /\ WaitFor(fewer, r) <= WaitFor(known, r)
  BY <1>4, <1>5, <1>6, <1>7
<1>. QED
  BY <1>8, <1>9, <1>10

Repeats(known, r) == \E p \in Alikes(known, r) : p.Nonce = r.Nonce /\ Diff(r, p) < maxTimestampSkew

\* When a key works: not before it was asked for, and within a day.
LEMMA ActivationFacts ==
    ASSUME NEW known, IsFiniteSet(known), \A p \in known : p.RequestTime \in Nat,
           NEW r, r.RequestTime \in Nat
    PROVE  /\ CalculateActivationTime(known, r) =
                  IF Repeats(known, r) THEN Refused
                  ELSE r.RequestTime + (IF WaitFor(known, r) <= MaxWait THEN WaitFor(known, r) ELSE MaxWait)
           /\ ~Repeats(known, r) =>
                  /\ CalculateActivationTime(known, r) \in Nat
                  /\ CalculateActivationTime(known, r) <= r.RequestTime + MaxWait
<1>. DEFINE w == WaitFor(known, r)
<1>1. w \in Nat
  BY WaitFacts
<1>. HIDE DEF w
<1>2. Min({w, MaxWait}) = IF w <= MaxWait THEN w ELSE MaxWait
  BY <1>1, CappedWait
<1>3. CalculateActivationTime(known, r) =
          IF Repeats(known, r) THEN Refused ELSE r.RequestTime + Min({w, MaxWait})
  BY DEF CalculateActivationTime, w, WaitFor, Repeats, Alikes
<1>4. MaxWait \in Nat
  BY DEF MaxWait, Day, Hour
<1>. QED
  BY <1>1, <1>2, <1>3, <1>4 DEF w

KeysOf(pairs) == {p.Key : p \in pairs}

NoncesOf(requests) == {r.Nonce : r \in requests}

\* Databases of some rows, none of them later than a time.
Databases(R, latest) ==
    {db \in [requests : SUBSET R, pairs : SUBSET [Key : NoncesOf(R), Activation : Nat]] :
        /\ IsFiniteSet(db.requests) /\ IsFiniteSet(db.pairs) /\ IsFiniteSet(KeysOf(db.pairs))
        /\ KeysOf(db.pairs) \subseteq NoncesOf(db.requests)
        /\ Cardinality(KeysOf(db.pairs)) = Cardinality(db.pairs)
        /\ \A p \in db.pairs : p.Activation <= latest + MaxWait}

Stored(db, after, r) ==
    /\ r.Nonce \notin NoncesOf(db.requests)
    /\ ~Repeats(db.requests, r)
    /\ after.pairs = db.pairs \cup
           {[Key |-> r.Nonce, Activation |-> CalculateActivationTime(db.requests, r)]}

\* A request that is stored gets the first key for its nonce.
LEMMA PostFacts ==
    ASSUME NEW R, \A r \in R : r.RequestTime \in Nat, NEW latest \in Nat,
           NEW db \in Databases(R, latest), NEW r \in R, r.RequestTime <= latest
    PROVE  /\ Post(db, r, r.RequestTime) \in Databases(R, latest)
           /\ Post(db, r, r.RequestTime) = db \/ Stored(db, Post(db, r, r.RequestTime), r)
<1>. DEFINE after == Post(db, r, r.RequestTime)
            a == CalculateActivationTime(db.requests, r)
            new == [Key |-> r.Nonce, Activation |-> a]
            stored == [requests |-> db.requests \cup {r}, pairs |-> db.pairs \cup {new}]
<1>1. /\ db.requests \in SUBSET R /\ db.pairs \in SUBSET [Key : NoncesOf(R), Activation : Nat]
      /\ IsFiniteSet(db.requests) /\ IsFiniteSet(db.pairs) /\ IsFiniteSet(KeysOf(db.pairs))
      /\ KeysOf(db.pairs) \subseteq NoncesOf(db.requests)
      /\ Cardinality(KeysOf(db.pairs)) = Cardinality(db.pairs)
      /\ \A p \in db.pairs : p.Activation <= latest + MaxWait
  BY DEF Databases
<1>2. after = db \/ (after = stored /\ r.Nonce \notin NoncesOf(db.requests) /\ a # Refused)
  BY DEF Post, NoncesOf
<1>3. CASE after = stored /\ r.Nonce \notin NoncesOf(db.requests) /\ a # Refused
  <2>1. \A p \in db.requests : p.RequestTime \in Nat
    BY <1>1
  <2>2. ~Repeats(db.requests, r)
    BY <1>1, <1>3, <2>1, ActivationFacts
  <2>3. a \in Nat /\ a <= r.RequestTime + MaxWait
    BY <1>1, <2>1, <2>2, ActivationFacts
  <2>4. MaxWait \in Nat
    BY DEF MaxWait, Day, Hour
  <2>. HIDE DEF a, after
  <2>5. new \in [Key : NoncesOf(R), Activation : Nat] /\ new.Activation <= latest + MaxWait
    BY <2>3, <2>4 DEF NoncesOf
  <2>6. KeysOf(db.pairs \cup {new}) = KeysOf(db.pairs) \cup {r.Nonce}
    <3>1. new.Key = r.Nonce
      OBVIOUS
    <3>. HIDE DEF new
    <3>. QED
      BY <3>1 DEF KeysOf
  <2>7. new \notin db.pairs /\ r.Nonce \notin KeysOf(db.pairs)
    BY <1>1, <1>3 DEF KeysOf
  <2>8. /\ IsFiniteSet(db.requests \cup {r})
        /\ IsFiniteSet(db.pairs \cup {new}) /\ Cardinality(db.pairs \cup {new}) = Cardinality(db.pairs) + 1
        /\ IsFiniteSet(KeysOf(db.pairs) \cup {r.Nonce})
        /\ Cardinality(KeysOf(db.pairs) \cup {r.Nonce}) = Cardinality(KeysOf(db.pairs)) + 1
    <3>. HIDE DEF new
    <3>. QED
      BY <1>1, <2>7, FS_AddElement, Zenon
  <2>9. NoncesOf(db.requests \cup {r}) = NoncesOf(db.requests) \cup {r.Nonce}
    BY DEF NoncesOf
  <2>. HIDE DEF new
  <2>10. stored \in [requests : SUBSET R, pairs : SUBSET [Key : NoncesOf(R), Activation : Nat]]
    BY <1>1, <2>5
  <2>11. stored \in Databases(R, latest)
    BY <1>1, <2>5, <2>6, <2>8, <2>9, <2>10, Zenon DEF Databases
  <2>. QED
    BY <1>3, <2>2, <2>11 DEF after, a, new, Stored
<1>. QED
  BY <1>2, <1>3

\* The answers to some requests are such a database.
LEMMA AnsweredFacts ==
    ASSUME NEW R, \A r \in R : r.RequestTime \in Nat, NEW latest \in Nat,
           NEW requests \in Seq(R), \A i \in DOMAIN requests : requests[i].RequestTime <= latest
    PROVE  Answered(requests) \in Databases(R, latest)
<1>. DEFINE D == DOMAIN requests
            V == Databases(R, latest)
            none == [requests |-> {}, pairs |-> {}]
            pick == [Q \in SUBSET D |-> Max(Q)]
            step == [p \in D \X V |-> Post(p[2], requests[p[1]], requests[p[1]].RequestTime)]
            Solves(it) == it = [s \in SUBSET D |-> IF s = {} THEN none
                                    ELSE Post(it[s \ {Max(s)}], requests[Max(s)],
                                                      requests[Max(s)].RequestTime)]
            it == CHOOSE it : Solves(it)
<1>1. D = 1..Len(requests) /\ Len(requests) \in Nat /\ IsFiniteSet(D)
  BY FS_Interval
<1>2. Picks(pick, D)
  <2>. SUFFICES ASSUME NEW Q \in SUBSET D, Q # {}
                PROVE  Max(Q) \in Q
    BY DEF Picks
  <2>1. IsFiniteSet(Q) /\ Q \subseteq Int
    BY <1>1, FS_Subset
  <2>. HIDE DEF D
  <2>2. \E m \in Q : \A y \in Q : m >= y
    BY <2>1, HasMaximum, Zenon
  <2>. QED
    BY <2>2 DEF Max
<1>3. none \in V
  <2>1. none \in [requests : SUBSET R, pairs : SUBSET [Key : NoncesOf(R), Activation : Nat]]
    OBVIOUS
  <2>2. KeysOf({}) = {}
    BY DEF KeysOf
  <2>3. IsFiniteSet({})
    BY FS_EmptySet
  <2>. QED
    BY <2>1, <2>2, <2>3, Zenon DEF Databases
<1>4. \A i \in D, db \in V :
          /\ step[<<i, db>>] = Post(db, requests[i], requests[i].RequestTime)
          /\ step[<<i, db>>] \in V
  <2>. SUFFICES ASSUME NEW i \in D, NEW db \in V
                PROVE  Post(db, requests[i], requests[i].RequestTime) \in V
    OBVIOUS
  <2>1. requests[i] \in R /\ requests[i].RequestTime <= latest
    BY <1>1
  <2>. QED
    BY <2>1, PostFacts
<1>5. step \in [D \X V -> V]
  BY <1>4, Zenon
<1>6. \A Q \in SUBSET D : pick[Q] = Max(Q)
  OBVIOUS
<1>7. Answered(requests) = it[D]
  BY DEF Answered, FoldLeft, MapThenFoldSet
<1>. HIDE DEF D, V, none, pick, step
<1>8. PICK g : IsFold(g, D, V, none, step, pick)
  BY <1>1, <1>2, <1>3, <1>5, FoldExists, Zenon
<1>9. ASSUME NEW s \in SUBSET D, s # {}
      PROVE  g[s] = Post(g[s \ {pick[s]}], requests[pick[s]], requests[pick[s]].RequestTime)
  <2>1. pick[s] \in D /\ s \ {pick[s]} \in SUBSET D
    BY <1>2, <1>9 DEF Picks
  <2>2. g[s \ {pick[s]}] \in V /\ g[s] = step[<<pick[s], g[s \ {pick[s]}]>>]
    BY <1>8, <1>9, <2>1, Zenon DEF IsFold
  <2>. QED
    BY <1>4, <2>1, <2>2
<1>10. Solves(g)
  BY <1>6, <1>8, <1>9, Zenon DEF IsFold
<1>. HIDE DEF Solves
<1>11. Solves(it)
  BY <1>10
<1>. HIDE DEF it
<1>12. FoldTogether(it, g, D, pick)
  <2>1. it[{}] = none /\ g[{}] = none
    BY <1>8, <1>11, Zenon DEF Solves, IsFold
  <2>2. ASSUME NEW s \in SUBSET D, s # {}, it[s \ {pick[s]}] = g[s \ {pick[s]}]
        PROVE  it[s] = g[s]
    <3>1. it[s] = Post(it[s \ {Max(s)}], requests[Max(s)], requests[Max(s)].RequestTime)
      BY <1>11, <2>2, Zenon DEF Solves
    <3>2. pick[s] = Max(s)
      BY <1>6
    <3>. QED
      BY <1>9, <2>2, <3>1, <3>2, Zenon
  <2>. QED
    BY <2>1, <2>2, Zenon DEF FoldTogether
<1>13. it[D] = g[D]
  BY <1>1, <1>2, <1>12, FoldUnique
<1>14. g[D] \in V
  BY <1>8 DEF IsFold
<1>. QED
  BY <1>7, <1>13, <1>14 DEF V

Counts(P, f, D) == [d \in D |-> Cardinality({p \in P : f[p] = d})]

\* What is counted in the class that it belongs to is counted once.
LEMMA CountedOnce ==
    ASSUME NEW P, IsFiniteSet(P), NEW D, IsFiniteSet(D), NEW f, f \in [P -> D]
    PROVE  Total(Counts(P, f, D)) = Cardinality(P)
<1>. DEFINE In(Q) == {p \in P : f[p] \in Q}
            Having(d) == {p \in P : f[p] = d}
            w == [d \in D |-> Cardinality(Having(d))]
<1>1. \A Q : IsFiniteSet(In(Q)) /\ Cardinality(In(Q)) \in Nat
  BY FS_Subset, FS_CardinalityType
<1>2. \A d : IsFiniteSet(Having(d)) /\ Cardinality(Having(d)) \in Nat
  BY FS_Subset, FS_CardinalityType
<1>3. w \in [D -> Nat] /\ \A d \in D : w[d] = Cardinality(Having(d))
  BY <1>2, Zenon
<1>4. In({}) = {} /\ In(D) = P
  OBVIOUS
<1>5. \A Q, x : x \notin Q => In(Q \cup {x}) = In(Q) \cup Having(x) /\ In(Q) \cap Having(x) = {}
  OBVIOUS
<1>6. w = [d \in D |-> Cardinality({p \in P : f[p] = d})] /\ [d \in D |-> w[d]] = w
  OBVIOUS
<1>. HIDE DEF In, Having, w
<1>7. PICK g : TotalsOf(g, w, D)
  BY <1>3, Totals
<1>. DEFINE F == {Q \in SUBSET D : g[Q] = Cardinality(In(Q))}
<1>8. {} \in F
  <2>1. Cardinality({}) = 0
    BY FS_EmptySet
  <2>. QED
    BY <1>4, <1>7, <2>1, Zenon DEF TotalsOf
<1>9. ASSUME NEW Q \in SUBSET D, NEW x \in D \ Q, Q \in F
      PROVE  Q \cup {x} \in F
  <2>1. g[Q \cup {x}] = w[x] + g[Q]
    BY <1>7 DEF TotalsOf
  <2>2. In(Q \cup {x}) = In(Q) \cup Having(x) /\ In(Q) \cap Having(x) = {}
    BY <1>5
  <2>3. Cardinality(In(Q) \cup Having(x)) = Cardinality(In(Q)) + Cardinality(Having(x)) - Cardinality(In(Q) \cap Having(x))
    BY <1>1, <1>2, FS_Union
  <2>4. Cardinality(In(Q) \cap Having(x)) = 0
    BY <2>2, FS_EmptySet
  <2>5. g[Q] = Cardinality(In(Q)) /\ w[x] = Cardinality(Having(x))
    BY <1>3, <1>9
  <2>6. Cardinality(In(Q)) \in Nat /\ Cardinality(Having(x)) \in Nat
    BY <1>1, <1>2
  <2>7. Cardinality(In(Q \cup {x})) = Cardinality(In(Q)) + Cardinality(Having(x)) - 0
    BY <2>2, <2>3, <2>4
  <2>8. g[Q \cup {x}] = Cardinality(In(Q \cup {x}))
    BY <2>1, <2>5, <2>6, <2>7
  <2>. QED
    BY <2>8
<1>. HIDE DEF F
<1>10. D \in F
  BY <1>8, <1>9, SubsetInduction, Zenon
<1>11. g[D] = Cardinality(P)
  BY <1>4, <1>10 DEF F
<1>12. Total([d \in D |-> w[d]]) = g[D]
  <2>1. Total([d \in D |-> w[d]]) = g[D]
    BY <1>7 DEF TotalsOf
  <2>. QED
    BY <2>1, SameTotal, Zenon
<1>. QED
  BY <1>6, <1>11, <1>12, Zenon DEF Counts

(***************************************************************************)
(* Whatever phones asked for keys before, and however often: what a        *)
(* request is granted works within a day and a minute, and after a minute  *)
(* if the table has nothing alike; no request in the past makes a wait     *)
(* shorter; no nonce gets two keys; and each key is counted on one day     *)
(* (types/androidpairrequest.go CalculateActivationTime, resource/pair.go).*)
(***************************************************************************)
THEOREM KeysForAnyRequests ==
    ASSUME NEW R, \A r \in R : r.RequestTime \in Nat,
           NEW requests \in Seq(R), NEW request \in R,
           \A i \in DOMAIN requests : requests[i].RequestTime <= request.RequestTime
    PROVE  WaitsGrowIn(requests, request)
<1>. DEFINE db == Answered(requests)
            clock == request.RequestTime
            after == Post(db, request, clock)
            activation == CalculateActivationTime(db.requests, request)
            new == [Key |-> request.Nonce, Activation |-> activation]
            counts == CountPairActivationsByDay(after, 0, (clock + MaxWait) \div Day)
<1>1. clock \in Nat
  OBVIOUS
<1>2. db \in Databases(R, clock)
  BY <1>1, AnsweredFacts
<1>3. clock <= clock
  BY <1>1
<1>4. after \in Databases(R, clock) /\ (after = db \/ Stored(db, after, request))
  <2>. HIDE DEF db
  <2>. QED
    BY <1>1, <1>2, <1>3, PostFacts
<1>5. MaxWait = 1440 /\ Day = 1440
  BY DEF MaxWait, Day, Hour
<1>6. Cardinality({p.Key : p \in after.pairs}) = Cardinality(after.pairs)
  BY <1>4, SameCardinality DEF Databases, KeysOf
<1>7. after.pairs \subseteq [Key : NoncesOf(R), Activation : Nat] /\ IsFiniteSet(after.pairs)
      /\ \A p \in after.pairs : p.Activation <= clock + MaxWait
  BY <1>4 DEF Databases
<1>8. after.pairs \subseteq PairsThatWork(after, clock + MaxWait + 1)
  <2>. SUFFICES ASSUME NEW p \in after.pairs
                PROVE  clock + MaxWait + 1 > p.Activation
    BY DEF PairsThatWork, Activated
  <2>1. p.Activation \in Nat /\ p.Activation <= clock + MaxWait
    BY <1>7
  <2>. HIDE DEF clock
  <2>. QED
    BY <1>1, <1>5, <2>1
<1>9. db.requests \in SUBSET R /\ IsFiniteSet(db.requests) /\ \A p \in db.requests : p.RequestTime \in Nat
  BY <1>2 DEF Databases
<1>10. ASSUME after # db, \A past \in db.requests : ~Alike(request, past)
       PROVE  after.pairs \ db.pairs \subseteq PairsThatWork(after, clock + 1)
  <2>1. Alikes(db.requests, request) = {}
    BY <1>10 DEF Alikes
  <2>2. WaitFor(db.requests, request) = 0
    BY <1>1, <1>9, <2>1, WaitFacts
  <2>3. activation = clock
    BY <1>1, <1>4, <1>5, <1>9, <1>10, <2>2, ActivationFacts DEF Stored
  <2>4. new.Activation < clock + 1
    BY <1>1, <2>3
  <2>5. after.pairs \ db.pairs \subseteq {new} /\ new \in after.pairs
    BY <1>4, <1>10 DEF Stored
  <2>. HIDE DEF new, after, db, clock
  <2>. QED
    BY <2>4, <2>5 DEF PairsThatWork, Activated
<1>11. ASSUME after # db, NEW fewer \in SUBSET db.requests
       PROVE  CalculateActivationTime(fewer, request) - clock <= activation - clock
  <2>1. IsFiniteSet(fewer) /\ \A p \in fewer : p.RequestTime \in Nat
    BY <1>9, FS_Subset
  <2>2. ~Repeats(db.requests, request) /\ ~Repeats(fewer, request)
    BY <1>4, <1>11 DEF Repeats, Alikes, Stored
  <2>3. /\ WaitFor(fewer, request) \in Nat /\ WaitFor(db.requests, request) \in Nat
        /\ WaitFor(fewer, request) <= WaitFor(db.requests, request)
    BY <1>1, <1>9, WaitFacts
  <2>4. CalculateActivationTime(fewer, request) = clock +
            (IF WaitFor(fewer, request) <= MaxWait THEN WaitFor(fewer, request) ELSE MaxWait)
    BY <1>1, <2>1, <2>2, ActivationFacts
  <2>5. activation = clock +
            (IF WaitFor(db.requests, request) <= MaxWait THEN WaitFor(db.requests, request) ELSE MaxWait)
    BY <1>1, <1>9, <2>2, ActivationFacts
  <2>. HIDE DEF activation, clock, db
  <2>. QED
    BY <1>1, <1>5, <2>3, <2>4, <2>5
<1>12. Total(counts) = Cardinality(after.pairs)
  <2>. DEFINE D == 0..((clock + MaxWait) \div Day)
              f == [p \in after.pairs |-> p.Activation \div Day]
  <2>1. ASSUME NEW p \in after.pairs
        PROVE  p.Activation \div Day \in D
    <3>1. p.Activation \in Nat /\ p.Activation <= clock + MaxWait
      BY <1>7
    <3>. HIDE DEF clock
    <3>. QED
      BY <1>1, <1>5, <3>1
  <2>2. f \in [after.pairs -> D] /\ \A p \in after.pairs : f[p] = p.Activation \div Day
    BY <2>1
  <2>3. IsFiniteSet(D)
    <3>. HIDE DEF clock
    <3>1. (clock + MaxWait) \div Day \in Int
      BY <1>1, <1>5
    <3>. QED
      BY <3>1, FS_Interval
  <2>. HIDE DEF after, clock
  <2>4. counts = [d \in D |-> Cardinality({p \in after.pairs : p.Activation \div Day = d})]
    BY SameCardinality DEF CountPairActivationsByDay
  <2>. HIDE DEF D, f, counts
  <2>5. counts = Counts(after.pairs, f, D)
    <3>1. \A d : {p \in after.pairs : f[p] = d} = {p \in after.pairs : p.Activation \div Day = d}
      BY <2>2
    <3>. QED
      BY <2>4, <3>1, Zenon DEF Counts
  <2>6. Total(Counts(after.pairs, f, D)) = Cardinality(after.pairs)
    BY <1>7, <2>2, <2>3, CountedOnce
  <2>. QED
    BY <2>5, <2>6, SameCardinality
<1>. QED
  BY <1>6, <1>8, <1>10, <1>11, <1>12, Zenon DEF WaitsGrowIn

\* Each action asks a question of its own sort.
LEMMA OtherQuestions ==
    ASSUME RecordsNext
    PROVE  /\ AskKey \/ question'.is # "key"
           /\ AskVisits \/ question'.is # "visits"
           /\ AskScopes \/ question'.is # "scopes"
           /\ AskStatistics \/ question'.is # "statistics"
           /\ AskMap \/ question'.is # "map"
           /\ AskLedger \/ question'.is # "ledger"
           /\ AskSettings \/ question'.is # "settings"
           /\ AskTypes \/ question'.is # "types"
           /\ AskLastDisturbances \/ question'.is # "last"
           /\ AskHours \/ question'.is # "hours"
<1>1. AskStatistics => question'.is = "statistics"
  BY DEF AskStatistics, Asks
<1>2. AskMap => question'.is = "map"
  BY DEF AskMap, Asks
<1>3. AskTimes => question'.is = "times"
  BY DEF AskTimes, Asks
<1>4. AskNextTrain => question'.is = "train"
  BY DEF AskNextTrain, Asks
<1>5. AskPublished => question'.is = "published"
  BY DEF AskPublished, Asks
<1>6. AskVisits => question'.is = "visits"
  BY DEF AskVisits, Asks
<1>7. AskScopes => question'.is = "scopes"
  BY DEF AskScopes, Asks
<1>8. AskLedger => question'.is = "ledger"
  BY DEF AskLedger, Asks
<1>9. AskSettings => question'.is = "settings"
  BY DEF AskSettings, Asks
<1>11. AskTypes => question'.is = "types"
  BY DEF AskTypes, Asks
<1>12. AskLastDisturbances => question'.is = "last"
  BY DEF AskLastDisturbances, Asks
<1>13. AskTrip => question'.is = "trip"
  BY DEF AskTrip, Asks
<1>14. AskHours => question'.is = "hours"
  BY DEF AskHours, Asks
<1>15. AskKey => question'.is = "key"
  BY DEF AskKey, Asks
<1>. QED
  BY <1>1, <1>2, <1>3, <1>4, <1>5, <1>6, <1>7, <1>8, <1>9, <1>11, <1>12, <1>13, <1>14, <1>15 DEF RecordsNext

\* In the runs' instance too.
THEOREM WaitsAlwaysGrow == RecordsInit /\ [][RecordsNext]_question => []WaitsGrow
<1>. DEFINE R == [Nonce : 1..3, AndroidID : {"x", "y"}, IPaddress : {"home", "metro"}, RequestTime : Nat]
<1>1. RecordsInit => WaitsGrow
  BY DEF RecordsInit, WaitsGrow
<1>2. ASSUME WaitsGrow, [RecordsNext]_question
      PROVE  WaitsGrow'
  <2>1. CASE AskKey
    <3>1. PICK first \in Phones, second \in Phones, last \in {r \in Phones : r.RequestTime = 4000} :
              /\ first.RequestTime <= second.RequestTime
              /\ Asks([is |-> "key", requests |-> <<first, second>>, request |-> [last EXCEPT !.RequestTime = 4020]])
      BY <2>1, Zenon DEF AskKey
    <3>. DEFINE request == [last EXCEPT !.RequestTime = 4020]
                requests == <<first, second>>
    <3>2. request \in R /\ request.RequestTime = 4020 /\ requests \in Seq(R)
      BY DEF Phones
    <3>3. \A i \in DOMAIN requests : requests[i].RequestTime <= 4020
      BY DEF Phones
    <3>4. \A r \in R : r.RequestTime \in Nat
      OBVIOUS
    <3>5. question'.requests = requests /\ question'.request = request
      BY <3>1 DEF Asks
    <3>. HIDE DEF R, request, requests
    <3>6. WaitsGrowIn(requests, request)
      BY <3>2, <3>3, <3>4, KeysForAnyRequests
    <3>. QED
      BY <3>5, <3>6 DEF WaitsGrow
  <2>2. CASE UNCHANGED question
    BY <1>2, <2>2 DEF WaitsGrow
  <2>3. CASE RecordsNext /\ ~AskKey
    BY <2>3, OtherQuestions DEF WaitsGrow
  <2>. QED
    BY <1>2, <2>1, <2>2, <2>3
<1>. QED
  BY <1>1, <1>2, PTL

LEMMA SameMax == \A S : Max(S) = Max(S) /\ Max(S) = Max(S)
BY DEF Max, Max, Max

-----------------------------------------------------------------------------
(***************************************************************************)
(* Achievements: what is kept of a sequence.                               *)
(***************************************************************************)
LEMMA OnlyFacts ==
    ASSUME NEW X, NEW seq \in Seq(X), NEW S
    PROVE  /\ Only(seq, S) \in Seq(X)
           /\ \A i \in DOMAIN Only(seq, S) : \E j \in DOMAIN seq : Only(seq, S)[i] = seq[j] /\ seq[j] \in S
<1>. DEFINE n == Len(seq)
            V == {kept \in Seq(X) : \A i \in DOMAIN kept : \E j \in DOMAIN seq : kept[i] = seq[j] /\ seq[j] \in S}
            Kept(kept, x) == IF x \in S THEN Append(kept, x) ELSE kept
            step == [p \in (1..n) \X V |-> Kept(p[2], seq[p[1]])]
            Solves(it) == it = [s \in SUBSET (DOMAIN seq) |-> IF s = {} THEN <<>>
                                    ELSE IF seq[Max(s)] \in S THEN Append(it[s \ {Max(s)}], seq[Max(s)])
                                         ELSE it[s \ {Max(s)}]]
            it == CHOOSE it : Solves(it)
<1>1. n \in Nat /\ DOMAIN seq = 1..n
  OBVIOUS
<1>2. ASSUME NEW kept \in V, NEW i \in 1..n
      PROVE  Kept(kept, seq[i]) \in V
  <2>1. kept \in Seq(X) /\ \A k \in DOMAIN kept : \E j \in DOMAIN seq : kept[k] = seq[j] /\ seq[j] \in S
    OBVIOUS
  <2>2. CASE seq[i] \in S
    <3>1. Append(kept, seq[i]) \in Seq(X)
      BY <2>1
    <3>2. ASSUME NEW k \in DOMAIN Append(kept, seq[i])
          PROVE  \E j \in DOMAIN seq : Append(kept, seq[i])[k] = seq[j] /\ seq[j] \in S
      <4>1. CASE k = Len(kept) + 1
        BY <1>1, <2>1, <2>2, <4>1
      <4>2. CASE k # Len(kept) + 1
        <5>1. k \in DOMAIN kept /\ Append(kept, seq[i])[k] = kept[k]
          BY <2>1, <4>2
        <5>. QED
          BY <2>1, <5>1
      <4>. QED
        BY <4>1, <4>2
    <3>. QED
      BY <2>2, <3>1, <3>2, Zenon
  <2>. QED
    BY <2>2
<1>3. <<>> \in V
  OBVIOUS
<1>4. \A i \in 1..n, kept \in V : step[<<i, kept>>] = Kept(kept, seq[i])
  OBVIOUS
<1>5. step \in [(1..n) \X V -> V]
  BY <1>2
<1>6. Only(seq, S) = it[DOMAIN seq]
  BY DEF Only, FoldLeft, MapThenFoldSet
<1>. HIDE DEF n, V, step
<1>7. PICK g : IsFold(g, 1..n, V, <<>>, step, LatestOf(n))
  BY <1>1, <1>3, <1>5, LatestPicks, FoldExists, Zenon
<1>8. ASSUME NEW s \in SUBSET (1..n), s # {}
      PROVE  /\ LatestOf(n)[s] = Max(s)
             /\ g[s] = Kept(g[s \ {Max(s)}], seq[Max(s)])
  <2>1. LatestOf(n)[s] = Max(s) /\ Max(s) \in 1..n /\ s \ {Max(s)} \in SUBSET (1..n)
    BY <1>1, <1>8, LatestPicks, SameMax DEF Picks
  <2>2. g[s] = step[<<Max(s), g[s \ {Max(s)}]>>] /\ g[s \ {Max(s)}] \in V
    BY <1>7, <1>8, <2>1 DEF IsFold
  <2>. QED
    BY <1>4, <2>1, <2>2
<1>9. Solves(g)
  BY <1>1, <1>7, <1>8, Zenon DEF IsFold
<1>. HIDE DEF Solves
<1>10. Solves(it)
  BY <1>9
<1>. HIDE DEF it
<1>11. FoldTogether(it, g, 1..n, LatestOf(n))
  <2>1. it[{}] = <<>> /\ g[{}] = <<>>
    BY <1>7, <1>10, Zenon DEF Solves, IsFold
  <2>2. ASSUME NEW s \in SUBSET (1..n), s # {}, it[s \ {LatestOf(n)[s]}] = g[s \ {LatestOf(n)[s]}]
        PROVE  it[s] = g[s]
    <3>1. it[s] = Kept(it[s \ {Max(s)}], seq[Max(s)])
      BY <1>1, <1>10, <2>2, Zenon DEF Solves
    <3>. QED
      BY <1>8, <2>2, <3>1, Zenon
  <2>. QED
    BY <2>1, <2>2, Zenon DEF FoldTogether
<1>12. it[1..n] = g[1..n]
  BY <1>1, <1>11, LatestPicks, FoldUnique
<1>13. g[1..n] \in V
  BY <1>7, Zenon DEF IsFold
<1>. QED
  BY <1>1, <1>6, <1>12, <1>13 DEF V

-----------------------------------------------------------------------------
(***************************************************************************)
(* Achievements for travelling to some stations C, over several trips.     *)
(***************************************************************************)
Over(C) == [Stations |-> C, SingleTrip |-> FALSE]

\* What a player went to in the first k trips, or could not.
CoveredBy(C, steps, k) ==
    (UNION {Visited(steps[i].trip) : i \in 1..k})
    \cup {s \in C : \E i \in 2..k : Closed(steps[i].net, s)}

DoneAfter(C, steps, k) == C \subseteq CoveredBy(C, steps, k)

DoneBefore(C, steps, k) == \E i \in 1..(k - 1) : DoneAfter(C, steps, i)

\* The outcome of the k-th trip.
Expected(C, steps, k) ==
    IF DoneBefore(C, steps, k)
    THEN [row |-> [Achieved |-> TRUE, VisitedStations |-> {}], granted |-> FALSE]
    ELSE [row |-> [Achieved |-> FALSE, VisitedStations |-> C \cap CoveredBy(C, steps, k)],
          granted |-> DoneAfter(C, steps, k)]

AreExpected(done, C, steps, k) == done = [j \in 1..k |-> Expected(C, steps, j)]

\* One more trip covers more.
LEMMA CoveredGrows ==
    ASSUME NEW C, NEW steps, NEW k \in Nat
    PROVE  /\ \A s : s \in CoveredBy(C, steps, k + 1)
                  <=> \/ s \in CoveredBy(C, steps, k)
                      \/ s \in Visited(steps[k + 1].trip)
                      \/ s \in C /\ k # 0 /\ Closed(steps[k + 1].net, s)
           /\ CoveredBy(C, steps, 0) = {}
           /\ DoneBefore(C, steps, k + 1) <=> k # 0 /\ (DoneAfter(C, steps, k) \/ DoneBefore(C, steps, k))
           /\ DoneBefore(C, steps, 1) = FALSE
<1>1. \A i : i \in 1..(k + 1) <=> i \in 1..k \/ i = k + 1
  OBVIOUS
<1>2. \A i : i \in 2..(k + 1) <=> i \in 2..k \/ (k # 0 /\ i = k + 1)
  OBVIOUS
<1>3. 1..0 = {} /\ 2..0 = {} /\ (k + 1) - 1 = k /\ 1 - 1 = 0
  OBVIOUS
<1>4. k # 0 => \A i : i \in 1..k <=> i \in 1..(k - 1) \/ i = k
  OBVIOUS
<1>5. k = 0 => 1..k = {}
  OBVIOUS
<1>6. ASSUME NEW s
      PROVE  s \in CoveredBy(C, steps, k + 1)
                  <=> \/ s \in CoveredBy(C, steps, k)
                      \/ s \in Visited(steps[k + 1].trip)
                      \/ s \in C /\ k # 0 /\ Closed(steps[k + 1].net, s)
  <2>1. (\E i \in 1..(k + 1) : s \in Visited(steps[i].trip))
           <=> (\E i \in 1..k : s \in Visited(steps[i].trip)) \/ s \in Visited(steps[k + 1].trip)
    BY <1>1, Zenon
  <2>2. (\E i \in 2..(k + 1) : Closed(steps[i].net, s))
           <=> (\E i \in 2..k : Closed(steps[i].net, s)) \/ (k # 0 /\ Closed(steps[k + 1].net, s))
    BY <1>2, Zenon
  <2>3. \A j : s \in CoveredBy(C, steps, j)
                 <=> \/ \E i \in 1..j : s \in Visited(steps[i].trip)
                     \/ s \in C /\ \E i \in 2..j : Closed(steps[i].net, s)
    <3>. TAKE j
    <3>1. s \in UNION {Visited(steps[i].trip) : i \in 1..j} <=> \E i \in 1..j : s \in Visited(steps[i].trip)
      OBVIOUS
    <3>2. s \in {s1 \in C : \E i \in 2..j : Closed(steps[i].net, s1)}
              <=> s \in C /\ \E i \in 2..j : Closed(steps[i].net, s)
      OBVIOUS
    <3>. DEFINE A == UNION {Visited(steps[i].trip) : i \in 1..j}
                B == {s1 \in C : \E i \in 2..j : Closed(steps[i].net, s1)}
    <3>3. CoveredBy(C, steps, j) = A \cup B
      BY Zenon DEF CoveredBy
    <3>. HIDE DEF A, B
    <3>4. s \in A \cup B <=> s \in A \/ s \in B
      OBVIOUS
    <3>5. /\ s \in A <=> \E i \in 1..j : s \in Visited(steps[i].trip)
          /\ s \in B <=> s \in C /\ \E i \in 2..j : Closed(steps[i].net, s)
      BY <3>1, <3>2, Zenon DEF A, B
    <3>. QED
      BY <3>3, <3>4, <3>5, Zenon
  <2>4. s \in CoveredBy(C, steps, k + 1)
            <=> \/ \E i \in 1..(k + 1) : s \in Visited(steps[i].trip)
                \/ s \in C /\ \E i \in 2..(k + 1) : Closed(steps[i].net, s)
    BY <2>3, Zenon
  <2>5. s \in CoveredBy(C, steps, k)
            <=> \/ \E i \in 1..k : s \in Visited(steps[i].trip)
                \/ s \in C /\ \E i \in 2..k : Closed(steps[i].net, s)
    BY <2>3, Zenon
  <2>. QED
    BY <2>1, <2>2, <2>4, <2>5, Zenon
<1>7. CoveredBy(C, steps, 0) = {}
  BY <1>3 DEF CoveredBy
<1>8. DoneBefore(C, steps, k + 1) <=> k # 0 /\ (DoneAfter(C, steps, k) \/ DoneBefore(C, steps, k))
  <2>1. DoneBefore(C, steps, k + 1) <=> \E i \in 1..k : DoneAfter(C, steps, i)
    BY <1>3 DEF DoneBefore
  <2>2. CASE k = 0
    BY <1>5, <2>1, <2>2
  <2>3. CASE k # 0
    BY <1>4, <2>1, <2>3, Zenon DEF DoneBefore
  <2>. QED
    BY <2>2, <2>3
<1>9. DoneBefore(C, steps, 1) = FALSE
  BY <1>3 DEF DoneBefore
<1>. QED
  BY <1>6, <1>7, <1>8, <1>9

\* The outcome that leaves some stations, and may be the last.
Leaves(C, left) == [row |-> [Achieved |-> FALSE, VisitedStations |-> C \ left], granted |-> left = {}]

\* A trip, with the row that it finds.
LEMMA VisitFacts ==
    ASSUME NEW C, NEW row, NEW trip, NEW net
    PROVE  /\ row # NoRow /\ row.Achieved
                  => VisitStations(Over(C), row, trip, net) = [row |-> row, granted |-> FALSE]
           /\ row = NoRow \/ ~row.Achieved
                  => VisitStations(Over(C), row, trip, net) = Leaves(C, LeftToVisit(Over(C), row, trip, net))
<1>1. Over(C).Stations = C /\ ~Over(C).SingleTrip
  BY DEF Over
<1>. QED
  BY <1>1, Zenon DEF VisitStations, Nothing, Granted, Leaves

\* The first trip.
LEMMA FirstOutcome ==
    ASSUME NEW C, NEW steps
    PROVE  VisitStations(Over(C), NoRow, steps[1].trip, steps[1].net) = Expected(C, steps, 1)
<1>. DEFINE left == LeftToVisit(Over(C), NoRow, steps[1].trip, steps[1].net)
<1>1. \A s : s \in CoveredBy(C, steps, 1) <=> s \in Visited(steps[1].trip)
  BY CoveredGrows, 0 + 1 = 1
<1>2. left = {s \in C : s \notin Visited(steps[1].trip)}
  BY DEF LeftToVisit, Over
<1>3. C \ left = C \cap CoveredBy(C, steps, 1) /\ (left = {} <=> C \subseteq CoveredBy(C, steps, 1))
  BY <1>1, <1>2
<1>4. ~DoneBefore(C, steps, 1)
  BY CoveredGrows, 0 \in Nat
<1>6. VisitStations(Over(C), NoRow, steps[1].trip, steps[1].net) = Leaves(C, left)
  BY VisitFacts
<1>. HIDE DEF left
<1>. QED
  BY <1>3, <1>4, <1>6, Zenon DEF Expected, DoneAfter, Leaves

\* The row that an outcome leaves behind.
LEMMA ExpectedRow ==
    ASSUME NEW C, NEW steps, NEW k
    PROVE  RowLeft(Expected(C, steps, k)) =
               IF DoneAfter(C, steps, k) \/ DoneBefore(C, steps, k)
               THEN [Achieved |-> TRUE, VisitedStations |-> {}]
               ELSE [Achieved |-> FALSE, VisitedStations |-> C \cap CoveredBy(C, steps, k)]
<1>1. CASE DoneBefore(C, steps, k)
  BY <1>1 DEF Expected, RowLeft
<1>2. CASE ~DoneBefore(C, steps, k) /\ DoneAfter(C, steps, k)
  <2>1. Expected(C, steps, k).granted = TRUE
    BY <1>2, Zenon DEF Expected, DoneAfter
  <2>2. ASSUME NEW o, o.granted = TRUE
        PROVE  RowLeft(o) = [Achieved |-> TRUE, VisitedStations |-> {}]
    BY <2>2, Zenon DEF RowLeft
  <2>. QED
    BY <1>2, <2>1, <2>2, Zenon
<1>3. CASE ~DoneBefore(C, steps, k) /\ ~DoneAfter(C, steps, k)
  <2>1. Expected(C, steps, k) = [row |-> [Achieved |-> FALSE, VisitedStations |-> C \cap CoveredBy(C, steps, k)], granted |-> FALSE]
    BY <1>3, Zenon DEF Expected, DoneAfter
  <2>. QED
    BY <1>3, <2>1 DEF RowLeft
<1>. QED
  BY <1>1, <1>2, <1>3

\* A later trip finds the row that the trip before it left.
LEMMA LaterOutcome ==
    ASSUME NEW C, "none" \notin C, NEW steps, NEW k \in Nat \ {0}
    PROVE  VisitStations(Over(C), RowLeft(Expected(C, steps, k)), steps[k + 1].trip, steps[k + 1].net)
               = Expected(C, steps, k + 1)
<1>. DEFINE row == RowLeft(Expected(C, steps, k))
            left == LeftToVisit(Over(C), row, steps[k + 1].trip, steps[k + 1].net)
            over == DoneAfter(C, steps, k) \/ DoneBefore(C, steps, k)
<1>1. CASE over
  <2>1. row = [Achieved |-> TRUE, VisitedStations |-> {}]
    BY <1>1, ExpectedRow
  <2>. HIDE DEF row
  <2>2. row # NoRow /\ row.Achieved
    <3>1. row.Achieved = TRUE /\ NoRow.Achieved = FALSE
      BY <2>1 DEF NoRow
    <3>. QED
      BY <3>1, Zenon
  <2>3. VisitStations(Over(C), row, steps[k + 1].trip, steps[k + 1].net) = [row |-> row, granted |-> FALSE]
    BY <2>2, VisitFacts, Zenon
  <2>4. DoneBefore(C, steps, k + 1)
    BY <1>1, CoveredGrows, Zenon
  <2>. QED
    BY <2>1, <2>3, <2>4, Zenon DEF Expected, row
<1>2. CASE ~over
  <2>1. row = [Achieved |-> FALSE, VisitedStations |-> C \cap CoveredBy(C, steps, k)]
    BY <1>2, ExpectedRow
  <2>. HIDE DEF row
  <2>2. row.VisitedStations = C \cap CoveredBy(C, steps, k)
    BY <2>1
  <2>13. ~row.Achieved
    <3>1. row.Achieved = FALSE
      BY <2>1
    <3>. QED
      BY <3>1, Zenon
  <2>3. row # NoRow
    <3>1. NoRow.VisitedStations = {"none"}
      BY DEF NoRow
    <3>. QED
      BY <2>2, <3>1
  <2>4. left = {s \in C : /\ s \notin Visited(steps[k + 1].trip)
                          /\ s \notin row.VisitedStations
                          /\ ~Closed(steps[k + 1].net, s)}
    BY <2>3 DEF LeftToVisit, Over
  <2>5. VisitStations(Over(C), row, steps[k + 1].trip, steps[k + 1].net) = Leaves(C, left)
    BY <2>13, VisitFacts, Zenon
  <2>. HIDE DEF left
  <2>7. \A s \in C : s \in left <=> s \notin CoveredBy(C, steps, k + 1)
    BY <2>2, <2>4, CoveredGrows, Zenon
  <2>8. C \ left = C \cap CoveredBy(C, steps, k + 1) /\ (left = {} <=> C \subseteq CoveredBy(C, steps, k + 1))
    BY <2>4, <2>7
  <2>9. ~DoneBefore(C, steps, k + 1)
    BY <1>2, CoveredGrows, Zenon
  <2>10. Expected(C, steps, k + 1) = Leaves(C, left)
    BY <2>8, <2>9, Zenon DEF Expected, DoneAfter, Leaves
  <2>. QED
    BY <2>5, <2>10 DEF row
<1>. QED
  BY <1>1, <1>2

\* The outcomes after one trip more.
After(C, done, step) ==
    Append(done, VisitStations(Over(C), IF done = <<>> THEN NoRow ELSE RowLeft(Last(done)),
                                     step.trip, step.net))

Upto(C, steps, k) == [j \in 1..k |-> Expected(C, steps, j)]

\* One trip more gives one outcome more, the one expected.
LEMMA UptoGrows ==
    ASSUME NEW C, "none" \notin C, NEW steps, NEW k \in Nat
    PROVE  After(C, Upto(C, steps, k), steps[k + 1]) = Upto(C, steps, k + 1)
<1>. DEFINE done == Upto(C, steps, k)
            next == Expected(C, steps, k + 1)
<1>1. Len(done) = k /\ \A j \in 1..k : done[j] = Expected(C, steps, j)
  BY DEF Upto
<1>2. Append(done, next) = Upto(C, steps, k + 1)
  <2>1. Append(done, next) = [j \in 1..(k + 1) |-> IF j <= k THEN done[j] ELSE next]
    BY <1>1
  <2>2. \A j \in 1..(k + 1) : (IF j <= k THEN done[j] ELSE next) = Expected(C, steps, j)
    BY <1>1
  <2>. QED
    BY <2>1, <2>2 DEF Upto
<1>3. CASE k = 0
  <2>1. done = <<>>
    BY <1>3 DEF Upto
  <2>2. VisitStations(Over(C), NoRow, steps[k + 1].trip, steps[k + 1].net) = next
    BY <1>3, FirstOutcome
  <2>. QED
    BY <1>2, <2>1, <2>2 DEF After
<1>4. CASE k # 0
  <2>1. done # <<>> /\ Last(done) = Expected(C, steps, k)
    BY <1>1, <1>4 DEF Last
  <2>2. VisitStations(Over(C), RowLeft(Expected(C, steps, k)), steps[k + 1].trip, steps[k + 1].net) = next
    BY <1>4, LaterOutcome
  <2>. QED
    BY <1>2, <2>1, <2>2 DEF After
<1>. QED
  BY <1>3, <1>4

\* Outcomes of any kind, to fold over.
AnyRow(C) == [Achieved : BOOLEAN, VisitedStations : SUBSET (C \cup {"none"})]

AnyOutcome(C) == [row : AnyRow(C), granted : BOOLEAN]

\* One outcome more, of any kind.
LEMMA AfterType ==
    ASSUME NEW C, NEW done \in Seq(AnyOutcome(C)), NEW step
    PROVE  After(C, done, step) \in Seq(AnyOutcome(C))
<1>. DEFINE row == IF done = <<>> THEN NoRow ELSE RowLeft(Last(done))
            visit == VisitStations(Over(C), row, step.trip, step.net)
<1>1. row \in AnyRow(C)
  <2>1. CASE done = <<>>
    BY <2>1 DEF NoRow, AnyRow
  <2>2. CASE done # <<>>
    <3>1. Last(done) \in AnyOutcome(C)
      BY <2>2 DEF Last
    <3>2. \A o \in AnyOutcome(C) : RowLeft(o) \in AnyRow(C)
      BY DEF AnyOutcome, AnyRow, RowLeft
    <3>. QED
      BY <2>2, <3>1, <3>2
  <2>. QED
    BY <2>1, <2>2
<1>. HIDE DEF row
<1>2. visit \in AnyOutcome(C)
  <2>1. CASE row # NoRow /\ row.Achieved
    <3>1. visit = [row |-> row, granted |-> FALSE]
      BY <2>1, VisitFacts, Zenon
    <3>. QED
      BY <1>1, <3>1 DEF AnyOutcome
  <2>2. CASE row = NoRow \/ ~row.Achieved
    <3>1. visit = Leaves(C, LeftToVisit(Over(C), row, step.trip, step.net))
      BY <2>2, VisitFacts, Zenon
    <3>2. \A left : Leaves(C, left) \in AnyOutcome(C)
      BY DEF AnyOutcome, AnyRow, Leaves
    <3>. QED
      BY <3>1, <3>2, Zenon
  <2>. QED
    BY <2>1, <2>2, Zenon
<1>3. After(C, done, step) = Append(done, visit)
  BY DEF After, row
<1>. HIDE DEF visit
<1>. QED
  BY <1>2, <1>3

\* The outcomes of several trips are as expected, one by one.
LEMMA OutcomesExpected ==
    ASSUME NEW C, "none" \notin C, NEW S, NEW steps \in Seq(S)
    PROVE  Outcomes(Over(C), steps) = Upto(C, steps, Len(steps))
<1>. DEFINE n == Len(steps)
            V == Seq(AnyOutcome(C))
            step == [p \in (1..n) \X V |-> After(C, p[2], steps[p[1]])]
            Solves(it) == it = [s \in SUBSET (DOMAIN steps) |-> IF s = {} THEN <<>>
                                    ELSE After(C, it[s \ {Max(s)}], steps[Max(s)])]
            it == CHOOSE it : Solves(it)
<1>1. n \in Nat /\ DOMAIN steps = 1..n
  OBVIOUS
<1>2. Outcomes(Over(C), steps) = it[DOMAIN steps]
  BY DEF Outcomes, FoldLeft, MapThenFoldSet, After
<1>3. <<>> \in V
  OBVIOUS
<1>4. \A i \in 1..n, done \in V : step[<<i, done>>] = After(C, done, steps[i])
  OBVIOUS
<1>5. step \in [(1..n) \X V -> V]
  BY AfterType
<1>. HIDE DEF n, V, step
<1>6. PICK g : IsFold(g, 1..n, V, <<>>, step, LatestOf(n))
  BY <1>1, <1>3, <1>5, LatestPicks, FoldExists, Zenon
<1>7. ASSUME NEW s \in SUBSET (1..n), s # {}
      PROVE  /\ LatestOf(n)[s] = Max(s)
             /\ g[s] = After(C, g[s \ {Max(s)}], steps[Max(s)])
  <2>1. LatestOf(n)[s] = Max(s) /\ Max(s) \in 1..n /\ s \ {Max(s)} \in SUBSET (1..n)
    BY <1>1, <1>7, LatestPicks, SameMax DEF Picks
  <2>2. g[s] = step[<<Max(s), g[s \ {Max(s)}]>>] /\ g[s \ {Max(s)}] \in V
    BY <1>6, <1>7, <2>1 DEF IsFold
  <2>. QED
    BY <1>4, <2>1, <2>2
<1>8. Solves(g)
  BY <1>1, <1>6, <1>7, Zenon DEF IsFold
<1>. HIDE DEF Solves
<1>9. Solves(it)
  BY <1>8
<1>. HIDE DEF it
<1>10. FoldTogether(it, g, 1..n, LatestOf(n))
  <2>1. it[{}] = <<>> /\ g[{}] = <<>>
    BY <1>6, <1>9, Zenon DEF Solves, IsFold
  <2>2. ASSUME NEW s \in SUBSET (1..n), s # {}, it[s \ {LatestOf(n)[s]}] = g[s \ {LatestOf(n)[s]}]
        PROVE  it[s] = g[s]
    <3>1. it[s] = After(C, it[s \ {Max(s)}], steps[Max(s)])
      BY <1>1, <1>9, <2>2, Zenon DEF Solves
    <3>. QED
      BY <1>7, <2>2, <3>1, Zenon
  <2>. QED
    BY <2>1, <2>2, Zenon DEF FoldTogether
<1>11. it[1..n] = g[1..n]
  BY <1>1, <1>10, LatestPicks, FoldUnique
<1>12. PICK f : Run(f, n, V, <<>>, step) /\ g[1..n] = f[n]
  BY <1>1, <1>6, FoldRuns
<1>. DEFINE F == {k \in Nat : k <= n => f[k] = Upto(C, steps, k)}
<1>13. 0 \in F
  <2>1. Upto(C, steps, 0) = <<>>
    BY DEF Upto
  <2>. QED
    BY <1>12, <2>1 DEF Run
<1>14. ASSUME NEW k \in Nat, k \in F
       PROVE  k + 1 \in F
  <2>. SUFFICES ASSUME k + 1 <= n
                PROVE  f[k + 1] = Upto(C, steps, k + 1)
    OBVIOUS
  <2>1. k + 1 \in 1..n /\ (k + 1) - 1 = k /\ k \in 0..n
    BY <1>1
  <2>2. f[k] = Upto(C, steps, k) /\ f[k] \in V
    BY <1>1, <1>12, <1>14, <2>1 DEF Run
  <2>3. f[k + 1] = step[<<k + 1, f[k]>>]
    BY <1>12, <2>1 DEF Run
  <2>4. f[k + 1] = After(C, f[k], steps[k + 1])
    BY <1>4, <2>1, <2>2, <2>3
  <2>. QED
    BY <2>2, <2>4, UptoGrows
<1>15. n \in F
  <2>. HIDE DEF F
  <2>. QED
    BY <1>1, <1>13, <1>14, NumberInduction
<1>. QED
  BY <1>1, <1>2, <1>11, <1>12, <1>15 DEF n

\* Whether it was granted.
LEMMA ExpectedGrant ==
    ASSUME NEW C, NEW steps, NEW k
    PROVE  Expected(C, steps, k).granted <=> DoneAfter(C, steps, k) /\ ~DoneBefore(C, steps, k)
<1>1. CASE DoneBefore(C, steps, k)
  <2>1. Expected(C, steps, k).granted = FALSE
    BY <1>1 DEF Expected
  <2>. QED
    BY <1>1, <2>1, Zenon
<1>2. CASE ~DoneBefore(C, steps, k) /\ DoneAfter(C, steps, k)
  <2>1. Expected(C, steps, k).granted = TRUE
    BY <1>2, Zenon DEF Expected, DoneAfter
  <2>. QED
    BY <1>2, <2>1, Zenon
<1>3. CASE ~DoneBefore(C, steps, k) /\ ~DoneAfter(C, steps, k)
  <2>1. Expected(C, steps, k).granted = FALSE
    BY <1>3, Zenon DEF Expected, DoneAfter
  <2>. QED
    BY <1>3, <2>1, Zenon
<1>. QED
  BY <1>1, <1>2, <1>3, Zenon

\* What more trips cover.
LEMMA CoveredMonotone ==
    ASSUME NEW C, NEW steps, NEW k \in Nat, NEW j \in 1..k
    PROVE  CoveredBy(C, steps, j) \subseteq CoveredBy(C, steps, k)
<1>1. 1..j \subseteq 1..k /\ 2..j \subseteq 2..k
  OBVIOUS
<1>2. UNION {Visited(steps[i].trip) : i \in 1..j} \subseteq UNION {Visited(steps[i].trip) : i \in 1..k}
  BY <1>1
<1>3. {s \in C : \E i \in 2..j : Closed(steps[i].net, s)} \subseteq {s \in C : \E i \in 2..k : Closed(steps[i].net, s)}
  BY <1>1
<1>. QED
  BY <1>2, <1>3 DEF CoveredBy

\* What was done once stays done.
LEMMA DoneMonotone ==
    ASSUME NEW C, NEW steps, NEW k \in Nat \ {0}
    PROVE  /\ DoneBefore(C, steps, k) => DoneAfter(C, steps, k)
           /\ DoneAfter(C, steps, k) <=> \E j \in 1..k : DoneAfter(C, steps, j)
<1>1. ASSUME NEW j \in 1..k, DoneAfter(C, steps, j)
      PROVE  DoneAfter(C, steps, k)
  BY <1>1, CoveredMonotone DEF DoneAfter
<1>2. k \in 1..k /\ 1..(k - 1) \subseteq 1..k
  OBVIOUS
<1>. QED
  BY <1>1, <1>2 DEF DoneBefore

\* What the row holds in the end.
LEMMA ExpectedLeft ==
    ASSUME NEW C, NEW steps, NEW k \in Nat \ {0}
    PROVE  /\ DoneAfter(C, steps, k)
                 => /\ RowLeft(Expected(C, steps, k)).Achieved
                    /\ RowLeft(Expected(C, steps, k)).VisitedStations = {}
           /\ ~DoneAfter(C, steps, k)
                 => /\ ~RowLeft(Expected(C, steps, k)).Achieved
                    /\ RowLeft(Expected(C, steps, k)).VisitedStations = C \cap CoveredBy(C, steps, k)
<1>. DEFINE row == RowLeft(Expected(C, steps, k))
<1>1. CASE DoneAfter(C, steps, k)
  <2>1. row = [Achieved |-> TRUE, VisitedStations |-> {}]
    BY <1>1, ExpectedRow
  <2>. HIDE DEF row
  <2>2. row.Achieved = TRUE /\ row.VisitedStations = {}
    BY <2>1
  <2>. QED
    BY <1>1, <2>2, Zenon DEF row
<1>2. CASE ~DoneAfter(C, steps, k)
  <2>1. row = [Achieved |-> FALSE, VisitedStations |-> C \cap CoveredBy(C, steps, k)]
    BY <1>2, ExpectedRow, DoneMonotone
  <2>. HIDE DEF row
  <2>2. row.Achieved = FALSE /\ row.VisitedStations = C \cap CoveredBy(C, steps, k)
    BY <2>1
  <2>. QED
    BY <1>2, <2>2, Zenon DEF row
<1>. QED
  BY <1>1, <1>2, Zenon

\* For any finite set of stations, any trips over any stations, and any maps at
\* the times of the trips: no visit is forgotten, and who has been everywhere
\* that was open is granted the achievement, once
\* (posplay/achievementstrategies.go VisitStationsAchievementStrategy).
THEOREM VisitsForAnyTrips ==
    ASSUME NEW C, IsFiniteSet(C), "none" \notin C, NEW S, NEW steps \in Seq(S)
    PROVE  VisitsRememberedIn([Stations |-> C, SingleTrip |-> FALSE], steps)
<1>. DEFINE n == Len(steps)
            outcomes == Outcomes(Over(C), steps)
<1>1. n \in Nat /\ DOMAIN steps = 1..n
  OBVIOUS
<1>2. \A k \in 1..n : outcomes[k] = Expected(C, steps, k)
  BY <1>1, OutcomesExpected DEF Upto
<1>3. Over(C).Stations = C /\ Over(C).SingleTrip = FALSE
  BY DEF Over
<1>. HIDE DEF outcomes, n
<1>4. ASSUME NEW k \in 1..n
      PROVE  /\ outcomes[k].granted <=> DoneAfter(C, steps, k) /\ \A j \in 1..(k - 1) : ~DoneAfter(C, steps, j)
             /\ RowLeft(outcomes[k]).Achieved <=> \E j \in 1..k : DoneAfter(C, steps, j)
             /\ \/ DoneAfter(C, steps, k)
                \/ \A j \in 1..k : RowLeft(outcomes[j]).VisitedStations \subseteq RowLeft(outcomes[k]).VisitedStations
             /\ StationsMissing(Over(C), RowLeft(outcomes[k]), steps[k].net) \cap CoveredBy(C, steps, k) = {}
             /\ VisitStationsProgress(Over(C), RowLeft(outcomes[k]), steps[k].net).current <= Cardinality(C)
  <2>. DEFINE row == RowLeft(outcomes[k])
  <2>1. k \in Nat \ {0} /\ outcomes[k] = Expected(C, steps, k)
    BY <1>1, <1>2
  <2>2. outcomes[k].granted <=> DoneAfter(C, steps, k) /\ \A j \in 1..(k - 1) : ~DoneAfter(C, steps, j)
    <3>1. Expected(C, steps, k).granted <=> DoneAfter(C, steps, k) /\ \A j \in 1..(k - 1) : ~DoneAfter(C, steps, j)
      BY ExpectedGrant, Zenon DEF DoneBefore
    <3>. QED
      BY <2>1, <3>1, Zenon
  <2>3. row.Achieved <=> \E j \in 1..k : DoneAfter(C, steps, j)
    <3>1. RowLeft(Expected(C, steps, k)).Achieved <=> DoneAfter(C, steps, k)
      BY <2>1, ExpectedLeft, Zenon
    <3>2. DoneAfter(C, steps, k) <=> \E j \in 1..k : DoneAfter(C, steps, j)
      BY <2>1, DoneMonotone
    <3>. QED
      BY <2>1, <3>1, <3>2, Zenon
  <2>4. ASSUME NEW j \in 1..k, ~DoneAfter(C, steps, k)
        PROVE  RowLeft(outcomes[j]).VisitedStations \subseteq row.VisitedStations
    <3>1. j \in 1..n /\ j \in Nat \ {0} /\ k \in Nat
      BY <1>1
    <3>2. CoveredBy(C, steps, j) \subseteq CoveredBy(C, steps, k)
      BY <3>1, CoveredMonotone
    <3>3. ~DoneAfter(C, steps, j)
      BY <2>4, <3>2 DEF DoneAfter
    <3>4. RowLeft(outcomes[j]).VisitedStations = C \cap CoveredBy(C, steps, j)
      <4>1. RowLeft(Expected(C, steps, j)).VisitedStations = C \cap CoveredBy(C, steps, j)
        BY <3>1, <3>3, ExpectedLeft, Zenon
      <4>2. outcomes[j] = Expected(C, steps, j)
        BY <1>2, <3>1
      <4>. QED
        BY <4>1, <4>2
    <3>5. row.VisitedStations = C \cap CoveredBy(C, steps, k)
      <4>1. RowLeft(Expected(C, steps, k)).VisitedStations = C \cap CoveredBy(C, steps, k)
        BY <2>1, <2>4, ExpectedLeft, Zenon
      <4>. QED
        BY <2>1, <4>1
    <3>. QED
      BY <3>2, <3>4, <3>5
  <2>5. row.VisitedStations \subseteq C /\ row.VisitedStations \in {{}, C \cap CoveredBy(C, steps, k)}
    <3>1. RowLeft(Expected(C, steps, k)).VisitedStations \in {{}, C \cap CoveredBy(C, steps, k)}
      <4>1. CASE DoneAfter(C, steps, k)
        BY <2>1, <4>1, ExpectedLeft, Zenon
      <4>2. CASE ~DoneAfter(C, steps, k)
        BY <2>1, <4>2, ExpectedLeft, Zenon
      <4>. QED
        BY <4>1, <4>2
    <3>2. row.VisitedStations \in {{}, C \cap CoveredBy(C, steps, k)}
      BY <2>1, <3>1
    <3>. QED
      BY <3>2
  <2>6. row # NoRow
    <3>1. NoRow.VisitedStations = {"none"}
      BY DEF NoRow
    <3>. QED
      BY <2>5, <3>1
  <2>. HIDE DEF row
  <2>7. StationsMissing(Over(C), row, steps[k].net) \cap CoveredBy(C, steps, k) = {}
    <3>1. CASE row.VisitedStations = {}
      <4>1. Cardinality({}) = 0
        <5>1. Cardinality({}) = Cardinality({})
          BY DEF Cardinality, Cardinality
        <5>. QED
          BY <5>1, FS_EmptySet
      <4>2. StationsMissing(Over(C), row, steps[k].net) = {}
        BY <1>3, <3>1, <4>1 DEF StationsMissing
      <4>. QED
        BY <4>2
    <3>2. CASE row.VisitedStations = C \cap CoveredBy(C, steps, k)
      <4>1. StationsMissing(Over(C), row, steps[k].net) \subseteq C \ row.VisitedStations
        BY <1>3 DEF StationsMissing
      <4>. QED
        BY <3>2, <4>1
    <3>. QED
      BY <2>5, <3>1, <3>2
  <2>8. VisitStationsProgress(Over(C), row, steps[k].net).current <= Cardinality(C)
    <3>. DEFINE open == {s \in row.VisitedStations : ~Closed(steps[k].net, s)}
    <3>1. open \subseteq C
      BY <2>5
    <3>2. IsFiniteSet(open) /\ Cardinality(open) <= Cardinality(C) /\ Cardinality(C) \in Nat
      BY <3>1, FS_Subset, FS_CardinalityType
    <3>3. \A Q : Cardinality(Q) = Cardinality(Q)
      BY DEF Cardinality, Cardinality
    <3>4. VisitStationsProgress(Over(C), row, steps[k].net).current = Cardinality(open)
      BY <1>3, <2>6 DEF VisitStationsProgress
    <3>. HIDE DEF open
    <3>. QED
      BY <3>2, <3>3, <3>4
  <2>. QED
    BY <2>2, <2>3, <2>4, <2>7, <2>8, Zenon DEF row
<1>. QED
  <2>1. [Stations |-> C, SingleTrip |-> FALSE] = Over(C)
    BY DEF Over
  <2>2. VisitsRememberedIn(Over(C), steps)
    <3>1. \A k : Covered(Over(C), steps, k) = CoveredBy(C, steps, k)
      BY DEF Covered, CoveredBy, Over
    <3>2. \A k : DoneAfter(C, steps, k) <=> Over(C).Stations \subseteq Covered(Over(C), steps, k)
      BY <1>3, <3>1 DEF DoneAfter
    <3>3. Cardinality(C) = Cardinality(Over(C).Stations)
      BY <1>3
    <3>. HIDE DEF Over
    <3>. QED
      BY <1>1, <1>4, <3>1, <3>2, <3>3, Zenon DEF VisitsRememberedIn, outcomes
  <2>. QED
    BY <2>1, <2>2, Zenon

-----------------------------------------------------------------------------
(***************************************************************************)
(* Achievements for one trip: the narrower never comes without the wider.  *)
(***************************************************************************)
\* What is in one sequence is in the other.
Among(few, many) == \A k \in DOMAIN few : \E m \in DOMAIN many : few[k] = many[m]

Places(fast) == {fast[i].Station : i \in DOMAIN fast}

Haystack(fast) == [i \in DOMAIN fast |-> fast[i].Station]

\* A trip throughout a line, in either direction, visits what is open of it.
LEMMA ThroughoutVisits ==
    ASSUME NEW S, NEW open \in Seq(S), NEW needle, needle = open \/ needle = Reverse(open),
           NEW P, NEW haystack \in Seq(P), StringContains(haystack, needle)
    PROVE  Among(open, haystack)
<1>1. needle \in Seq(S) /\ Len(needle) = Len(open)
  BY DEF Reverse
<1>2. PICK i \in 1..(Len(haystack) - Len(needle) + 1) : SubSeq(haystack, i, i + Len(needle) - 1) = needle
  BY Zenon DEF StringContains
<1>3. ASSUME NEW k \in DOMAIN needle
      PROVE  needle[k] = haystack[i + k - 1] /\ i + k - 1 \in DOMAIN haystack
  <2>1. k \in 1..Len(needle) /\ Len(needle) \in Nat /\ Len(haystack) \in Nat
    BY <1>1
  <2>2. SubSeq(haystack, i, i + Len(needle) - 1)[k] = haystack[i + k - 1]
    BY <1>1, <2>1
  <2>3. i + k - 1 \in DOMAIN haystack
    BY <2>1
  <2>. QED
    BY <1>2, <2>2, <2>3, Zenon
<1>. SUFFICES ASSUME NEW k \in DOMAIN open
              PROVE  \E m \in DOMAIN haystack : open[k] = haystack[m]
  BY DEF Among
<1>4. \E j \in DOMAIN needle : open[k] = needle[j]
  <2>1. CASE needle = open
    BY <2>1
  <2>2. CASE needle = Reverse(open)
    <3>1. Len(open) - k + 1 \in 1..Len(open) /\ Len(open) - (Len(open) - k + 1) + 1 = k
      OBVIOUS
    <3>2. needle[Len(open) - k + 1] = open[k]
      BY <2>2, <3>1 DEF Reverse
    <3>. QED
      BY <1>1, <3>1, <3>2
  <2>. QED
    BY <2>1, <2>2
<1>. QED
  BY <1>3, <1>4

\* The stations of what is kept of a trip.
LEMMA PlacesOf ==
    ASSUME NEW U, NEW fast \in Seq(U)
    PROVE  Haystack(fast) \in Seq(Places(fast)) /\ DOMAIN Haystack(fast) = DOMAIN fast
<1>1. Len(fast) \in Nat /\ DOMAIN fast = 1..Len(fast)
  OBVIOUS
<1>2. Haystack(fast) \in [1..Len(fast) -> Places(fast)] /\ DOMAIN Haystack(fast) = DOMAIN fast
  BY <1>1 DEF Haystack, Places
<1>. QED
  BY <1>1, <1>2

\* For any trip and any map whose lines have stations of one network
\* (posplay/achievementstrategies.go).
THEOREM ScopesForAnyTrip ==
    ASSUME NEW S, NEW U, NEW trip \in Seq(U), NEW net, NEW line, NEW direction, NEW disturbed,
           line \notin {"*", ""}, net.lines[line] \in Seq(S), line \in DOMAIN net.lines,
           \A i \in DOMAIN net.lines[line] : net.networkOf[net.lines[line][i]] = net.networkOfLine[line]
    PROVE  WiderScopesIn(line, direction, trip, net, disturbed)
<1>. DEFINE open == OpenStations(net, line)
            fast == Only(trip, {use \in Range(trip) : ~use.Manual})
            haystack == [i \in DOMAIN fast |-> fast[i].Station]
            throughout == [Line |-> line, Direction |-> direction]
            allStations == [Stations |-> Range(open), SingleTrip |-> TRUE]
            During(l, n) == TripDuringDisturbance([Line |-> l, Network |-> n], NoRow, trip, net, disturbed).granted
            network == net.networkOfLine[line]
<1>1. open \in Seq(S)
  BY OnlyFacts, Zenon DEF OpenStations
<1>2. ASSUME VisitThroughoutLine(throughout, NoRow, trip, net).granted
      PROVE  VisitStations(allStations, NoRow, trip, net).granted
  <2>1. \E needle \in Needles(throughout, net) : StringContains(haystack, needle)
    BY <1>2, Zenon DEF VisitThroughoutLine, Nothing
  <2>2. PICK needle \in Needles(throughout, net) : StringContains(haystack, needle)
    BY <2>1, Zenon
  <2>3. needle = open \/ needle = Reverse(open)
    BY Zenon DEF Needles
  <2>4. /\ fast \in Seq(U)
        /\ \A i \in DOMAIN fast : \E j \in DOMAIN trip : fast[i] = trip[j] /\ trip[j] \in {use \in Range(trip) : ~use.Manual}
    BY OnlyFacts, Zenon
  <2>. HIDE DEF fast, open
  <2>14. fast \in Seq(U)
    BY <2>4, Zenon
  <2>5. haystack \in Seq(Places(fast)) /\ DOMAIN haystack = DOMAIN fast
    <3>1. haystack = Haystack(fast)
      BY Zenon DEF Haystack
    <3>. HIDE DEF haystack
    <3>. QED
      BY <2>14, <3>1, PlacesOf, Zenon
  <2>6. \A m \in DOMAIN haystack : haystack[m] \in Visited(trip)
    BY <2>4, <2>5, Zenon DEF Visited
  <2>. HIDE DEF haystack
  <2>13. Among(open, haystack)
    <3>1. StringContains(haystack, needle) /\ haystack \in Seq(Places(fast))
      BY <2>2, <2>5, Zenon
    <3>. QED
      BY <1>1, <2>3, <3>1, ThroughoutVisits, Zenon
  <2>7. \A k \in DOMAIN open : open[k] \in Visited(trip)
    BY <2>6, <2>13, Zenon DEF Among
  <2>8. Range(open) \subseteq Visited(trip)
    BY <2>7, Zenon DEF Range
  <2>9. LeftToVisit(allStations, NoRow, trip, net) = {}
    BY <2>8, Zenon DEF LeftToVisit
  <2>10. allStations.SingleTrip = TRUE
    BY Zenon
  <2>11. VisitStations(allStations, NoRow, trip, net) = Granted(NoRow)
    BY <2>9, <2>10, Zenon DEF VisitStations
  <2>12. Granted(NoRow).granted = TRUE
    BY Zenon DEF Granted
  <2>. QED
    BY <2>11, <2>12, Zenon
<1>. HIDE DEF open, fast
<1>3. ASSUME NEW l, NEW n
      PROVE  LET config == [Line |-> l, Network |-> n]
             IN  During(l, n) <=>
                     /\ Len(trip) >= 2
                     /\ HadDisturbances(config, net, disturbed)
                     /\ \/ DisturbanceScope(config) = "any"
                        \/ \E i \in 2..Len(trip) : /\ Affected(config, net, trip[i - 1].Station)
                                                   /\ Affected(config, net, trip[i].Station)
  <2>1. Granted(NoRow).granted = TRUE /\ Nothing(NoRow).granted = FALSE
    BY Zenon DEF Granted, Nothing
  <2>. QED
    BY <2>1, Zenon DEF TripDuringDisturbance
<1>. DEFINE OfLine == [Line |-> line, Network |-> "*"]
            OfNetwork == [Line |-> "*", Network |-> network]
            OfAny == [Line |-> "*", Network |-> "*"]
<1>4. /\ DisturbanceScope(OfLine) = "line"
      /\ DisturbanceScope(OfNetwork) \in {"network", "any"}
      /\ DisturbanceScope(OfAny) = "any"
  BY Zenon DEF DisturbanceScope, All
<1>5. /\ HadDisturbances(OfLine, net, disturbed) <=> line \in disturbed
      /\ HadDisturbances(OfNetwork, net, disturbed)
            <=> IF DisturbanceScope(OfNetwork) = "network"
                THEN \E l \in disturbed : net.networkOfLine[l] = network ELSE disturbed # {}
      /\ HadDisturbances(OfAny, net, disturbed) <=> disturbed # {}
  BY <1>4, Zenon DEF HadDisturbances
<1>6. /\ \A s : Affected(OfLine, net, s) <=> line \in LinesOf(net, s)
      /\ DisturbanceScope(OfNetwork) = "network" => \A s : Affected(OfNetwork, net, s) <=> net.networkOf[s] = network
  BY <1>4, Zenon DEF Affected
<1>7. ASSUME NEW s, line \in LinesOf(net, s)
      PROVE  net.networkOf[s] = network
  <2>1. s \in Range(net.lines[line])
    BY <1>7, Zenon DEF LinesOf
  <2>2. PICK i \in DOMAIN net.lines[line] : s = net.lines[line][i]
    BY <2>1, Zenon DEF Range
  <2>. QED
    BY <2>2, Zenon
<1>8. ASSUME During(line, "*")
      PROVE  During("*", network)
  <2>1. /\ Len(trip) >= 2 /\ line \in disturbed
        /\ \E i \in 2..Len(trip) : /\ line \in LinesOf(net, trip[i - 1].Station)
                                  /\ line \in LinesOf(net, trip[i].Station)
    <3>1. DisturbanceScope(OfLine) # "any"
      BY <1>4
    <3>. QED
      BY <1>3, <1>5, <1>6, <1>8, <3>1, Zenon
  <2>2. HadDisturbances(OfNetwork, net, disturbed)
    BY <1>5, <2>1, Zenon
  <2>3. \/ DisturbanceScope(OfNetwork) = "any"
        \/ \E i \in 2..Len(trip) : /\ Affected(OfNetwork, net, trip[i - 1].Station)
                                 /\ Affected(OfNetwork, net, trip[i].Station)
    BY <1>4, <1>6, <1>7, <2>1, Zenon
  <2>. QED
    BY <1>3, <2>1, <2>2, <2>3, Zenon
<1>9. During("*", network) => During("*", "*")
  BY <1>3, <1>4, <1>5, Zenon
<1>. QED
  BY <1>2, <1>8, <1>9, Zenon DEF WiderScopesIn, open

-----------------------------------------------------------------------------
\* In the runs' instance too.
LEMMA ScopesAskedFor ==
    ASSUME AskScopes
    PROVE  WiderScopesIn(question'.line, question'.direction, question'.step.trip, question'.step.net, question'.disturbed)
<1>. DEFINE Found == Ways \cup {<<"f", "c", "g">>, <<"f", "g">>, <<"g", "c", "d", "e">>, <<"e">>}
            Letters == {"a", "b", "c", "d", "e", "f", "g"}
<1>1. PICK way \in Found, closed \in Closable, line \in DOMAIN Lines, disturbed \in SUBSET DOMAIN Lines, direction \in {"*", "up", "down"} :
          Asks([is |-> "scopes", line |-> line, direction |-> direction, disturbed |-> disturbed,
                step |-> Step([way |-> way, manual |-> FALSE, closed |-> closed])])
  BY Zenon DEF AskScopes
<1>. DEFINE trip == [i \in DOMAIN way |-> [Station |-> way[i], Manual |-> FALSE]]
            net == MapWith(closed)
            U == [Station : {way[i] : i \in DOMAIN way}, Manual : BOOLEAN]
<1>2. way \in Seq(Letters)
  <2>1. /\ <<"a", "b", "c", "d", "e">> \in Seq(Letters) /\ <<"e", "d", "c">> \in Seq(Letters)
        /\ <<"b", "c", "g">> \in Seq(Letters) /\ <<"f", "c", "g">> \in Seq(Letters)
        /\ <<"f", "g">> \in Seq(Letters) /\ <<"g", "c", "d", "e">> \in Seq(Letters) /\ <<"e">> \in Seq(Letters)
    OBVIOUS
  <2>. HIDE DEF Letters
  <2>2. Found = {<<"a", "b", "c", "d", "e">>, <<"e", "d", "c">>, <<"b", "c", "g">>}
                \cup {<<"f", "c", "g">>, <<"f", "g">>, <<"g", "c", "d", "e">>, <<"e">>}
    BY Zenon DEF Ways
  <2>3. \/ way = <<"a", "b", "c", "d", "e">> \/ way = <<"e", "d", "c">> \/ way = <<"b", "c", "g">>
        \/ way = <<"f", "c", "g">> \/ way = <<"f", "g">> \/ way = <<"g", "c", "d", "e">> \/ way = <<"e">>
    BY <2>2, Zenon
  <2>. QED
    BY <2>1, <2>3, Zenon
<1>3. trip \in Seq(U)
  <2>1. Len(way) \in Nat /\ DOMAIN way = 1..Len(way)
    BY <1>2
  <2>2. trip \in [1..Len(way) -> U]
    BY <2>1
  <2>. HIDE DEF U
  <2>. QED
    BY <2>1, <2>2
<1>4. /\ net.lines = Lines
      /\ net.networkOf = [s \in Stations |-> "net"]
      /\ net.networkOfLine = [l \in DOMAIN Lines |-> "net"]
  BY DEF MapWith
<1>5. /\ line \in {"green", "blue"} /\ line \in DOMAIN Lines
      /\ Lines[line] \in Seq(Letters)
  <2>1. DOMAIN Lines = {"green", "blue"} /\ Lines["green"] = <<"a", "b", "c", "d", "e">> /\ Lines["blue"] = <<"f", "c", "g">>
    BY DEF Lines
  <2>2. <<"a", "b", "c", "d", "e">> \in Seq(Letters) /\ <<"f", "c", "g">> \in Seq(Letters)
    OBVIOUS
  <2>. HIDE DEF Letters
  <2>. QED
    BY <2>1, <2>2, Zenon
<1>6. \A i \in DOMAIN Lines[line] : Lines[line][i] \in Stations
  BY DEF Stations, Range
<1>. HIDE DEF net, trip, U, Letters
<1>7. \A i \in DOMAIN net.lines[line] : net.networkOf[net.lines[line][i]] = net.networkOfLine[line]
  BY <1>4, <1>6
<1>8. line \notin {"*", ""} /\ net.lines[line] \in Seq(Letters) /\ line \in DOMAIN net.lines
  BY <1>4, <1>5, Zenon
<1>9. WiderScopesIn(line, direction, trip, net, disturbed)
  BY <1>3, <1>7, <1>8, ScopesForAnyTrip, Zenon
<1>. QED
  <2>. DEFINE step == Step([way |-> way, manual |-> FALSE, closed |-> closed])
  <2>1. step = [trip |-> trip, net |-> net]
    BY DEF Step, trip, net
  <2>2. question' = [is |-> "scopes", line |-> line, direction |-> direction, disturbed |-> disturbed, step |-> step]
    BY <1>1 DEF Asks
  <2>. HIDE DEF step
  <2>3. /\ question'.line = line /\ question'.direction = direction /\ question'.disturbed = disturbed
        /\ question'.step = step
    BY <2>2
  <2>4. step.trip = trip /\ step.net = net
    BY <2>1
  <2>. QED
    BY <1>9, <2>3, <2>4

\* So it is with what the runs ask.
THEOREM VisitsAlwaysRemembered == RecordsInit /\ [][RecordsNext]_question => []VisitsRemembered
<1>1. RecordsInit => VisitsRemembered
  BY DEF RecordsInit, VisitsRemembered
<1>2. ASSUME VisitsRemembered, [RecordsNext]_question
      PROVE  VisitsRemembered'
  <2>1. CASE AskVisits
    <3>1. PICK first \in Steps, second \in Steps, third \in Steps :
              Asks([is |-> "visits", steps |-> <<Step(first), Step(second), Step(third)>>])
      BY <2>1, Zenon DEF AskVisits
    <3>. DEFINE steps == <<Step(first), Step(second), Step(third)>>
    <3>2. steps \in Seq({Step(first), Step(second), Step(third)})
      OBVIOUS
    <3>3. question'.is = "visits" /\ question'.steps = steps
      BY <3>1 DEF Asks
    <3>. HIDE DEF steps
    <3>4. IsFiniteSet(Spots) /\ "none" \notin Spots
      <4>1. IsFiniteSet(Spots)
        <5>1. Spots = ({"a"} \cup {"b"}) \cup {"d"}
          BY DEF Spots
        <5>2. IsFiniteSet({"a"}) /\ IsFiniteSet({"b"}) /\ IsFiniteSet({"d"})
          BY FS_Singleton, Zenon
        <5>. QED
          BY <5>1, <5>2, FS_Union, Zenon
      <4>. QED
        BY <4>1 DEF Spots
    <3>5. VisitsRememberedIn([Stations |-> Spots, SingleTrip |-> FALSE], steps)
      BY <3>2, <3>4, VisitsForAnyTrips
    <3>. QED
      BY <3>3, <3>5 DEF VisitsRemembered
  <2>2. CASE AskScopes
    <3>1. question'.is = "scopes"
      BY <2>2 DEF AskScopes, Asks
    <3>. QED
      BY <2>2, <3>1, ScopesAskedFor DEF VisitsRemembered
  <2>3. CASE UNCHANGED question
    BY <1>2, <2>3 DEF VisitsRemembered
  <2>4. CASE RecordsNext /\ ~AskVisits /\ ~AskScopes
    BY <2>4, OtherQuestions DEF VisitsRemembered
  <2>. QED
    BY <1>2, <2>1, <2>2, <2>3, <2>4
<1>. QED
  BY <1>1, <1>2, PTL

\* Those of the run are such.
LEMMA RunSchedules ==
    ASSUME NEW line, line.schedules \in Schedules
    PROVE  OpensInTurn(line)
<1>. USE RecordsAssumption, DayLengthAssumption
<1>1. \A open \in 1..2, duration \in Nat :
          \A s \in Weekly(open, duration) : s \in Schedule /\ s.OpenTime = open /\ s.OpenDuration = duration
  <2>. SUFFICES ASSUME NEW open \in 1..2, NEW duration \in Nat, NEW s \in Weekly(open, duration)
                PROVE  s \in Schedule /\ s.OpenTime = open /\ s.OpenDuration = duration
    OBVIOUS
  <2>1. PICK d \in 0..6 : s = [Holiday |-> FALSE, Day |-> d, OpenTime |-> open, OpenDuration |-> duration]
    BY DEF Weekly
  <2>2. open \in 0..(DayLength - 1) /\ d \in Nat
    OBVIOUS
  <2>. QED
    BY <2>1, <2>2 DEF Schedule
<1>2. \A open \in 1..2, duration \in Nat, day \in Nat :
          LET s == Festive(day, open, duration)
          IN  s \in Schedule /\ s.OpenTime = open /\ s.OpenDuration = duration
  BY DEF Festive, Schedule
<1>3. \A open \in 1..2, duration \in Nat : \A d \in 0..6 : \A more : OfDay(Weekly(open, duration) \cup more, FALSE, d) # {}
  <2>. SUFFICES ASSUME NEW open \in 1..2, NEW duration \in Nat, NEW d \in 0..6, NEW more
                PROVE  OfDay(Weekly(open, duration) \cup more, FALSE, d) # {}
    BY Zenon
  <2>. DEFINE s == [Holiday |-> FALSE, Day |-> d, OpenTime |-> open, OpenDuration |-> duration]
  <2>1. s \in Weekly(open, duration) /\ s.Holiday = FALSE /\ s.Day = d
    BY Zenon DEF Weekly
  <2>. HIDE DEF s
  <2>2. s \in OfDay(Weekly(open, duration) \cup more, FALSE, d)
    BY <2>1 DEF OfDay
  <2>. QED
    BY <2>2, Zenon
<1>4. DayLength \in Nat /\ DayLength - 1 \in Nat /\ 1 \in 1..2 /\ 2 \in 1..2 /\ 0 \in Nat /\ 1 \in Nat /\ 4 \in Nat
  OBVIOUS
<1>5. CASE line.schedules = Weekly(1, DayLength - 1)
  <2>1. line.schedules \subseteq Schedule /\ \A s \in line.schedules : s.OpenTime = 1 /\ s.OpenDuration = DayLength - 1
    BY <1>1, <1>4, <1>5
  <2>2. \A s, t \in line.schedules : s.OpenTime + s.OpenDuration <= DayLength + t.OpenTime
    BY <1>4, <2>1
  <2>3. Weekly(1, DayLength - 1) \cup {} = line.schedules
    BY <1>5
  <2>4. \A d \in 0..6 : OfDay(line.schedules, FALSE, d) # {}
    BY <1>3, <1>4, <2>3, Zenon
  <2>. QED
    BY <2>1, <2>2, <2>4, SchedulesInTurn, Zenon
<1>6. CASE line.schedules = Weekly(1, DayLength) \cup {Festive(0, 2, 1)}
  <2>1. /\ line.schedules \subseteq Schedule
        /\ \A s \in line.schedules : /\ s.OpenTime \in 1..2
                                     /\ s.OpenDuration \in {1, DayLength}
                                     /\ s.OpenDuration = DayLength => s.OpenTime = 1 \/ DayLength = 1
    <3>1. \A s \in Weekly(1, DayLength) : s \in Schedule /\ s.OpenTime = 1 /\ s.OpenDuration = DayLength
      BY <1>1, <1>4
    <3>2. Festive(0, 2, 1) \in Schedule /\ Festive(0, 2, 1).OpenTime = 2 /\ Festive(0, 2, 1).OpenDuration = 1
      BY <1>2, <1>4
    <3>. QED
      BY <1>6, <3>1, <3>2
  <2>2. \A s, t \in line.schedules : s.OpenTime + s.OpenDuration <= DayLength + t.OpenTime
    BY <1>4, <2>1
  <2>3. \A d \in 0..6 : OfDay(line.schedules, FALSE, d) # {}
    BY <1>3, <1>4, <1>6, Zenon
  <2>. QED
    BY <2>1, <2>2, <2>3, SchedulesInTurn, Zenon
<1>7. CASE line.schedules = Weekly(1, 1) \cup {Festive(0, 2, 1), Festive(4, 1, 0)}
  <2>1. /\ line.schedules \subseteq Schedule
        /\ \A s \in line.schedules : s.OpenTime \in 1..2 /\ s.OpenDuration \in 0..1
    <3>1. \A s \in Weekly(1, 1) : s \in Schedule /\ s.OpenTime = 1 /\ s.OpenDuration = 1
      BY <1>1, <1>4
    <3>2. Festive(0, 2, 1) \in Schedule /\ Festive(0, 2, 1).OpenTime = 2 /\ Festive(0, 2, 1).OpenDuration = 1
      BY <1>2, <1>4
    <3>3. Festive(4, 1, 0) \in Schedule /\ Festive(4, 1, 0).OpenTime = 1 /\ Festive(4, 1, 0).OpenDuration = 0
      BY <1>2, <1>4
    <3>. QED
      BY <1>7, <3>1, <3>2, <3>3
  <2>2. \A s, t \in line.schedules : s.OpenTime + s.OpenDuration <= DayLength + t.OpenTime
    BY <1>4, <2>1
  <2>3. \A d \in 0..6 : OfDay(line.schedules, FALSE, d) # {}
    BY <1>3, <1>4, <1>7, Zenon
  <2>. QED
    BY <2>1, <2>2, <2>3, SchedulesInTurn, Zenon
<1>. QED
  BY <1>5, <1>6, <1>7 DEF Schedules

\* In the runs' instance too.
THEOREM DowntimeAlwaysCountedOnce == RecordsInit /\ [][RecordsNext]_question => []DowntimeCountedOnce
<1>1. RecordsInit => DowntimeCountedOnce
  BY DEF RecordsInit, DowntimeCountedOnce
<1>2. ASSUME DowntimeCountedOnce, [RecordsNext]_question
      PROVE  DowntimeCountedOnce'
  <2>1. CASE AskStatistics
    <3>1. PICK history \in Histories, schedules \in Schedules, official \in BOOLEAN, length \in 1..2 :
              Asks([is |-> "statistics", official |-> official, days |-> length, now |-> 5 * DayLength,
                    line |-> [schedules |-> schedules, holidays |-> <<4>>,
                              disturbances |-> FoldLeft(AddStatus, NoRows, history).disturbances]])
      BY <2>1, Zenon DEF AskStatistics
    <3>. DEFINE ds == FoldLeft(AddStatus, NoRows, history).disturbances
                line == [schedules |-> schedules, holidays |-> <<4>>, disturbances |-> ds]
    <3>2. PICK n \in 1..3 : history \in [1..n -> StatusesAt]
      BY DEF Histories
    <3>3. history \in [1..n -> Status]
      <4>1. StatusesAt \subseteq Status
        BY RecordsAssumption, DayLengthAssumption DEF StatusesAt, Status, StatusHours
      <4>. QED
        BY <3>2, <4>1
    <3>4. \A i, j \in DOMAIN history : i < j => history[i].Time < history[j].Time
      BY DEF Histories
    <3>5. ds \in SUBSET Disturbance /\ IsFiniteSet(ds) /\ Disjoint(ds) /\ WellTimed(ds)
      BY <3>2, <3>3, <3>4, RowsAfterHistory
    <3>. HIDE DEF ds
    <3>6. 5 * DayLength \in Nat
      BY DayLengthAssumption
    <3>7. FollowOneAnother(ds, official, 5 * DayLength)
      BY <3>5, <3>6, RowsFollow
    <3>8. line.disturbances = ds /\ line.schedules \in Schedules
      OBVIOUS
    <3>9. question'.line = line /\ question'.days = length /\ question'.official = official /\ question'.now = 5 * DayLength
      BY <3>1 DEF Asks, ds
    <3>. HIDE DEF line
    <3>10. OpensInTurn(line)
      BY <3>8, RunSchedules
    <3>11. DowntimeCountedOnceIn(line, 3, length, official, 5 * DayLength)
      <4>1. 3 \in Int /\ length \in Nat
        OBVIOUS
      <4>. QED
        BY <3>7, <3>8, <3>10, <4>1, DowntimeForAnyRows
    <3>. QED
      BY <3>9, <3>11 DEF DowntimeCountedOnce
  <2>2. CASE UNCHANGED question
    BY <1>2, <2>2 DEF DowntimeCountedOnce
  <2>3. CASE RecordsNext /\ ~AskStatistics
    <3>1. question'.is # "statistics"
      BY <2>3, OtherQuestions
    <3>. QED
      BY <3>1 DEF DowntimeCountedOnce
  <2>. QED
    BY <1>2, <2>1, <2>2, <2>3
<1>. QED
  BY <1>1, <1>2, PTL

-----------------------------------------------------------------------------
(***************************************************************************)
(* Maps: the rows of connections, of which two do not join the same        *)
(* stations; lines, whose stations are connected both ways. No two ways    *)
(* past closed stations lead to the same one, nor does one that passes     *)
(* none: without that GetConnection would have to choose.                  *)
(***************************************************************************)
IsRow(c) ==
    /\ c = [From |-> c.From, To |-> c.To, TypicalSeconds |-> c.TypicalSeconds,
            TypicalStopSeconds |-> c.TypicalStopSeconds, TypicalWaitingSeconds |-> c.TypicalWaitingSeconds,
            WorldLength |-> c.WorldLength, FromPlatform |-> c.FromPlatform, ToPlatform |-> c.ToPlatform, parts |-> <<>>]
    /\ c.TypicalSeconds \in Nat
    /\ c.From # c.To

\* Rows of connections, each of its stations, and no two closed stations connected.
KeyedRows(net) ==
    /\ \A c \in net.connections : IsRow(c) /\ ~(Closed(net, c.From) /\ Closed(net, c.To))
    /\ \A c, d \in net.connections : c.From = d.From /\ c.To = d.To => c = d

\* One row leads on from a closed station that the other leads to.
Through(net, c, d) == d.From = c.To /\ Closed(net, c.To) /\ c.From # d.To

OneWay(net) ==
    /\ \A c, d, e \in net.connections : Through(net, c, d) => ~(e.From = c.From /\ e.To = d.To)
    /\ \A c, d, e, f \in net.connections :
          Through(net, c, d) /\ Through(net, e, f) /\ e.From = c.From /\ f.To = d.To => e.To = c.To

\* Stations of a line, each once, connected with the next and the one before.
IsLine(net, line) ==
    /\ line = [i \in 1..Len(line) |-> line[i]] /\ Len(line) \in Nat
    /\ \A i, j \in 1..Len(line) : line[i] = line[j] => i = j
    /\ \A i, j \in 1..Len(line) : i = j + 1 \/ j = i + 1 =>
          \E c \in net.connections : c.From = line[i] /\ c.To = line[j]

WellMapped(net) ==
    /\ KeyedRows(net) /\ OneWay(net)
    /\ \A l \in DOMAIN net.lines : IsLine(net, net.lines[l]) /\ "none" \notin Range(net.lines[l])

\* The connections of a map; the one between two stations, and its row.
AllOf(net) == GetConnections(net, TRUE)

AnyFrom(net, s, t) == GetConnection(net, s, t, TRUE)

RowFrom(net, s, t) == GetConnection(net, s, t, FALSE)

\* What a joined connection is.
LEMMA JoinedOf ==
    ASSUME NEW c, NEW d, IsRow(c)
    PROVE  /\ Joined(c, d).From = c.From
           /\ Joined(c, d).To = d.To
           /\ Joined(c, d).TypicalSeconds = c.TypicalSeconds + d.TypicalSeconds
<1>1. PICK from, to, s, t, w, l, p, q :
         c = [From |-> from, To |-> to, TypicalSeconds |-> s, TypicalStopSeconds |-> t, TypicalWaitingSeconds |-> w,
              WorldLength |-> l, FromPlatform |-> p, ToPlatform |-> q, parts |-> <<>>]
  BY Zenon DEF IsRow
<1>2. Joined(c, d).From = from
  BY <1>1 DEF Joined
<1>3. Joined(c, d).To = d.To
  BY <1>1 DEF Joined
<1>4. Joined(c, d).TypicalSeconds = s + d.TypicalSeconds
  BY <1>1 DEF Joined
<1>. QED
  BY <1>1, <1>2, <1>3, <1>4

\* Connections, also those past closed stations.
LEMMA ConnectionsAre ==
    ASSUME NEW net, NEW c
    PROVE  c \in AllOf(net) <=>
              \/ c \in net.connections /\ ~Closed(net, c.To)
              \/ \E a, b \in net.connections :
                    Through(net, a, b) /\ SharesLine(net, a.From, b.To) /\ c = Joined(a, b)
BY DEF AllOf, GetConnections, provideClosedCompat, Candidates, Through

\* Of two stations there is but one.
LEMMA OnlyConnection ==
    ASSUME NEW net, KeyedRows(net), OneWay(net), NEW c \in AllOf(net)
    PROVE  AnyFrom(net, c.From, c.To) = c
<1>1. ASSUME NEW x \in AllOf(net), NEW y \in AllOf(net),
             x.From = y.From, x.To = y.To
      PROVE  x = y
  <2>. DEFINE RowOf(u) == u \in net.connections /\ ~Closed(net, u.To)
              Joins(u, a, b) == Through(net, a, b) /\ u = Joined(a, b)
  <2>1. /\ RowOf(x) \/ \E a, b \in net.connections : Joins(x, a, b)
        /\ RowOf(y) \/ \E a, b \in net.connections : Joins(y, a, b)
    <3>1. ASSUME NEW u, u \in AllOf(net), ~RowOf(u)
          PROVE  \E a, b \in net.connections : Joins(u, a, b)
      <4>1. PICK a \in net.connections, b \in net.connections :
                Through(net, a, b) /\ SharesLine(net, a.From, b.To) /\ u = Joined(a, b)
        BY <3>1, ConnectionsAre
      <4>. QED
        BY <4>1, Zenon
    <3>. QED
      BY <1>1, <3>1, Zenon
  <2>2. ASSUME NEW u, NEW a \in net.connections, NEW b \in net.connections, Joins(u, a, b)
        PROVE  u.From = a.From /\ u.To = b.To
    BY <2>2, JoinedOf DEF KeyedRows
  <2>3. CASE RowOf(x) /\ RowOf(y)
    BY <1>1, <2>3 DEF KeyedRows
  <2>4. ASSUME NEW u \in net.connections, NEW v, NEW a \in net.connections, NEW b \in net.connections, Joins(v, a, b),
               u.From = v.From, u.To = v.To
        PROVE  FALSE
    BY <2>2, <2>4 DEF OneWay
  <2>5. ASSUME NEW a \in net.connections, NEW b \in net.connections, Joins(x, a, b),
               NEW e \in net.connections, NEW f \in net.connections, Joins(y, e, f)
        PROVE  x = y
    <3>1. x.From = a.From /\ x.To = b.To /\ y.From = e.From /\ y.To = f.To
      BY <2>2, <2>5
    <3>2. e.To = a.To
      BY <1>1, <2>5, <3>1 DEF OneWay
    <3>3. e = a
      BY <1>1, <3>1, <3>2 DEF KeyedRows
    <3>4. f = b
      BY <1>1, <2>5, <3>1, <3>3 DEF KeyedRows, Through
    <3>. QED
      BY <2>5, <3>3, <3>4
  <2>. QED
    BY <1>1, <2>1, <2>3, <2>4, <2>5
<1>2. c \in {x \in AllOf(net) : x.From = c.From /\ x.To = c.To}
  OBVIOUS
<1>. QED
  BY <1>1, <1>2 DEF AnyFrom, AllOf, GetConnection

\* Of two stations there is one row.
LEMMA OnlyRow ==
    ASSUME NEW net, KeyedRows(net), NEW c \in net.connections
    PROVE  RowFrom(net, c.From, c.To) = c
<1>1. c \in {x \in net.connections : x.From = c.From /\ x.To = c.To}
  OBVIOUS
<1>2. \A x \in {x \in net.connections : x.From = c.From /\ x.To = c.To} : x = c
  BY DEF KeyedRows
<1>. QED
  BY <1>1, <1>2 DEF RowFrom, GetConnection, GetConnections

\* One amount is its total, and so are two.
LEMMA SumsOfFew ==
    ASSUME NEW w, w \in [1..2 -> Nat]
    PROVE  /\ SumOf([k \in 1..1 |-> w[k]]) = w[1]
           /\ SumOf([k \in 1..2 |-> w[k]]) = w[1] + w[2]
<1>1. IsFiniteSet(1..2)
  <2>1. \A n \in Nat : IsFiniteSet(1..n)
    BY FS_Interval
  <2>. QED
    BY <2>1
<1>2. PICK g : TotalsOf(g, w, 1..2)
  BY <1>1, Totals
<1>3. \A v : SumOf(v) = Total(v)
  BY DEF SumOf, MapThenSumSet, MapThenFoldSet, Total, MapThenSumSet, MapThenFoldSet
<1>4. /\ g[{} \cup {1}] = w[1] + g[{}] /\ g[{}] = 0
      /\ g[{1} \cup {2}] = w[2] + g[{1}]
  BY <1>2 DEF TotalsOf
<1>5. {} \cup {1} = 1..1 /\ {1} \cup {2} = 1..2 /\ {1} = 1..1
  OBVIOUS
<1>6. g[1..1] = w[1] /\ g[1..2] = w[2] + w[1]
  <2>1. w[1] \in Nat /\ w[2] \in Nat
    OBVIOUS
  <2>2. g[{} \cup {1}] = g[1..1] /\ g[{1} \cup {2}] = g[1..2] /\ g[{1}] = g[1..1]
    BY <1>5, Zenon
  <2>3. g[1..1] = w[1] + 0
    BY <1>4, <2>2, Zenon
  <2>4. g[1..2] = w[2] + g[1..1]
    BY <1>4, <2>2, Zenon
  <2>5. g[1..1] = w[1]
    BY <2>1, <2>3
  <2>6. g[1..2] = w[2] + w[1]
    BY <2>4, <2>5, Zenon
  <2>. QED
    BY <2>5, <2>6, Zenon
<1>7. /\ Total([k \in 1..1 |-> w[k]]) = g[1..1]
      /\ Total([k \in 1..2 |-> w[k]]) = g[1..2]
  BY <1>2 DEF TotalsOf
<1>. QED
  <2>1. w[1] \in Nat /\ w[2] \in Nat
    OBVIOUS
  <2>2. w[2] + w[1] = w[1] + w[2]
    BY <2>1
  <2>. QED
    BY <1>3, <1>6, <1>7, <2>2, Zenon

\* The line goes from one station to another, the next or the one after it.
Along(line, p, q) ==
    /\ p \in 1..Len(line) /\ q \in 1..Len(line)
    /\ q = p + 1 \/ p = q + 1 \/ q = p + 2 \/ p = q + 2

\* A connection leads to the end of the line that it leads towards.
LEMMA DirectionAlong ==
    ASSUME NEW net, NEW l, IsLine(net, net.lines[l]), NEW p, NEW q, Along(net.lines[l], p, q),
           q = p + 2 \/ p = q + 2 => Closed(net, net.lines[l][(p + q) \div 2]),
           NEW c, c.From = net.lines[l][p], c.To = net.lines[l][q]
    PROVE  GetDirectionForConnection(net, l, c) =
              IF p < q THEN Last(net.lines[l]) ELSE Head(net.lines[l])
<1>. DEFINE line == net.lines[l]
            Leads(i, j) == i \in DOMAIN line /\ j \in DOMAIN line /\ line[i] = c.From /\ line[j] = c.To
            Past(i, j) == Leads(i, j) /\ Closed(net, line[(i + j) \div 2])
            Up == \E i \in DOMAIN line : Leads(i, i + 1) \/ Past(i, i + 2)
            Down == \E i \in DOMAIN line : Leads(i, i - 1) \/ Past(i, i - 2)
<1>1. GetDirectionForConnection(net, l, c) =
          IF Up THEN Last(line) ELSE IF Down THEN Head(line) ELSE "none"
  BY Zenon DEF GetDirectionForConnection
<1>2. DOMAIN line = 1..Len(line) /\ Len(line) \in Nat /\ p \in 1..Len(line) /\ q \in 1..Len(line)
  BY DEF IsLine, Along
<1>3. \A i, j : Leads(i, j) <=> i = p /\ j = q
  BY <1>2 DEF IsLine
<1>4. Past(p, q) <=> Closed(net, line[(p + q) \div 2])
  BY <1>3
<1>. HIDE DEF Leads, Past, line
<1>5. \A i, j : Past(i, j) => i = p /\ j = q
  BY <1>3 DEF Past
<1>6. CASE p < q
  <2>1. q = p + 1 \/ q = p + 2
    BY <1>2, <1>6 DEF Along
  <2>2. Leads(p, p + 1) \/ Past(p, p + 2)
    BY <1>3, <1>4, <2>1 DEF line
  <2>3. Up
    BY <1>2, <2>2
  <2>. QED
    BY <1>1, <1>6, <2>3 DEF line
<1>7. CASE ~(p < q)
  <2>1. q = p - 1 \/ q = p - 2
    BY <1>2, <1>7 DEF Along
  <2>2. ~Up
    BY <1>2, <1>3, <1>5, <1>7
  <2>3. Leads(p, p - 1) \/ Past(p, p - 2)
    BY <1>2, <1>3, <1>4, <2>1 DEF line
  <2>4. Down
    BY <1>2, <2>3
  <2>. QED
    BY <1>1, <1>7, <2>2, <2>4 DEF line
<1>. QED
  BY <1>6, <1>7

\* A connection of some seconds that leads where the line does.
Leading(net, l, p, q, seconds) ==
    LET c == AnyFrom(net, net.lines[l][p], net.lines[l][q])
    IN  /\ c # None
        /\ c.TypicalSeconds = seconds
        /\ GetDirectionForConnection(net, l, c) =
              IF p < q THEN Last(net.lines[l]) ELSE Head(net.lines[l])

\* What the row of two stations takes.
Seconds(net, l, p, q) == RowFrom(net, net.lines[l][p], net.lines[l][q]).TypicalSeconds

\* A row that joins two stations of a line.
Joins(net, l, p, q, c) ==
    /\ c.From = net.lines[l][p] /\ c.To = net.lines[l][q]
    /\ IsRow(c) /\ c.TypicalSeconds = Seconds(net, l, p, q) /\ c.TypicalSeconds \in Nat

\* There is a row from one station to the next.
LEMMA RowAlong ==
    ASSUME NEW net, WellMapped(net), NEW l \in DOMAIN net.lines, NEW p \in 1..Len(net.lines[l]),
           NEW q \in 1..Len(net.lines[l]), q = p + 1 \/ p = q + 1
    PROVE  \E c \in net.connections : Joins(net, l, p, q, c)
<1>1. IsLine(net, net.lines[l]) /\ KeyedRows(net)
  BY DEF WellMapped
<1>2. PICK c \in net.connections : c.From = net.lines[l][p] /\ c.To = net.lines[l][q]
  BY <1>1 DEF IsLine
<1>3. RowFrom(net, c.From, c.To) = c
  BY <1>1, OnlyRow
<1>4. IsRow(c)
  BY <1>1 DEF KeyedRows
<1>5. Seconds(net, l, p, q) = c.TypicalSeconds
  BY <1>2, <1>3 DEF Seconds
<1>6. c.TypicalSeconds \in Nat
  BY <1>4 DEF IsRow
<1>. QED
  BY <1>2, <1>4, <1>5, <1>6 DEF Joins

\* A station is none of what stands for no row.
LEMMA StationsAreSome ==
    ASSUME NEW net, WellMapped(net), NEW l \in DOMAIN net.lines, NEW p \in 1..Len(net.lines[l]),
           NEW c, c.From = net.lines[l][p]
    PROVE  c # None
<1>1. None.From = "none"
  BY DEF None
<1>2. DOMAIN net.lines[l] = 1..Len(net.lines[l])
  BY DEF WellMapped, IsLine
<1>3. net.lines[l][p] \in Range(net.lines[l])
  BY <1>2 DEF Range
<1>4. net.lines[l][p] # "none"
  BY <1>3 DEF WellMapped
<1>. QED
  BY <1>1, <1>4

\* Open stations that follow one another are connected,
LEMMA NextLeads ==
    ASSUME NEW net, WellMapped(net), NEW l \in DOMAIN net.lines, NEW p \in 1..Len(net.lines[l]),
           NEW q \in 1..Len(net.lines[l]), q = p + 1 \/ p = q + 1, ~Closed(net, net.lines[l][q])
    PROVE  Leading(net, l, p, q, Seconds(net, l, p, q))
<1>1. IsLine(net, net.lines[l]) /\ KeyedRows(net) /\ OneWay(net)
  BY DEF WellMapped
<1>2. PICK c \in net.connections : Joins(net, l, p, q, c)
  BY RowAlong
<1>3. c \in AllOf(net)
  BY <1>2, ConnectionsAre DEF Joins
<1>4. AnyFrom(net, net.lines[l][p], net.lines[l][q]) = c
  BY <1>1, <1>2, <1>3, OnlyConnection DEF Joins
<1>5. Along(net.lines[l], p, q)
  BY DEF Along
<1>6. Len(net.lines[l]) \in Nat
  BY <1>1 DEF IsLine
<1>7. ~(q = p + 2 \/ p = q + 2)
  BY <1>6
<1>8. GetDirectionForConnection(net, l, c) = IF p < q THEN Last(net.lines[l]) ELSE Head(net.lines[l])
  BY <1>1, <1>2, <1>5, <1>7, DirectionAlong DEF Joins
<1>9. c # None
  BY <1>2, StationsAreSome DEF Joins
<1>. QED
  BY <1>2, <1>4, <1>8, <1>9 DEF Leading, Joins

\* and so are stations with a closed one between them.
LEMMA PastLeads ==
    ASSUME NEW net, WellMapped(net), NEW l \in DOMAIN net.lines, NEW p \in 1..Len(net.lines[l]),
           NEW x \in 1..Len(net.lines[l]), NEW q \in 1..Len(net.lines[l]),
           (x = p + 1 /\ q = p + 2) \/ (x = q + 1 /\ p = q + 2), Closed(net, net.lines[l][x])
    PROVE  Leading(net, l, p, q, Seconds(net, l, p, x) + Seconds(net, l, x, q))
<1>1. IsLine(net, net.lines[l]) /\ KeyedRows(net) /\ OneWay(net)
  BY DEF WellMapped
<1>2. PICK a \in net.connections : Joins(net, l, p, x, a)
  <2>1. x = p + 1 \/ p = x + 1
    OBVIOUS
  <2>. QED
    BY <2>1, RowAlong
<1>3. PICK b \in net.connections : Joins(net, l, x, q, b)
  <2>1. q = x + 1 \/ x = q + 1
    OBVIOUS
  <2>. QED
    BY <2>1, RowAlong
<1>4. p # q
  OBVIOUS
<1>5. Through(net, a, b)
  <2>1. net.lines[l][p] # net.lines[l][q]
    BY <1>1, <1>4 DEF IsLine
  <2>. QED
    BY <1>2, <1>3, <2>1 DEF Through, Joins
<1>6. SharesLine(net, a.From, b.To)
  <2>1. DOMAIN net.lines[l] = 1..Len(net.lines[l])
    BY <1>1 DEF IsLine
  <2>2. net.lines[l][p] \in Range(net.lines[l]) /\ net.lines[l][q] \in Range(net.lines[l])
    BY <2>1 DEF Range
  <2>. QED
    BY <1>2, <1>3, <2>2 DEF Joins, SharesLine, LinesOf
<1>. DEFINE c == Joined(a, b)
<1>7. c.From = net.lines[l][p] /\ c.To = net.lines[l][q]
      /\ c.TypicalSeconds = Seconds(net, l, p, x) + Seconds(net, l, x, q)
  BY <1>2, <1>3, JoinedOf DEF Joins
<1>8. c \in AllOf(net)
  BY <1>5, <1>6, ConnectionsAre
<1>. HIDE DEF c
<1>9. AnyFrom(net, net.lines[l][p], net.lines[l][q]) = c
  BY <1>1, <1>7, <1>8, OnlyConnection
<1>10. Along(net.lines[l], p, q)
  BY DEF Along
<1>11. (p + q) \div 2 = x
  <2>1. Len(net.lines[l]) \in Nat
    BY <1>1 DEF IsLine
  <2>2. p \in Int /\ q \in Int /\ x \in Int
    BY <2>1
  <2>3. p + q = 2 * x
    BY <2>2
  <2>. QED
    BY <2>2, <2>3
<1>12. GetDirectionForConnection(net, l, c) = IF p < q THEN Last(net.lines[l]) ELSE Head(net.lines[l])
  BY <1>1, <1>7, <1>10, <1>11, DirectionAlong
<1>13. c # None
  BY <1>7, StationsAreSome
<1>. QED
  BY <1>7, <1>9, <1>12, <1>13 DEF Leading, Joins

\* A way is passed: it is connected, in the time of its parts and in the direction
\* of the line.
PassedOn(net, l, way) ==
    LET line == net.lines[l]
        c == GetConnection(net, line[Head(way)], line[Last(way)], TRUE)
    IN  /\ c # None
        /\ c.TypicalSeconds =
              SumOf([k \in 1..(Len(way) - 1) |->
                            GetConnection(net, line[way[k]], line[way[k + 1]], FALSE).TypicalSeconds])
        /\ GetDirectionForConnection(net, l, c) =
              IF Head(way) < Last(way) THEN Last(line) ELSE Head(line)

\* Connections of the seconds of its parts pass a way.
LEMMA WayPassed ==
    ASSUME NEW net, NEW l, NEW way \in Seq(Int), Len(way) \in {2, 3},
           \A k \in 1..(Len(way) - 1) : Seconds(net, l, way[k], way[k + 1]) \in Nat,
           Leading(net, l, way[1], way[Len(way)],
                   IF Len(way) = 2 THEN Seconds(net, l, way[1], way[2])
                   ELSE Seconds(net, l, way[1], way[2]) + Seconds(net, l, way[2], way[3]))
    PROVE  PassedOn(net, l, way)
<1>. DEFINE S(k) == Seconds(net, l, way[k], way[k + 1])
            w == [k \in 1..2 |-> IF k < Len(way) THEN S(k) ELSE 0]
            parts == [k \in 1..(Len(way) - 1) |-> S(k)]
<1>1. w \in [1..2 -> Nat]
  <2>1. \A k \in 1..2 : k < Len(way) => S(k) \in Nat
    OBVIOUS
  <2>. HIDE DEF S
  <2>. QED
    BY <2>1
<1>2. way[1] = Head(way) /\ way[Len(way)] = Last(way)
  BY DEF Last
<1>3. SumOf(parts) = IF Len(way) = 2 THEN S(1) ELSE S(1) + S(2)
  <2>. HIDE DEF S
  <2>1. CASE Len(way) = 2
    <3>1. parts = [k \in 1..1 |-> w[k]] /\ w[1] = S(1)
      BY <2>1
    <3>. HIDE DEF parts, w
    <3>. QED
      BY <1>1, <2>1, <3>1, SumsOfFew
  <2>2. CASE Len(way) = 3
    <3>1. parts = [k \in 1..2 |-> w[k]] /\ w[1] = S(1) /\ w[2] = S(2)
      BY <2>2
    <3>. HIDE DEF parts, w
    <3>2. Len(way) # 2
      BY <2>2
    <3>3. SumOf(parts) = S(1) + S(2)
      BY <1>1, <3>1, SumsOfFew
    <3>. QED
      BY <3>2, <3>3, Zenon
  <2>. QED
    BY <2>1, <2>2
<1>4. S(1) = Seconds(net, l, way[1], way[2]) /\ S(2) = Seconds(net, l, way[2], way[3])
  OBVIOUS
<1>5. Leading(net, l, Head(way), Last(way), SumOf(parts))
  <2>1. SumOf(parts) =
           IF Len(way) = 2 THEN Seconds(net, l, way[1], way[2])
           ELSE Seconds(net, l, way[1], way[2]) + Seconds(net, l, way[2], way[3])
    BY <1>3, <1>4, Zenon
  <2>. HIDE DEF parts, S, w
  <2>. QED
    BY <1>2, <2>1, Zenon
<1>6. parts = [k \in 1..(Len(way) - 1) |->
                  GetConnection(net, net.lines[l][way[k]], net.lines[l][way[k + 1]], FALSE).TypicalSeconds]
  BY Zenon DEF Seconds, RowFrom
<1>. HIDE DEF parts, S, w
<1>. QED
  BY <1>5, <1>6, Zenon DEF PassedOn, Leading, AnyFrom

\* Stations of a line that follow one another, there and back.
LEMMA WaysOf ==
    ASSUME NEW i \in Int, NEW n \in {2, 3}, NEW way, way = [k \in 1..n |-> i + k - 1]
    PROVE  /\ way \in Seq(Int) /\ Len(way) = n /\ \A k \in 1..n : way[k] = i + k - 1
           /\ Reverse(way) \in Seq(Int) /\ Len(Reverse(way)) = n
           /\ \A k \in 1..n : Reverse(way)[k] = i + n - k
<1>1. way \in Seq(Int) /\ Len(way) = n /\ \A k \in 1..n : way[k] = i + k - 1
  OBVIOUS
<1>2. Reverse(way) = [k \in 1..n |-> way[(n - k) + 1]]
  BY <1>1 DEF Reverse
<1>3. \A k \in 1..n : way[(n - k) + 1] = i + n - k
  BY <1>1
<1>4. Reverse(way) = [k \in 1..n |-> i + n - k]
  BY <1>2, <1>3
<1>. QED
  BY <1>1, <1>4

\* Closed stations of any map are passed: no connection leads to one, or back to
\* where it comes from; open stations that follow one another on a line, but for a
\* closed one, are connected both ways, in the time of the parts and in the
\* direction of the line (types/connection.go provideClosedCompat, types/line.go
\* GetDirectionForConnection).
THEOREM ClosedStationsForAnyMap ==
    ASSUME NEW net, WellMapped(net)
    PROVE  ClosedStationsPassedIn(net)
<1>1. KeyedRows(net) /\ OneWay(net)
  BY DEF WellMapped
<1>2. ASSUME NEW c \in AllOf(net)
      PROVE  ~Closed(net, c.To) /\ c.From # c.To
  <2>1. CASE c \in net.connections /\ ~Closed(net, c.To)
    BY <1>1, <2>1 DEF KeyedRows, IsRow
  <2>2. CASE ~(c \in net.connections /\ ~Closed(net, c.To))
    <3>1. PICK a \in net.connections, b \in net.connections : Through(net, a, b) /\ c = Joined(a, b)
      BY <2>2, ConnectionsAre
    <3>2. c.From = a.From /\ c.To = b.To
      BY <1>1, <3>1, JoinedOf DEF KeyedRows
    <3>. QED
      BY <1>1, <3>1, <3>2 DEF Through, KeyedRows
  <2>. QED
    BY <2>1, <2>2
<1>3. ASSUME NEW s
      PROVE  /\ Closed(net, s) => GetConnectionsTo(net, s, TRUE) = {}
             /\ \A c \in GetConnectionsFrom(net, s, TRUE) : c.To # s
  <2>1. GetConnectionsTo(net, s, TRUE) = {c \in AllOf(net) : c.To = s}
    BY Zenon DEF GetConnectionsTo, AllOf
  <2>2. GetConnectionsFrom(net, s, TRUE) = {c \in AllOf(net) : c.From = s}
    BY Zenon DEF GetConnectionsFrom, AllOf
  <2>3. \A c \in GetConnectionsFrom(net, s, TRUE) : c.To # s
    BY <1>2, <2>2
  <2>4. ASSUME Closed(net, s) PROVE GetConnectionsTo(net, s, TRUE) = {}
    BY <1>2, <2>1, <2>4
  <2>. QED
    BY <2>3, <2>4
<1>4. ASSUME NEW l \in DOMAIN net.lines, NEW i \in DOMAIN net.lines[l], NEW j \in DOMAIN net.lines[l],
             i < j, j <= i + 2, \A k \in i..j : Closed(net, net.lines[l][k]) <=> k \notin {i, j},
             NEW way, way = [k \in 1..(j - i + 1) |-> i + k - 1]
      PROVE  PassedOn(net, l, way) /\ PassedOn(net, l, Reverse(way))
  <2>. DEFINE line == net.lines[l]
              n == j - i + 1
              back == Reverse(way)
  <2>1. DOMAIN line = 1..Len(line) /\ Len(line) \in Nat
    BY DEF WellMapped, IsLine
  <2>2. i \in 1..Len(line) /\ j \in 1..Len(line) /\ i \in Int /\ j \in Int /\ n \in {2, 3} /\ i + 1 \in 1..Len(line)
    BY <1>4, <2>1
  <2>3. /\ way \in Seq(Int) /\ Len(way) = n /\ \A k \in 1..n : way[k] = i + k - 1
        /\ back \in Seq(Int) /\ Len(back) = n /\ \A k \in 1..n : back[k] = i + n - k
    <3>1. way = [k \in 1..n |-> i + k - 1]
      BY <1>4
    <3>2. i \in Int /\ n \in {2, 3}
      BY <2>2
    <3>. HIDE DEF n
    <3>. QED
      BY <3>1, <3>2, WaysOf
  <2>4. /\ way[1] = i /\ way[2] = i + 1 /\ way[n] = j
        /\ back[1] = j /\ back[n] = i
        /\ n = 2 => back[2] = i
        /\ n = 3 => way[3] = i + 2 /\ back[2] = i + 1 /\ back[3] = i /\ j = i + 2
        /\ n = 2 => j = i + 1
    BY <2>2, <2>3
  <2>5. ~Closed(net, line[i]) /\ ~Closed(net, line[j])
    <3>1. i \in i..j /\ j \in i..j
      BY <1>4, <2>2
    <3>. QED
      BY <1>4, <3>1
  <2>6. ASSUME NEW p \in 1..Len(line), NEW q \in 1..Len(line), q = p + 1 \/ p = q + 1
        PROVE  Seconds(net, l, p, q) \in Nat
    BY <2>6, RowAlong DEF Joins
  <2>. HIDE DEF back, line
  <2>7. CASE n = 2
    <3>1. Leading(net, l, i, j, Seconds(net, l, i, j)) /\ Leading(net, l, j, i, Seconds(net, l, j, i))
      BY <2>2, <2>4, <2>5, <2>7, NextLeads DEF line
    <3>2. Seconds(net, l, i, j) \in Nat /\ Seconds(net, l, j, i) \in Nat
      BY <2>2, <2>4, <2>6, <2>7
    <3>. HIDE DEF n
    <3>3. \A k \in 1..(Len(way) - 1) : k = 1 /\ k + 1 = 2
      BY <2>3, <2>7
    <3>4. \A k \in 1..(Len(back) - 1) : k = 1 /\ k + 1 = 2
      BY <2>3, <2>7
    <3>5. PassedOn(net, l, way)
      <4>1. \A k \in 1..(Len(way) - 1) : Seconds(net, l, way[k], way[k + 1]) \in Nat
        BY <2>4, <2>7, <3>2, <3>3
      <4>2. Leading(net, l, way[1], way[Len(way)],
                    IF Len(way) = 2 THEN Seconds(net, l, way[1], way[2])
                    ELSE Seconds(net, l, way[1], way[2]) + Seconds(net, l, way[2], way[3]))
        BY <2>3, <2>4, <2>7, <3>1
      <4>3. Len(way) \in {2, 3}
        BY <2>2, <2>3
      <4>. QED
        BY <2>3, <4>1, <4>2, <4>3, WayPassed
    <3>6. PassedOn(net, l, back)
      <4>1. \A k \in 1..(Len(back) - 1) : Seconds(net, l, back[k], back[k + 1]) \in Nat
        BY <2>4, <2>7, <3>2, <3>4
      <4>2. Leading(net, l, back[1], back[Len(back)],
                    IF Len(back) = 2 THEN Seconds(net, l, back[1], back[2])
                    ELSE Seconds(net, l, back[1], back[2]) + Seconds(net, l, back[2], back[3]))
        BY <2>3, <2>4, <2>7, <3>1
      <4>3. Len(back) \in {2, 3}
        BY <2>2, <2>3
      <4>. QED
        BY <2>3, <4>1, <4>2, <4>3, WayPassed
    <3>. QED
      BY <3>5, <3>6 DEF back
  <2>8. CASE n = 3
    <3>. DEFINE x == i + 1
    <3>1. Closed(net, line[x]) /\ x \in 1..Len(line) /\ x # i /\ x # j
      BY <1>4, <2>2, <2>4, <2>8 DEF line
    <3>2. /\ Leading(net, l, i, j, Seconds(net, l, i, x) + Seconds(net, l, x, j))
          /\ Leading(net, l, j, i, Seconds(net, l, j, x) + Seconds(net, l, x, i))
      BY <2>2, <2>4, <2>8, <3>1, PastLeads DEF line
    <3>3. /\ Seconds(net, l, i, x) \in Nat /\ Seconds(net, l, x, j) \in Nat
          /\ Seconds(net, l, j, x) \in Nat /\ Seconds(net, l, x, i) \in Nat
      BY <2>2, <2>4, <2>6, <2>8, <3>1
    <3>4. /\ way[1] = i /\ way[2] = x /\ way[3] = j /\ back[1] = j /\ back[2] = x /\ back[3] = i
          /\ Len(way) = 3 /\ Len(back) = 3
      BY <2>3, <2>4, <2>8
    <3>. HIDE DEF n, x
    <3>5. PassedOn(net, l, way)
      <4>1. \A k \in 1..(Len(way) - 1) : Seconds(net, l, way[k], way[k + 1]) \in Nat
        <5>1. \A k \in 1..(Len(way) - 1) : (k = 1 /\ k + 1 = 2) \/ (k = 2 /\ k + 1 = 3)
          BY <3>4
        <5>. QED
          BY <3>3, <3>4, <5>1
      <4>2. Leading(net, l, way[1], way[Len(way)],
                    IF Len(way) = 2 THEN Seconds(net, l, way[1], way[2])
                    ELSE Seconds(net, l, way[1], way[2]) + Seconds(net, l, way[2], way[3]))
        <5>1. Len(way) # 2
          BY <3>4
        <5>. QED
          BY <3>2, <3>4, <5>1, Zenon
      <4>. QED
        BY <2>3, <3>4, <4>1, <4>2, WayPassed
    <3>6. PassedOn(net, l, back)
      <4>1. \A k \in 1..(Len(back) - 1) : Seconds(net, l, back[k], back[k + 1]) \in Nat
        <5>1. \A k \in 1..(Len(back) - 1) : (k = 1 /\ k + 1 = 2) \/ (k = 2 /\ k + 1 = 3)
          BY <3>4
        <5>. QED
          BY <3>3, <3>4, <5>1
      <4>2. Leading(net, l, back[1], back[Len(back)],
                    IF Len(back) = 2 THEN Seconds(net, l, back[1], back[2])
                    ELSE Seconds(net, l, back[1], back[2]) + Seconds(net, l, back[2], back[3]))
        <5>1. Len(back) # 2
          BY <3>4
        <5>. QED
          BY <3>2, <3>4, <5>1, Zenon
      <4>. QED
        BY <2>3, <3>4, <4>1, <4>2, WayPassed
    <3>. QED
      BY <3>5, <3>6 DEF back
  <2>. QED
    BY <2>2, <2>7, <2>8
<1>5. ASSUME NEW l \in DOMAIN net.lines, NEW i \in DOMAIN net.lines[l], NEW j \in DOMAIN net.lines[l],
             i < j, j <= i + 2, \A k \in i..j : Closed(net, net.lines[l][k]) <=> k \notin {i, j}
      PROVE  /\ PassedOn(net, l, [k \in 1..(j - i + 1) |-> i + k - 1])
             /\ PassedOn(net, l, Reverse([k \in 1..(j - i + 1) |-> i + k - 1]))
  BY <1>4, <1>5, Zenon
<1>6. (/\ \A s \in DOMAIN net.lobbies :
            /\ Closed(net, s) => GetConnectionsTo(net, s, TRUE) = {}
            /\ \A c \in GetConnectionsFrom(net, s, TRUE) : c.To # s
       /\ \A l \in DOMAIN net.lines : \A i, j \in DOMAIN net.lines[l] :
            i < j /\ j <= i + 2 /\ (\A k \in i..j : Closed(net, net.lines[l][k]) <=> k \notin {i, j}) =>
               /\ PassedOn(net, l, [k \in 1..(j - i + 1) |-> i + k - 1])
               /\ PassedOn(net, l, Reverse([k \in 1..(j - i + 1) |-> i + k - 1])))
      => ClosedStationsPassedIn(net)
  BY Zenon DEF ClosedStationsPassedIn, PassedOn
<1>. QED
  BY <1>3, <1>5, <1>6, Zenon

\* The tracks of the run's lines.
Tracks ==
    {<<"a", "b">>, <<"b", "a">>, <<"b", "c">>, <<"c", "b">>, <<"c", "d">>, <<"d", "c">>, <<"d", "e">>, <<"e", "d">>,
     <<"f", "c">>, <<"c", "f">>, <<"c", "g">>, <<"g", "c">>}

\* Those are the stations that follow one another.
LEMMA RunLines ==
    /\ DOMAIN Lines = {"green", "blue"}
    /\ Lines["green"] = <<"a", "b", "c", "d", "e">> /\ Lines["blue"] = <<"f", "c", "g">>
    /\ Stations = {"a", "b", "c", "d", "e", "f", "g"}
    /\ \A s, t : Follow(s, t) <=> <<s, t>> \in Tracks
<1>1. /\ DOMAIN Lines = {"green", "blue"}
      /\ Lines["green"] = <<"a", "b", "c", "d", "e">> /\ Lines["blue"] = <<"f", "c", "g">>
  BY DEF Lines
<1>. DEFINE green == <<"a", "b", "c", "d", "e">>
            blue == <<"f", "c", "g">>
<1>2. /\ DOMAIN green = 1..5 /\ Len(green) = 5
      /\ green[1] = "a" /\ green[2] = "b" /\ green[3] = "c" /\ green[4] = "d" /\ green[5] = "e"
      /\ DOMAIN blue = 1..3 /\ Len(blue) = 3 /\ blue[1] = "f" /\ blue[2] = "c" /\ blue[3] = "g"
  OBVIOUS
<1>3. Lines["green"] = green /\ Lines["blue"] = blue
  BY <1>1
<1>. HIDE DEF green, blue
<1>4. Range(green) = {"a", "b", "c", "d", "e"} /\ Range(blue) = {"f", "c", "g"}
  <2>1. Range(green) = {green[i] : i \in 1..5} /\ Range(blue) = {blue[i] : i \in 1..3}
    BY <1>2, Zenon DEF Range
  <2>2. 1..5 = {1, 2, 3, 4, 5} /\ 1..3 = {1, 2, 3}
    OBVIOUS
  <2>3. {green[i] : i \in 1..5} = {"a", "b", "c", "d", "e"}
    BY <1>2, <2>2
  <2>4. {blue[i] : i \in 1..3} = {"f", "c", "g"}
    BY <1>2, <2>2
  <2>. QED
    BY <2>1, <2>3, <2>4
<1>5. Stations = {"a", "b", "c", "d", "e", "f", "g"}
  <2>1. Stations = Range(green) \cup Range(blue)
    BY <1>1, <1>3 DEF Stations
  <2>. QED
    BY <1>4, <2>1
<1>6. ASSUME NEW s, NEW t
      PROVE  Follow(s, t) <=> <<s, t>> \in Tracks
  <2>1. Follow(s, t) <=> \/ \E i \in 1..4 : {green[i], green[i + 1]} = {s, t}
                         \/ \E i \in 1..2 : {blue[i], blue[i + 1]} = {s, t}
    <3>1. Len(green) - 1 = 4 /\ Len(blue) - 1 = 2
      BY <1>2
    <3>. QED
      BY <1>1, <1>3, <3>1 DEF Follow
  <2>2. (\E i \in 1..4 : {green[i], green[i + 1]} = {s, t}) <=>
            {"a", "b"} = {s, t} \/ {"b", "c"} = {s, t} \/ {"c", "d"} = {s, t} \/ {"d", "e"} = {s, t}
    <3>1. 1..4 = {1, 2, 3, 4} /\ 1 + 1 = 2 /\ 2 + 1 = 3 /\ 3 + 1 = 4 /\ 4 + 1 = 5
      OBVIOUS
    <3>2. (\E i \in 1..4 : {green[i], green[i + 1]} = {s, t}) <=>
             \/ {green[1], green[1 + 1]} = {s, t} \/ {green[2], green[2 + 1]} = {s, t}
             \/ {green[3], green[3 + 1]} = {s, t} \/ {green[4], green[4 + 1]} = {s, t}
      BY <3>1, Zenon
    <3>3. green[1 + 1] = "b" /\ green[2 + 1] = "c" /\ green[3 + 1] = "d" /\ green[4 + 1] = "e"
      BY <1>2
    <3>. QED
      BY <1>2, <3>2, <3>3, Zenon
  <2>3. (\E i \in 1..2 : {blue[i], blue[i + 1]} = {s, t}) <=> {"f", "c"} = {s, t} \/ {"c", "g"} = {s, t}
    <3>1. 1..2 = {1, 2} /\ 1 + 1 = 2 /\ 2 + 1 = 3
      OBVIOUS
    <3>2. (\E i \in 1..2 : {blue[i], blue[i + 1]} = {s, t}) <=>
             {blue[1], blue[1 + 1]} = {s, t} \/ {blue[2], blue[2 + 1]} = {s, t}
      BY <3>1, Zenon
    <3>. QED
      BY <1>2, <3>1, <3>2, Zenon
  <2>4. \A x, y : {x, y} = {s, t} <=> (s = x /\ t = y) \/ (s = y /\ t = x)
    OBVIOUS
  <2>5. Follow(s, t) <=>
           \/ (s = "a" /\ t = "b") \/ (s = "b" /\ t = "a") \/ (s = "b" /\ t = "c") \/ (s = "c" /\ t = "b")
           \/ (s = "c" /\ t = "d") \/ (s = "d" /\ t = "c") \/ (s = "d" /\ t = "e") \/ (s = "e" /\ t = "d")
           \/ (s = "f" /\ t = "c") \/ (s = "c" /\ t = "f") \/ (s = "c" /\ t = "g") \/ (s = "g" /\ t = "c")
    BY <2>1, <2>2, <2>3, <2>4, Zenon
  <2>6. <<s, t>> \in Tracks <=>
           \/ (s = "a" /\ t = "b") \/ (s = "b" /\ t = "a") \/ (s = "b" /\ t = "c") \/ (s = "c" /\ t = "b")
           \/ (s = "c" /\ t = "d") \/ (s = "d" /\ t = "c") \/ (s = "d" /\ t = "e") \/ (s = "e" /\ t = "d")
           \/ (s = "f" /\ t = "c") \/ (s = "c" /\ t = "f") \/ (s = "c" /\ t = "g") \/ (s = "g" /\ t = "c")
    <3>1. \A x, y : <<s, t>> = <<x, y>> <=> s = x /\ t = y
      OBVIOUS
    <3>. QED
      BY <3>1 DEF Tracks
  <2>. QED
    BY <2>5, <2>6, Zenon
<1>. QED
  BY <1>1, <1>5, <1>6

\* No two stations of the lines are connected twice: there is no way round.
LEMMA NoWayRound ==
    /\ \A s : <<s, s>> \notin Tracks
    /\ \A s, t, x : <<s, x>> \in Tracks /\ <<x, t>> \in Tracks => <<s, t>> \notin Tracks
    /\ \A s, t, x, y :
          <<s, x>> \in Tracks /\ <<x, t>> \in Tracks /\ <<s, y>> \in Tracks /\ <<y, t>> \in Tracks /\ s # t => x = y
<1>1. \A s, t : <<s, t>> \in Tracks <=>
           \/ (s = "a" /\ t = "b") \/ (s = "b" /\ t = "a") \/ (s = "b" /\ t = "c") \/ (s = "c" /\ t = "b")
           \/ (s = "c" /\ t = "d") \/ (s = "d" /\ t = "c") \/ (s = "d" /\ t = "e") \/ (s = "e" /\ t = "d")
           \/ (s = "f" /\ t = "c") \/ (s = "c" /\ t = "f") \/ (s = "c" /\ t = "g") \/ (s = "g" /\ t = "c")
  BY DEF Tracks
<1>. QED
  BY <1>1

\* The maps of the run are such.
LEMMA RunMaps ==
    ASSUME NEW closed \in Closable
    PROVE  WellMapped(MapWith(closed))
<1>. DEFINE net == MapWith(closed)
            seconds(s) == IF s = "c" THEN 61 ELSE 90
<1>1. /\ closed \subseteq Stations
      /\ \A s, t \in closed : ~Follow(s, t)
  BY DEF Closable
<1>2. /\ net.lines = Lines
      /\ net.lobbies = [s \in Stations |-> IF s \in closed THEN {{FALSE}, {}} ELSE {{TRUE, FALSE}, {FALSE}}]
      /\ net.connections = {Connection(p[1], p[2], IF p[1] = "c" THEN 61 ELSE 90) : p \in {q \in Stations \X Stations : Follow(q[1], q[2])}}
  BY DEF MapWith
<1>. HIDE DEF net
<1>3. \A s \in Stations : Closed(net, s) <=> s \in closed
  <2>. SUFFICES ASSUME NEW s \in Stations
                PROVE  Closed(net, s) <=> s \in closed
    OBVIOUS
  <2>1. CASE s \in closed
    <3>1. net.lobbies[s] = {{FALSE}, {}}
      BY <1>2, <2>1
    <3>2. TRUE \notin {FALSE}
      BY Zenon
    <3>. QED
      BY <2>1, <3>1, <3>2, Zenon DEF Closed, LobbyClosed
  <2>2. CASE s \notin closed
    <3>1. net.lobbies[s] = {{TRUE, FALSE}, {FALSE}}
      BY <1>2, <2>2
    <3>. QED
      BY <2>2, <3>1, Zenon DEF Closed, LobbyClosed
  <2>. QED
    BY <2>1, <2>2
<1>4. \A c \in net.connections :
         /\ c = Connection(c.From, c.To, seconds(c.From))
         /\ c.From \in Stations /\ c.To \in Stations /\ <<c.From, c.To>> \in Tracks
  <2>. SUFFICES ASSUME NEW c \in net.connections
                PROVE  /\ c = Connection(c.From, c.To, seconds(c.From))
                       /\ c.From \in Stations /\ c.To \in Stations /\ <<c.From, c.To>> \in Tracks
    OBVIOUS
  <2>1. PICK p \in Stations \X Stations : Follow(p[1], p[2]) /\ c = Connection(p[1], p[2], seconds(p[1]))
    BY <1>2
  <2>2. p[1] \in Stations /\ p[2] \in Stations
    BY <2>1
  <2>. HIDE DEF seconds
  <2>3. c.From = p[1] /\ c.To = p[2]
    BY <2>1 DEF Connection
  <2>. QED
    BY <2>1, <2>2, <2>3, RunLines
<1>5. \A s, t : <<s, t>> \in Tracks => \E c \in net.connections : c.From = s /\ c.To = t
  <2>. SUFFICES ASSUME NEW s, NEW t, <<s, t>> \in Tracks
                PROVE  \E c \in net.connections : c.From = s /\ c.To = t
    OBVIOUS
  <2>1. Follow(s, t) /\ s \in Stations /\ t \in Stations
    <3>1. Follow(s, t)
      BY RunLines
    <3>2. s \in Stations /\ t \in Stations
      BY RunLines DEF Tracks
    <3>. QED
      BY <3>1, <3>2
  <2>2. Connection(s, t, seconds(s)) \in net.connections
    <3>1. <<s, t>> \in {q \in Stations \X Stations : Follow(q[1], q[2])} /\ <<s, t>>[1] = s /\ <<s, t>>[2] = t
      BY <2>1
    <3>. QED
      BY <1>2, <3>1
  <2>3. Connection(s, t, seconds(s)).From = s /\ Connection(s, t, seconds(s)).To = t
    BY DEF Connection
  <2>. QED
    BY <2>2, <2>3
<1>6. \A c \in net.connections : IsRow(c)
  <2>. SUFFICES ASSUME NEW c \in net.connections
                PROVE  IsRow(c)
    OBVIOUS
  <2>1. c = Connection(c.From, c.To, seconds(c.From)) /\ c.From # c.To
    BY <1>4, NoWayRound
  <2>2. seconds(c.From) \in Nat
    OBVIOUS
  <2>. HIDE DEF seconds
  <2>3. PICK s, t, n : c = Connection(s, t, n) /\ n \in Nat
    BY <2>1, <2>2
  <2>4. /\ c.TypicalSeconds = n /\ c.TypicalStopSeconds = 10 /\ c.TypicalWaitingSeconds = 60 /\ c.WorldLength = 500
        /\ c.FromPlatform = s /\ c.ToPlatform = t /\ c.From = s /\ c.To = t
    BY <2>3 DEF Connection
  <2>5. c = [From |-> c.From, To |-> c.To, TypicalSeconds |-> c.TypicalSeconds,
            TypicalStopSeconds |-> c.TypicalStopSeconds, TypicalWaitingSeconds |-> c.TypicalWaitingSeconds,
            WorldLength |-> c.WorldLength, FromPlatform |-> c.FromPlatform, ToPlatform |-> c.ToPlatform, parts |-> <<>>]
    BY <2>3, <2>4, Zenon DEF Connection
  <2>. QED
    BY <2>1, <2>3, <2>4, <2>5 DEF IsRow
<1>7. KeyedRows(net)
  <2>1. \A c \in net.connections : ~(Closed(net, c.From) /\ Closed(net, c.To))
    BY <1>1, <1>3, <1>4, RunLines
  <2>2. \A c, d \in net.connections : c.From = d.From /\ c.To = d.To => c = d
    <3>. HIDE DEF seconds
    <3>. QED
      BY <1>4
  <2>. QED
    BY <1>6, <2>1, <2>2 DEF KeyedRows
<1>8. OneWay(net)
  <2>1. ASSUME NEW c \in net.connections, NEW d \in net.connections, Through(net, c, d)
        PROVE  <<c.From, c.To>> \in Tracks /\ <<c.To, d.To>> \in Tracks /\ c.From # d.To
    BY <1>4, <2>1 DEF Through
  <2>2. \A c, d, e \in net.connections : Through(net, c, d) => ~(e.From = c.From /\ e.To = d.To)
    BY <1>4, <2>1, NoWayRound
  <2>3. \A c, d, e, f \in net.connections :
           Through(net, c, d) /\ Through(net, e, f) /\ e.From = c.From /\ f.To = d.To => e.To = c.To
    <3>. SUFFICES ASSUME NEW c \in net.connections, NEW d \in net.connections,
                         NEW e \in net.connections, NEW f \in net.connections,
                         Through(net, c, d), Through(net, e, f), e.From = c.From, f.To = d.To
                  PROVE  e.To = c.To
      OBVIOUS
    <3>1. /\ <<c.From, c.To>> \in Tracks /\ <<c.To, d.To>> \in Tracks /\ c.From # d.To
          /\ <<c.From, e.To>> \in Tracks /\ <<e.To, d.To>> \in Tracks
      BY <2>1
    <3>. QED
      BY <3>1, NoWayRound, Zenon
  <2>. QED
    BY <2>2, <2>3 DEF OneWay
<1>9. IsLine(net, net.lines["green"]) /\ "none" \notin Range(net.lines["green"])
  <2>. DEFINE line == <<"a", "b", "c", "d", "e">>
  <2>1. net.lines["green"] = line
    BY <1>2, RunLines
  <2>2. /\ line = [i \in 1..5 |-> line[i]] /\ Len(line) = 5 /\ DOMAIN line = 1..5
        /\ line[1] = "a" /\ line[2] = "b" /\ line[3] = "c" /\ line[4] = "d" /\ line[5] = "e"
    OBVIOUS
  <2>. HIDE DEF line
  <2>3. \A i, j \in 1..5 : line[i] = line[j] => i = j
    BY <2>2
  <2>4. \A i, j \in 1..5 : i = j + 1 \/ j = i + 1 => <<line[i], line[j]>> \in Tracks
    <3>1. \A i \in 1..4 : <<line[i], line[i + 1]>> \in Tracks /\ <<line[i + 1], line[i]>> \in Tracks
      <4>1. 1..4 = {1, 2, 3, 4} /\ 1 + 1 = 2 /\ 2 + 1 = 3 /\ 3 + 1 = 4 /\ 4 + 1 = 5
        OBVIOUS
      <4>. QED
        BY <2>2, <4>1 DEF Tracks
    <3>. QED
      BY <3>1
  <2>5. \A i, j \in 1..5 : i = j + 1 \/ j = i + 1 => \E c \in net.connections : c.From = line[i] /\ c.To = line[j]
    BY <1>5, <2>4
  <2>6. "none" \notin Range(line)
    BY <2>2 DEF Range
  <2>7. IsLine(net, line)
    <3>1. line = [i \in 1..Len(line) |-> line[i]] /\ Len(line) \in Nat
      BY <2>2
    <3>2. \A i, j \in 1..Len(line) : line[i] = line[j] => i = j
      BY <2>2, <2>3
    <3>3. \A i, j \in 1..Len(line) : i = j + 1 \/ j = i + 1 =>
             \E c \in net.connections : c.From = line[i] /\ c.To = line[j]
      <4>. SUFFICES ASSUME NEW i \in 1..Len(line), NEW j \in 1..Len(line), i = j + 1 \/ j = i + 1
                    PROVE  \E c \in net.connections : c.From = line[i] /\ c.To = line[j]
        OBVIOUS
      <4>1. i \in 1..5 /\ j \in 1..5
        BY <2>2
      <4>. QED
        BY <2>5, <4>1
    <3>. QED
      BY <3>1, <3>2, <3>3, Zenon DEF IsLine
  <2>. QED
    BY <2>1, <2>6, <2>7, Zenon
<1>10. IsLine(net, net.lines["blue"]) /\ "none" \notin Range(net.lines["blue"])
  <2>. DEFINE line == <<"f", "c", "g">>
  <2>1. net.lines["blue"] = line
    BY <1>2, RunLines
  <2>2. /\ line = [i \in 1..3 |-> line[i]] /\ Len(line) = 3 /\ DOMAIN line = 1..3
        /\ line[1] = "f" /\ line[2] = "c" /\ line[3] = "g"
    OBVIOUS
  <2>. HIDE DEF line
  <2>3. \A i, j \in 1..3 : line[i] = line[j] => i = j
    BY <2>2
  <2>4. \A i, j \in 1..3 : i = j + 1 \/ j = i + 1 => <<line[i], line[j]>> \in Tracks
    <3>1. \A i \in 1..2 : <<line[i], line[i + 1]>> \in Tracks /\ <<line[i + 1], line[i]>> \in Tracks
      <4>1. 1..2 = {1, 2} /\ 1 + 1 = 2 /\ 2 + 1 = 3
        OBVIOUS
      <4>. QED
        BY <2>2, <4>1 DEF Tracks
    <3>. QED
      BY <3>1
  <2>5. \A i, j \in 1..3 : i = j + 1 \/ j = i + 1 => \E c \in net.connections : c.From = line[i] /\ c.To = line[j]
    BY <1>5, <2>4
  <2>6. "none" \notin Range(line)
    BY <2>2 DEF Range
  <2>7. IsLine(net, line)
    <3>1. line = [i \in 1..Len(line) |-> line[i]] /\ Len(line) \in Nat
      BY <2>2
    <3>2. \A i, j \in 1..Len(line) : line[i] = line[j] => i = j
      BY <2>2, <2>3
    <3>3. \A i, j \in 1..Len(line) : i = j + 1 \/ j = i + 1 =>
             \E c \in net.connections : c.From = line[i] /\ c.To = line[j]
      <4>. SUFFICES ASSUME NEW i \in 1..Len(line), NEW j \in 1..Len(line), i = j + 1 \/ j = i + 1
                    PROVE  \E c \in net.connections : c.From = line[i] /\ c.To = line[j]
        OBVIOUS
      <4>1. i \in 1..3 /\ j \in 1..3
        BY <2>2
      <4>. QED
        BY <2>5, <4>1
    <3>. QED
      BY <3>1, <3>2, <3>3, Zenon DEF IsLine
  <2>. QED
    BY <2>1, <2>6, <2>7, Zenon
<1>11. \A l \in DOMAIN net.lines : l = "green" \/ l = "blue"
  BY <1>2, RunLines
<1>12. WellMapped(net)
  BY <1>7, <1>8, <1>9, <1>10, <1>11, Zenon DEF WellMapped
<1>. QED
  BY <1>12 DEF net

\* So it is with the maps that the runs ask about.
THEOREM ClosedStationsAlwaysPassed == RecordsInit /\ [][RecordsNext]_question => []ClosedStationsPassed
<1>1. RecordsInit => ClosedStationsPassed
  BY DEF RecordsInit, ClosedStationsPassed
<1>2. ASSUME ClosedStationsPassed, [RecordsNext]_question
      PROVE  ClosedStationsPassed'
  <2>1. CASE AskMap
    <3>1. PICK closed \in Closable : Asks([is |-> "map", net |-> MapWith(closed)])
      BY <2>1, Zenon DEF AskMap
    <3>2. ClosedStationsPassedIn(MapWith(closed))
      BY RunMaps, ClosedStationsForAnyMap
    <3>3. question'.net = MapWith(closed)
      BY <3>1 DEF Asks
    <3>. QED
      BY <3>2, <3>3, Zenon DEF ClosedStationsPassed
  <2>2. CASE UNCHANGED question
    BY <1>2, <2>2 DEF ClosedStationsPassed
  <2>3. CASE RecordsNext /\ ~AskMap
    BY <2>3, OtherQuestions DEF ClosedStationsPassed
  <2>. QED
    BY <1>2, <2>1, <2>2, <2>3
<1>. QED
  BY <1>1, <1>2, PTL

-----------------------------------------------------------------------------
(***************************************************************************)
(* The pages. The hours of a lobby.                                        *)
(***************************************************************************)
LEMMA SameHours ==
    ASSUME NEW s, NEW t, Compare(s, t)
    PROVE  Hours(s) = Hours(t)
BY DEF Compare, Hours

RestDays == {-1, 0, 6}

\* The lines that name a day.
Naming(byDay, d) == {line \in WeekLines(byDay) : d \in line.days}

ToldOnce(byDay, d) ==
    Naming(byDay, d) # {} /\ \A l, m \in Naming(byDay, d) : l = m /\ l.hours = Hours(byDay[d])

\* A day is in one line, with its hours, except Monday if weekdays differ.
LEMMA DaysAreTold ==
    ASSUME NEW byDay, NEW d \in AllDays
    PROVE  IF d = 1 /\ ~weekdaysAllTheSame(byDay) THEN Naming(byDay, d) = {} ELSE ToldOnce(byDay, d)
<1>. DEFINE Shown == WeekLines(byDay)
            Alone(line) == /\ line \in Shown /\ d \in line.days /\ line.hours = Hours(byDay[d])
                          /\ \A m \in Shown : d \in m.days => m = line
            weekday == IF weekdaysAllTheSame(byDay) THEN {Line(Weekdays, byDay[1])}
                       ELSE EachOf(2..5, byDay)
            others == IF holidaysAllTheSame(byDay) THEN {Line(RestDays, byDay[0])}
                      ELSE EachOf(RestDays, byDay)
<1>1. d \in -1..6 /\ Weekdays = 1..5 /\ Holidays = -1 /\ AllDays = -1..6
  BY DEF AllDays, Weekdays, Holidays
<1>2. \A days, s : Line(days, s).days = days /\ Line(days, s).hours = Hours(s)
  BY DEF Line
<1>3. ASSUME NEW line, Alone(line)
      PROVE  ToldOnce(byDay, d)
  BY <1>3 DEF ToldOnce, Naming
<1>4. weekdaysAllTheSame(byDay) /\ d \in 1..5 => Hours(byDay[d]) = Hours(byDay[1])
  <2>1. weekdaysAllTheSame(byDay) /\ d \in 2..5 => Compare(byDay[1], byDay[d])
    BY DEF weekdaysAllTheSame
  <2>2. d \in 1..5 => d = 1 \/ d \in 2..5
    BY <1>1
  <2>. QED
    BY <2>1, <2>2, SameHours
<1>8. -1 \in RestDays /\ 0 \in RestDays /\ 6 \in RestDays /\ (d \in RestDays <=> d \notin 1..5)
  BY <1>1 DEF RestDays
<1>5. holidaysAllTheSame(byDay) =>
        Hours(byDay[-1]) = Hours(byDay[0]) /\ Hours(byDay[6]) = Hours(byDay[0])
  <2>1. holidaysAllTheSame(byDay) => Compare(byDay[-1], byDay[0]) /\ Compare(byDay[6], byDay[0])
    BY <1>1 DEF holidaysAllTheSame
  <2>. QED
    BY <2>1, SameHours
<1>6. CASE allDaysTheSame(byDay)
  <2>. DEFINE line == Line(AllDays, byDay[0])
  <2>1. Shown = {line}
    BY <1>6 DEF WeekLines
  <2>2. weekdaysAllTheSame(byDay) /\ holidaysAllTheSame(byDay) /\ Compare(byDay[-1], byDay[2])
    BY <1>1, <1>6 DEF allDaysTheSame
  <2>3. Hours(byDay[d]) = Hours(byDay[0])
    <3>1. Hours(byDay[-1]) = Hours(byDay[2])
      BY <2>2, SameHours
    <3>2. Hours(byDay[1]) = Hours(byDay[2])
      <4>1. Compare(byDay[1], byDay[2])
        BY <2>2 DEF weekdaysAllTheSame
      <4>. QED
        BY <4>1, SameHours
    <3>3. d \in 1..5 \/ d = -1 \/ d = 0 \/ d = 6
      BY <1>1
    <3>. QED
      BY <1>4, <1>5, <2>2, <3>1, <3>2, <3>3
  <2>4. Alone(line)
    BY <1>1, <1>2, <2>1, <2>3
  <2>. HIDE DEF line, Alone
  <2>. QED
    BY <1>3, <2>2, <2>4
<1>7. CASE ~allDaysTheSame(byDay)
  <2>1. Shown = weekday \cup others
    BY <1>1, <1>7 DEF WeekLines, RestDays
  <2>2. \A days, l : l \in EachOf(days, byDay) <=> \E e \in days : l = Line({e}, byDay[e])
    BY DEF EachOf
  <2>8. /\ weekdaysAllTheSame(byDay) => weekday = {Line(1..5, byDay[1])}
        /\ holidaysAllTheSame(byDay) => others = {Line(RestDays, byDay[0])}
    BY <1>1
  <2>9. /\ ~weekdaysAllTheSame(byDay) => \A l : l \in weekday <=> \E e \in 2..5 : l = Line({e}, byDay[e])
        /\ ~holidaysAllTheSame(byDay) => \A l : l \in others <=> \E e \in RestDays : l = Line({e}, byDay[e])
    <3>1. ~weekdaysAllTheSame(byDay) => weekday = EachOf(2..5, byDay)
      OBVIOUS
    <3>2. ~holidaysAllTheSame(byDay) => others = EachOf(RestDays, byDay)
      OBVIOUS
    <3>. HIDE DEF weekday, others
    <3>3. \A l : l \in EachOf(2..5, byDay) <=> \E e \in 2..5 : l = Line({e}, byDay[e])
      BY <2>2
    <3>4. \A l : l \in EachOf(RestDays, byDay) <=> \E e \in RestDays : l = Line({e}, byDay[e])
      BY <2>2
    <3>. QED
      BY <3>1, <3>2, <3>3, <3>4, Zenon
  <2>. HIDE DEF Shown, weekday, others
  <2>3. \A l \in weekday : l.days \subseteq 1..5
    <3>1. ASSUME NEW e \in 2..5
          PROVE  Line({e}, byDay[e]).days \subseteq 1..5
      BY <1>2
    <3>2. Line(1..5, byDay[1]).days \subseteq 1..5
      BY <1>2
    <3>. QED
      BY <2>8, <2>9, <3>1, <3>2
  <2>4. \A l \in others : l.days \subseteq RestDays
    <3>1. ASSUME NEW e \in RestDays
          PROVE  Line({e}, byDay[e]).days \subseteq RestDays
      BY <1>2
    <3>2. Line(RestDays, byDay[0]).days \subseteq RestDays
      BY <1>2
    <3>. QED
      BY <2>8, <2>9, <3>1, <3>2
  <2>5. CASE d \in 1..5
    <3>1. \A l \in others : d \notin l.days
      BY <1>8, <2>4, <2>5
    <3>2. CASE weekdaysAllTheSame(byDay)
      <4>1. Alone(Line(1..5, byDay[1]))
        BY <1>2, <1>4, <2>1, <2>5, <2>8, <3>1, <3>2
      <4>. HIDE DEF Alone
      <4>. QED
        BY <1>3, <3>2, <4>1
    <3>3. CASE ~weekdaysAllTheSame(byDay) /\ d # 1
      <4>1. d \in 2..5
        BY <2>5, <3>3
      <4>2. Alone(Line({d}, byDay[d]))
        <5>1. \A e : Line({e}, byDay[e]).days = {e} /\ Line({e}, byDay[e]).hours = Hours(byDay[e])
          BY <1>2
        <5>. QED
          BY <2>1, <2>9, <3>1, <3>3, <4>1, <5>1, Zenon
      <4>. HIDE DEF Alone
      <4>. QED
        BY <1>3, <3>3, <4>2
    <3>4. CASE ~weekdaysAllTheSame(byDay) /\ d = 1
      <4>1. \A l \in weekday : d \notin l.days
        <5>1. \A e \in 2..5 : 1 \notin Line({e}, byDay[e]).days
          BY <1>2
        <5>. QED
          BY <2>9, <3>4, <5>1
      <4>. QED
        BY <2>1, <3>1, <3>4, <4>1 DEF Naming, Shown
    <3>. QED
      BY <3>2, <3>3, <3>4
  <2>6. CASE d \in RestDays
    <3>0. d # 1
      BY <1>8, <2>6
    <3>1. \A l \in weekday : d \notin l.days
      <4>1. d \notin 1..5
        BY <1>8, <2>6
      <4>. QED
        BY <2>3, <4>1, Zenon
    <3>2. CASE holidaysAllTheSame(byDay)
      <4>0. Hours(byDay[d]) = Hours(byDay[0])
        BY <1>5, <2>6, <3>2 DEF RestDays
      <4>1. Alone(Line(RestDays, byDay[0]))
        BY <1>2, <2>1, <2>6, <2>8, <3>1, <3>2, <4>0
      <4>. HIDE DEF Alone
      <4>. QED
        BY <1>3, <3>0, <4>1
    <3>3. CASE ~holidaysAllTheSame(byDay)
      <4>1. Alone(Line({d}, byDay[d]))
        <5>1. \A e : Line({e}, byDay[e]).days = {e} /\ Line({e}, byDay[e]).hours = Hours(byDay[e])
          BY <1>2
        <5>2. ASSUME NEW m \in others, d \in m.days
              PROVE  m = Line({d}, byDay[d])
          <6>1. \E e \in RestDays : m = Line({e}, byDay[e])
            BY <2>9, <3>3
          <6>2. PICK e \in RestDays : m = Line({e}, byDay[e])
            BY <6>1
          <6>3. m.days = {e}
            BY <5>1, <6>2
          <6>4. e = d
            BY <5>2, <6>3
          <6>. QED
            BY <6>2, <6>4
        <5>3. Line({d}, byDay[d]) \in others
          BY <2>6, <2>9, <3>3
        <5>4. d \in Line({d}, byDay[d]).days /\ Line({d}, byDay[d]).hours = Hours(byDay[d])
          BY <5>1
        <5>5. Line({d}, byDay[d]) \in Shown /\ \A m \in Shown : d \in m.days => m = Line({d}, byDay[d])
          BY <2>1, <3>1, <5>2, <5>3
        <5>. QED
          BY <5>4, <5>5, Zenon
      <4>. HIDE DEF Alone
      <4>. QED
        BY <1>3, <3>0, <4>1
    <3>. QED
      BY <3>2, <3>3
  <2>7. d \in 1..5 \/ d \in RestDays
    BY <1>8
  <2>. QED
    BY <2>5, <2>6, <2>7
<1>. QED
  BY <1>6, <1>7

\* Whatever the hours of a lobby by day, and on whatever single days: the site tells
\* each day once with its own hours, Monday not at all if weekdays differ, and a
\* single day until the day after (utils/utils.go SchedulesToLines).
THEOREM HoursOfAnyLobby ==
    ASSUME NEW byDay, NEW exceptions, DOMAIN exceptions \subseteq Int, NEW today \in Int
    PROVE  HoursShownFor(byDay, exceptions, today)
<1>. DEFINE lines == SchedulesToLines(byDay, exceptions, today)
<1>1. /\ lines.week = WeekLines(byDay)
      /\ lines.exceptions = ExceptionLines(exceptions, today)
  BY DEF SchedulesToLines
<1>2. ASSUME NEW d \in AllDays, ToldOnce(byDay, d)
      PROVE  Cardinality(Naming(byDay, d)) = 1 /\ \A l \in Naming(byDay, d) : l.hours = Hours(byDay[d])
  <2>1. PICK l \in Naming(byDay, d) : Naming(byDay, d) = {l}
    <3>1. PICK l \in Naming(byDay, d) : TRUE
      BY <1>2 DEF ToldOnce
    <3>2. \A m \in Naming(byDay, d) : m = l
      BY <1>2, <3>1, Zenon DEF ToldOnce
    <3>. QED
      BY <3>1, <3>2
  <2>2. Cardinality({l}) = 1
    BY FS_Singleton
  <2>3. Cardinality({l}) = Cardinality({l})
    BY DEF Cardinality, Cardinality
  <2>. QED
    BY <1>2, <2>1, <2>2, <2>3 DEF ToldOnce
<1>3. {line.yearDay : line \in lines.exceptions} = {d \in DOMAIN exceptions : d + 1 >= today}
  <2>1. \A d \in DOMAIN exceptions : d >= today - 1 <=> d + 1 >= today
    OBVIOUS
  <2>2. lines.exceptions = {[yearDay |-> d, hours |-> Hours(exceptions[d])] : d \in {d \in DOMAIN exceptions : d >= today - 1}}
    BY <1>1 DEF ExceptionLines
  <2>. HIDE DEF lines
  <2>3. ASSUME NEW line \in lines.exceptions
        PROVE  line.yearDay \in DOMAIN exceptions /\ line.yearDay >= today - 1
    <3>1. PICK d \in DOMAIN exceptions : d >= today - 1 /\ line = [yearDay |-> d, hours |-> Hours(exceptions[d])]
      BY <2>2
    <3>. QED
      BY <3>1
  <2>4. ASSUME NEW d \in DOMAIN exceptions, d >= today - 1
        PROVE  \E line \in lines.exceptions : line.yearDay = d
    <3>1. [yearDay |-> d, hours |-> Hours(exceptions[d])] \in lines.exceptions
      BY <2>2, <2>4
    <3>. QED
      BY <3>1
  <2>. QED
    BY <2>1, <2>3, <2>4
<1>. HIDE DEF lines
<1>4. \A d \in AllDays :
         LET shown == {line \in lines.week : d \in line.days}
         IN  IF d = 1 /\ ~weekdaysAllTheSame(byDay) THEN shown = {}
             ELSE Cardinality(shown) = 1 /\ \A line \in shown : line.hours = Hours(byDay[d])
  <2>. SUFFICES ASSUME NEW d \in AllDays
                PROVE  IF d = 1 /\ ~weekdaysAllTheSame(byDay) THEN Naming(byDay, d) = {}
                       ELSE Cardinality(Naming(byDay, d)) = 1 /\ \A line \in Naming(byDay, d) : line.hours = Hours(byDay[d])
    BY <1>1 DEF Naming
  <2>. QED
    BY <1>2, DaysAreTold
<1>. QED
  BY <1>3, <1>4 DEF HoursShownFor, lines

-----------------------------------------------------------------------------
(***************************************************************************)
(* Ranks and weeks. Sums of parts of a set.                                *)
(***************************************************************************)
\* Two parts have the sums of both together and of what they share.
LEMMA SumsAdd ==
    ASSUME NEW S, IsFiniteSet(S), NEW w \in [S -> Nat], NEW g, TotalsOf(g, w, S),
           NEW A \in SUBSET S, NEW B \in SUBSET S
    PROVE  g[A] + g[B] = g[A \cup B] + g[A \cap B]
<1>0. g \in [SUBSET S -> Nat] /\ g[{}] = 0 /\ \A Q \in SUBSET S : \A x \in S \ Q : g[Q \cup {x}] = w[x] + g[Q]
  BY DEF TotalsOf
<1>. DEFINE F == {Q \in SUBSET S : g[A] + g[Q] = g[A \cup Q] + g[A \cap Q]}
<1>1. {} \in F
  <2>1. A \cup {} = A /\ A \cap {} = {}
    OBVIOUS
  <2>. QED
    BY <1>0, <2>1
<1>2. ASSUME NEW Q \in SUBSET S, NEW x \in S \ Q, Q \in F
      PROVE  Q \cup {x} \in F
  <2>1. /\ g[A] \in Nat /\ g[Q] \in Nat /\ g[A \cup Q] \in Nat /\ g[A \cap Q] \in Nat /\ w[x] \in Nat
        /\ g[A] + g[Q] = g[A \cup Q] + g[A \cap Q]
    BY <1>0, <1>2
  <2>2. g[Q \cup {x}] = w[x] + g[Q] /\ Q \cup {x} \in SUBSET S
    BY <1>0, <1>2
  <2>0. /\ g[A] + (w[x] + g[Q]) = g[A \cup Q] + (w[x] + g[A \cap Q])
        /\ g[A] + (w[x] + g[Q]) = (w[x] + g[A \cup Q]) + g[A \cap Q]
    <3>. DEFINE a == g[A]
                b == g[Q]
                c == g[A \cup Q]
                d == g[A \cap Q]
                e == w[x]
    <3>1. a \in Nat /\ b \in Nat /\ c \in Nat /\ d \in Nat /\ e \in Nat /\ a + b = c + d
      BY <2>1
    <3>. HIDE DEF a, b, c, d, e
    <3>2. a + (e + b) = c + (e + d) /\ a + (e + b) = (e + c) + d
      BY <3>1
    <3>. QED
      BY <3>2 DEF a, b, c, d, e
  <2>3. CASE x \in A
    <3>1. A \cup (Q \cup {x}) = A \cup Q /\ A \cap (Q \cup {x}) = (A \cap Q) \cup {x}
      BY <2>3
    <3>2. A \cap Q \in SUBSET S /\ x \in S \ (A \cap Q)
      BY <1>2
    <3>3. g[(A \cap Q) \cup {x}] = w[x] + g[A \cap Q]
      BY <1>0, <3>2
    <3>4. g[A] + g[Q \cup {x}] = g[A \cup (Q \cup {x})] + g[A \cap (Q \cup {x})]
      <4>1. g[A] + (w[x] + g[Q]) = g[A \cup Q] + (w[x] + g[A \cap Q])
        BY <2>0
      <4>. QED
        BY <2>2, <3>1, <3>3, <4>1, Zenon
    <3>. QED
      BY <2>2, <3>4
  <2>4. CASE x \notin A
    <3>1. A \cup (Q \cup {x}) = (A \cup Q) \cup {x} /\ A \cap (Q \cup {x}) = A \cap Q
      BY <2>4
    <3>2. A \cup Q \in SUBSET S /\ x \in S \ (A \cup Q)
      BY <1>2, <2>4
    <3>3. g[(A \cup Q) \cup {x}] = w[x] + g[A \cup Q]
      BY <1>0, <3>2
    <3>4. g[A] + g[Q \cup {x}] = g[A \cup (Q \cup {x})] + g[A \cap (Q \cup {x})]
      <4>1. g[A] + (w[x] + g[Q]) = (w[x] + g[A \cup Q]) + g[A \cap Q]
        BY <2>0
      <4>. QED
        BY <2>2, <3>1, <3>3, <4>1, Zenon
    <3>. QED
      BY <2>2, <3>4
  <2>. QED
    BY <2>3, <2>4
<1>3. IsFiniteSet(B)
  BY FS_Subset
<1>4. B \in F
  <2>1. \A Q \in SUBSET B : \A x \in B \ Q : Q \in F => Q \cup {x} \in F
    BY <1>2
  <2>. HIDE DEF F
  <2>. QED
    BY <1>1, <1>3, <2>1, SubsetInduction, Zenon
<1>. QED
  BY <1>4

\* The parts share nothing, all is all of them, and v has the sum of each.
AreParts(part, K, all, v, g) ==
    /\ \A k, l \in K : k # l => part[k] \cap part[l] = {}
    /\ \A x : x \in all <=> \E k \in K : x \in part[k]
    /\ \A k \in K : v[k] = g[part[k]]

\* Parts that share nothing have the sum of all of them together.
LEMMA SumOfParts ==
    ASSUME NEW S, IsFiniteSet(S), NEW w \in [S -> Nat], NEW g, TotalsOf(g, w, S),
           NEW K, IsFiniteSet(K), NEW part \in [K -> SUBSET S],
           NEW v \in [K -> Nat], NEW all, AreParts(part, K, all, v, g)
    PROVE  Total(v) = g[all]
<1>. DEFINE Union(Q) == UNION {part[k] : k \in Q}
<1>0. g \in [SUBSET S -> Nat] /\ g[{}] = 0
  BY DEF TotalsOf
<1>1. all = Union(K)
  BY DEF AreParts
<1>2. PICK h : TotalsOf(h, v, K)
  BY Totals
<1>3. h \in [SUBSET K -> Nat] /\ h[{}] = 0 /\ \A Q \in SUBSET K : \A x \in K \ Q : h[Q \cup {x}] = v[x] + h[Q]
  BY <1>2 DEF TotalsOf
<1>4. Total(v) = h[K]
  <2>1. [k \in K |-> v[k]] = v
    OBVIOUS
  <2>2. Total([k \in K |-> v[k]]) = h[K]
    BY <1>2 DEF TotalsOf
  <2>. QED
    BY <2>1, <2>2
<1>. DEFINE F == {Q \in SUBSET K : h[Q] = g[Union(Q)]}
<1>5. {} \in F
  <2>1. Union({}) = {}
    OBVIOUS
  <2>. HIDE DEF Union
  <2>. QED
    BY <1>0, <1>3, <2>1
<1>6. ASSUME NEW Q \in SUBSET K, NEW x \in K \ Q, Q \in F
      PROVE  Q \cup {x} \in F
  <2>1. Union(Q \cup {x}) = Union(Q) \cup part[x]
    OBVIOUS
  <2>2. Union(Q) \in SUBSET S /\ part[x] \in SUBSET S
    OBVIOUS
  <2>3. Union(Q) \cap part[x] = {}
    <3>1. \A k \in Q : part[k] \cap part[x] = {}
      BY DEF AreParts
    <3>. QED
      BY <3>1
  <2>. HIDE DEF Union
  <2>4. g[Union(Q)] + g[part[x]] = g[Union(Q) \cup part[x]] + g[Union(Q) \cap part[x]]
    BY <2>2, SumsAdd
  <2>5. h[Q] = g[Union(Q)] /\ h[Q \cup {x}] = v[x] + h[Q] /\ v[x] = g[part[x]]
    BY <1>3, <1>6 DEF AreParts
  <2>6. g[Union(Q) \cup part[x]] = g[Union(Q)] + g[part[x]]
    <3>1. Union(Q) \cup part[x] \in SUBSET S
      BY <2>2
    <3>2. g[Union(Q) \cup part[x]] \in Nat
      BY <1>0, <3>1
    <3>3. g[Union(Q)] + g[part[x]] = g[Union(Q) \cup part[x]] + 0
      BY <1>0, <2>3, <2>4
    <3>. QED
      BY <3>2, <3>3
  <2>7. g[Union(Q)] \in Nat /\ g[part[x]] \in Nat
    BY <1>0, <2>2
  <2>8. h[Q \cup {x}] = g[Union(Q \cup {x})]
    <3>. DEFINE a == g[Union(Q)]
                b == g[part[x]]
    <3>1. a \in Nat /\ b \in Nat
      BY <2>7
    <3>2. h[Q \cup {x}] = b + a /\ g[Union(Q \cup {x})] = a + b
      BY <2>1, <2>5, <2>6, Zenon
    <3>. HIDE DEF a, b
    <3>. QED
      BY <3>1, <3>2
  <2>9. Q \cup {x} \in SUBSET K
    OBVIOUS
  <2>. QED
    BY <2>8, <2>9, Zenon
<1>. HIDE DEF F
<1>7. K \in F
  BY <1>5, <1>6, SubsetInduction, Zenon
<1>. QED
  BY <1>1, <1>4, <1>7 DEF F

LEMMA SameSums ==
    /\ \A w : Total(w) = Total(w)
    /\ \A S : Cardinality(S) = Cardinality(S)
BY DEF Total, MapThenSumSet, MapThenFoldSet, Total, MapThenSumSet, MapThenFoldSet,
       Cardinality, Cardinality

\* A ledger: finitely many transactions, which give XP.
IsLedger(ledger) == IsFiniteSet(ledger) /\ \A x \in ledger : x.Value \in Nat /\ x.Time \in Int

Values(ledger) == [x \in ledger |-> x.Value]

\* The sums of the parts of a ledger.
LEMMA LedgerSums ==
    ASSUME NEW ledger, IsLedger(ledger)
    PROVE  \E g : /\ TotalsOf(g, Values(ledger), ledger)
                  /\ \A part \in SUBSET ledger : Sum(part) = g[part]
<1>1. Values(ledger) \in [ledger -> Nat] /\ IsFiniteSet(ledger)
  BY DEF Values, IsLedger
<1>2. PICK g : TotalsOf(g, Values(ledger), ledger)
  BY <1>1, Totals
<1>3. ASSUME NEW part \in SUBSET ledger
      PROVE  Sum(part) = g[part]
  <2>1. [x \in part |-> Values(ledger)[x]] = [x \in part |-> x.Value]
    BY DEF Values
  <2>2. Total([x \in part |-> Values(ledger)[x]]) = g[part]
    BY <1>2 DEF TotalsOf
  <2>3. Sum(part) = Total([x \in part |-> x.Value])
    BY SameSums DEF Sum
  <2>. QED
    BY <2>1, <2>2, <2>3
<1>. QED
  BY <1>2, <1>3

\* What there is one of, or nothing, has its sum.
LEMMA SumOfOne ==
    ASSUME NEW a, a.Score \in Nat
    PROVE  /\ Total([row \in {a} |-> row.Score]) = a.Score
           /\ Total([row \in {} |-> row.Score]) = 0
<1>. DEFINE w == [row \in {a} |-> row.Score]
<1>1. IsFiniteSet({a}) /\ w \in [{a} -> Nat]
  BY FS_Singleton
<1>2. PICK g : TotalsOf(g, w, {a})
  BY <1>1, Totals
<1>3. /\ g[{}] = 0 /\ g[{} \cup {a}] = w[a] + g[{}]
      /\ Total([x \in {a} |-> w[x]]) = g[{a}] /\ Total([x \in {} |-> w[x]]) = g[{}]
  BY <1>2 DEF TotalsOf
<1>4. /\ {} \cup {a} = {a} /\ [x \in {a} |-> w[x]] = [row \in {a} |-> row.Score]
      /\ [x \in {} |-> w[x]] = [row \in {} |-> row.Score] /\ w[a] = a.Score
  OBVIOUS
<1>5. Total([row \in {a} |-> row.Score]) = a.Score + 0 /\ Total([row \in {} |-> row.Score]) = 0
  BY <1>3, <1>4
<1>. QED
  BY <1>5, SameSums

Sorted(q, key) == \A i, j \in DOMAIN q : i < j => key[q[i]] >= key[q[j]]

\* A finite set can be put in the order of a key.
LEMMA CanBeSorted ==
    ASSUME NEW S, IsFiniteSet(S), NEW key \in [S -> Int]
    PROVE  \E q \in SetToSeqs(S) : Sorted(q, key)
<1>. DEFINE Seqs(Q) == {q \in [1..Cardinality(Q) -> Q] : \A i, j \in 1..Cardinality(Q) : i # j => q[i] # q[j]}
            F == {n \in Nat : \A Q \in SUBSET S : Cardinality(Q) = n => \E q \in Seqs(Q) : Sorted(q, key)}
<1>1. \A Q \in SUBSET S : IsFiniteSet(Q) /\ Cardinality(Q) \in Nat /\ (Cardinality(Q) = 0 <=> Q = {})
  <2>. SUFFICES ASSUME NEW Q \in SUBSET S
                PROVE  IsFiniteSet(Q) /\ Cardinality(Q) \in Nat /\ (Cardinality(Q) = 0 <=> Q = {})
    OBVIOUS
  <2>1. IsFiniteSet(Q)
    BY FS_Subset
  <2>. QED
    BY <2>1, FS_CardinalityType, FS_EmptySet
<1>2. 0 \in F
  <2>. SUFFICES ASSUME NEW Q \in SUBSET S, Cardinality(Q) = 0
                PROVE  \E q \in Seqs(Q) : Sorted(q, key)
    OBVIOUS
  <2>1. <<>> \in [1..0 -> Q] /\ 1..0 = {}
    OBVIOUS
  <2>2. <<>> \in Seqs(Q)
    BY <2>1
  <2>3. Sorted(<<>>, key)
    BY DEF Sorted
  <2>. QED
    BY <2>2, <2>3
<1>3. ASSUME NEW n \in Nat, n \in F
      PROVE  n + 1 \in F
  <2>. SUFFICES ASSUME NEW Q \in SUBSET S, Cardinality(Q) = n + 1
                PROVE  \E q \in Seqs(Q) : Sorted(q, key)
    OBVIOUS
  <2>. DEFINE down == [x \in Q |-> -key[x]]
  <2>1. IsFiniteSet(Q) /\ Q # {}
    <3>1. n + 1 # 0
      OBVIOUS
    <3>. QED
      BY <1>1, <3>1
  <2>2. \A x \in Q : key[x] \in Int
    OBVIOUS
  <2>3. down \in [Q -> Int] /\ \A x \in Q : down[x] = -key[x]
    BY <2>2
  <2>. HIDE DEF down
  <2>4. PICK d \in Q : \A e \in Q : down[e] <= down[d]
    BY <2>1, <2>3, GreatestOf
  <2>5. \A e \in Q : key[e] >= key[d]
    BY <2>2, <2>3, <2>4
  <2>. DEFINE R == Q \ {d}
  <2>6. R \in SUBSET S /\ Cardinality(R) = n
    <3>1. Cardinality(R) = Cardinality(Q) - 1
      BY <2>1, FS_RemoveElement
    <3>. QED
      BY <3>1
  <2>7. PICK q \in Seqs(R) : Sorted(q, key)
    BY <1>3, <2>6
  <2>8. q \in [1..n -> R] /\ \A i, j \in 1..n : i # j => q[i] # q[j]
    BY <2>6, <2>7
  <2>. DEFINE more == [i \in 1..(n + 1) |-> IF i = n + 1 THEN d ELSE q[i]]
  <2>9. /\ \A i \in 1..(n + 1) : i = n + 1 \/ i \in 1..n
        /\ \A i \in 1..n : more[i] = q[i] /\ q[i] \in R /\ i < n + 1 /\ i \in 1..(n + 1)
        /\ more[n + 1] = d /\ DOMAIN more = 1..(n + 1) /\ DOMAIN q = 1..n
        /\ more = [i \in 1..(n + 1) |-> more[i]]
    <3>1. \A i \in 1..(n + 1) : more[i] = (IF i = n + 1 THEN d ELSE q[i])
      OBVIOUS
    <3>2. DOMAIN more = 1..(n + 1) /\ more = [i \in 1..(n + 1) |-> more[i]]
      OBVIOUS
    <3>3. n + 1 \in 1..(n + 1) /\ \A i \in 1..n : i \in 1..(n + 1) /\ i # n + 1 /\ i < n + 1
      OBVIOUS
    <3>4. \A i \in 1..(n + 1) : i = n + 1 \/ i \in 1..n
      OBVIOUS
    <3>5. DOMAIN q = 1..n /\ \A i \in 1..n : q[i] \in R
      BY <2>8
    <3>. HIDE DEF more, R
    <3>. QED
      BY <3>1, <3>2, <3>3, <3>4, <3>5
  <2>. HIDE DEF more
  <2>10. \A i \in 1..n : q[i] \in Q /\ q[i] # d
    BY <2>9
  <2>11. \A i \in 1..(n + 1) : more[i] \in Q
    BY <2>9, <2>10
  <2>12. more \in [1..(n + 1) -> Q]
    BY <2>9, <2>11
  <2>13. \A i, j \in 1..(n + 1) : i # j => more[i] # more[j]
    BY <2>8, <2>9, <2>10
  <2>14. more \in Seqs(Q)
    BY <2>12, <2>13
  <2>15. ASSUME NEW i \in 1..(n + 1), NEW j \in 1..(n + 1), i < j
         PROVE  key[more[i]] >= key[more[j]]
    <3>1. i \in 1..n
      BY <2>15
    <3>2. CASE j = n + 1
      BY <2>5, <2>9, <2>10, <3>1, <3>2
    <3>3. CASE j # n + 1
      <4>1. j \in 1..n
        BY <3>3
      <4>2. key[q[i]] >= key[q[j]]
        BY <2>7, <2>9, <2>15, <3>1, <4>1 DEF Sorted
      <4>. QED
        BY <2>9, <3>1, <4>1, <4>2
    <3>. QED
      BY <3>2, <3>3
  <2>16. Sorted(more, key)
    BY <2>9, <2>15 DEF Sorted
  <2>. QED
    BY <2>14, <2>16
<1>. HIDE DEF F, Seqs
<1>4. Nat \subseteq F
  BY <1>2, <1>3, NumberInduction
<1>5. \E q \in Seqs(S) : Sorted(q, key)
  BY <1>1, <1>4 DEF F
<1>6. SetToSeqs(S) = Seqs(S)
  BY SameSums DEF SetToSeqs, Seqs
<1>. QED
  BY <1>5, <1>6

\* Its sequences have each of its elements in one place.
LEMMA PlacesInOrder ==
    ASSUME NEW S, IsFiniteSet(S), NEW q \in SetToSeqs(S)
    PROVE  /\ Cardinality(S) \in Nat /\ q \in [1..Cardinality(S) -> S]
           /\ \A x \in S : \E i \in 1..Cardinality(S) : q[i] = x
           /\ \A i, j \in 1..Cardinality(S) : q[i] = q[j] => i = j
<1>. DEFINE n == Cardinality(S)
<1>1. n \in Nat /\ IsFiniteSet(1..n) /\ Cardinality(1..n) = n
  BY FS_CardinalityType, FS_Interval
<1>2. q \in [1..n -> S] /\ \A i, j \in 1..n : q[i] = q[j] => i = j
  BY SameSums DEF SetToSeqs
<1>. HIDE DEF n
<1>3. q \in Injection(1..n, S)
  BY <1>2 DEF Injection, IsInjective
<1>4. q \in Surjection(1..n, S)
  BY <1>1, <1>3, FS_Injection DEF n
<1>5. \A x \in S : \E i \in 1..n : q[i] = x
  BY <1>4 DEF Surjection
<1>. QED
  BY <1>1, <1>2, <1>5 DEF n

\* A player's transactions in a period.
Share(ledger, player, start, end) == {x \in ledger : x.DiscordID = player /\ start <= x.Time /\ x.Time <= end}

LEMMA ShareFacts ==
    ASSUME NEW ledger, NEW start, NEW end
    PROVE  LET period == Between(ledger, start, end)
           IN  /\ period \in SUBSET ledger
               /\ \A p : OfPlayer(period, p) = Share(ledger, p, start, end)
               /\ \A p : p \in Players(period) <=> Share(ledger, p, start, end) # {}
               /\ \A p : Share(ledger, p, start, end) \in SUBSET ledger
BY DEF Between, OfPlayer, Players, Share

RowsIn(board, player) == {row \in board : row.Player = player}

ScoreOf(rowsOfOne) == Total([row \in rowsOfOne |-> row.Score])

BoardTells(ledger, player, start, end, size, g) ==
    LET share == Share(ledger, player, start, end)
        board == Leaderboard(ledger, start, end, size, 2, {player})
    IN  /\ share = {} => RowsIn(board, player) = {}
        /\ share # {} => \E row : /\ RowsIn(board, player) = {row}
                                  /\ row.Position = RankBetween(ledger, player, start, end)
        /\ share # {} <=> RankBetween(ledger, player, start, end) # 0
        /\ ScoreOf(RowsIn(board, player)) = g[share]

\* The rows of a leaderboard that are a player's: one, with what he earned in the
\* period and his rank in it, if he earned anything.
LEMMA RowsOfBoard ==
    ASSUME NEW ledger, IsLedger(ledger), NEW player, NEW start, NEW end, NEW size \in Nat,
           NEW g, TotalsOf(g, Values(ledger), ledger), \A part \in SUBSET ledger : Sum(part) = g[part]
    PROVE  BoardTells(ledger, player, start, end, size, g)
<1>. DEFINE period == Between(ledger, start, end)
            P == Players(period)
            share == Share(ledger, player, start, end)
            board == Leaderboard(ledger, start, end, size, 2, {player})
            rowsOf == {row \in board : row.Player = player}
            rank == RankBetween(ledger, player, start, end)
            key == [p \in P |-> XPBalance(period, p)]
            q == CHOOSE q \in SetToSeqs(P) :
                     \A i, j \in DOMAIN q : i < j => XPBalance(period, q[i]) >= XPBalance(period, q[j])
            Position(p) == 1 + Cardinality(Ahead(period, p))
            Row1(i) == [Player |-> q[i], RowNum |-> i, Score |-> XPBalance(period, q[i]), Position |-> Position(q[i])]
            Shown(i) == i <= size \/ \E j \in DOMAIN q : q[j] \in {player} /\ i - j <= 2 /\ j - i <= 2
<1>1. /\ period \in SUBSET ledger /\ \A p : OfPlayer(period, p) = Share(ledger, p, start, end)
      /\ player \in P <=> share # {}
      /\ \A p : Share(ledger, p, start, end) \in SUBSET ledger
  BY ShareFacts
<1>2. /\ g \in [SUBSET ledger -> Nat] /\ g[{}] = 0
      /\ \A p : XPBalance(period, p) = g[Share(ledger, p, start, end)]
  BY <1>1 DEF TotalsOf, XPBalance
<1>3. \A p : XPBalance(period, p) \in Nat
  BY <1>1, <1>2
<1>4. IsFiniteSet(P)
  <2>. DEFINE f == [x \in period |-> x.DiscordID]
  <2>1. IsFiniteSet(period)
    BY <1>1, FS_Subset DEF IsLedger
  <2>2. f = [x \in period |-> f[x]]
    OBVIOUS
  <2>3. IsFiniteSet({f[x] : x \in period})
    <3>. HIDE DEF f
    <3>. QED
      BY <2>1, <2>2, FiniteImages
  <2>4. P = {f[x] : x \in period}
    BY DEF Players
  <2>. QED
    BY <2>3, <2>4
<1>5. board = {Row1(i) : i \in {i \in DOMAIN q : Shown(i)}}
  BY DEF Leaderboard, Descending
<1>6. rank = IF player \in P THEN Position(player) ELSE 0
  BY DEF RankBetween
<1>. HIDE DEF period, P, board, rank, share
<1>7. q \in SetToSeqs(P)
  <2>1. key \in [P -> Int] /\ \A p \in P : key[p] = XPBalance(period, p)
    BY <1>3
  <2>. HIDE DEF key
  <2>2. PICK s \in SetToSeqs(P) : Sorted(s, key)
    BY <1>4, <2>1, CanBeSorted
  <2>3. s \in [1..Cardinality(P) -> P]
    BY <1>4, PlacesInOrder
  <2>4. ASSUME NEW i \in DOMAIN s, NEW j \in DOMAIN s, i < j
        PROVE  XPBalance(period, s[i]) >= XPBalance(period, s[j])
    <3>1. s[i] \in P /\ s[j] \in P
      BY <2>3
    <3>2. key[s[i]] >= key[s[j]]
      BY <2>2, <2>4 DEF Sorted
    <3>. QED
      BY <2>1, <3>1, <3>2
  <2>. QED
    BY <2>4, Zenon
<1>8. PICK n \in Nat : /\ q \in [1..n -> P]
                       /\ \A p \in P : \E i \in 1..n : q[i] = p
                       /\ \A i, j \in 1..n : q[i] = q[j] => i = j
  <2>. HIDE DEF q
  <2>1. /\ Cardinality(P) \in Nat /\ q \in [1..Cardinality(P) -> P]
        /\ \A p \in P : \E i \in 1..Cardinality(P) : q[i] = p
        /\ \A i, j \in 1..Cardinality(P) : q[i] = q[j] => i = j
    BY <1>4, <1>7, PlacesInOrder
  <2>. QED
    BY <2>1, Zenon
<1>. HIDE DEF q, Position
<1>9. DOMAIN q = 1..n
  BY <1>8
<1>10. \A i : Row1(i).Player = q[i]
  OBVIOUS
<1>11. Position(player) # 0
  <2>1. Ahead(period, player) \in SUBSET P
    BY DEF Ahead, P
  <2>2. Cardinality(Ahead(period, player)) \in Nat
    BY <1>4, <2>1, FS_Subset, FS_CardinalityType
  <2>3. Position(player) = 1 + Cardinality(Ahead(period, player))
    BY SameSums DEF Position
  <2>. QED
    BY <2>2, <2>3
<1>12. ASSUME share = {}
       PROVE  rowsOf = {} /\ g[share] = 0
  <2>1. \A i \in 1..n : q[i] # player
    BY <1>1, <1>8, <1>12
  <2>. QED
    BY <1>2, <1>5, <1>9, <1>10, <1>12, <2>1
<1>13. ASSUME share # {}
       PROVE  \E i \in 1..n : q[i] = player /\ rowsOf = {Row1(i)}
  <2>1. PICK i \in 1..n : q[i] = player
    BY <1>1, <1>8, <1>13
  <2>2. Shown(i)
    BY <1>9, <2>1
  <2>3. Row1(i) \in rowsOf
    BY <1>5, <1>9, <1>10, <2>1, <2>2
  <2>4. ASSUME NEW row \in rowsOf
        PROVE  row = Row1(i)
    <3>1. PICK j \in 1..n : row = Row1(j)
      BY <1>5, <1>9
    <3>2. q[j] = player
      BY <1>10, <3>1
    <3>3. j = i
      BY <1>8, <2>1, <3>2
    <3>. QED
      BY <3>1, <3>3
  <2>. QED
    BY <2>1, <2>3, <2>4
<1>14. ASSUME share # {}
       PROVE  \E row : /\ rowsOf = {row} /\ row.Score = g[share] /\ row.Position = rank
  <2>1. PICK i \in 1..n : q[i] = player /\ rowsOf = {Row1(i)}
    BY <1>13, <1>14
  <2>2. Row1(i).Score = XPBalance(period, player) /\ Row1(i).Position = Position(player)
    BY <2>1
  <2>3. XPBalance(period, player) = g[share]
    BY <1>2 DEF share
  <2>4. Position(player) = rank
    BY <1>1, <1>6, <1>14
  <2>. HIDE DEF Row1, rowsOf
  <2>. QED
    BY <2>1, <2>2, <2>3, <2>4
<1>15. share # {} <=> rank # 0
  BY <1>1, <1>6, <1>11
<1>16. Total([row \in rowsOf |-> row.Score]) = g[share]
  <2>1. CASE share = {}
    <3>1. [Score |-> 0].Score \in Nat
      OBVIOUS
    <3>2. Total([row \in {} |-> row.Score]) = 0
      BY <3>1, SumOfOne
    <3>. HIDE DEF rowsOf
    <3>. QED
      BY <1>12, <2>1, <3>2
  <2>2. CASE share # {}
    <3>. HIDE DEF rowsOf
    <3>1. PICK row : rowsOf = {row} /\ row.Score = g[share]
      BY <1>14, <2>2
    <3>2. g[share] \in Nat
      BY <1>1, <1>2 DEF share
    <3>3. Total([r \in {row} |-> r.Score]) = row.Score
      BY <3>1, <3>2, SumOfOne
    <3>. QED
      BY <3>1, <3>3
  <2>. QED
    BY <2>1, <2>2
<1>17. rowsOf = RowsIn(board, player)
  BY DEF RowsIn
<1>. HIDE DEF rowsOf
<1>18. ScoreOf(rowsOf) = g[share]
  BY <1>16 DEF ScoreOf
<1>. QED
  BY <1>12, <1>14, <1>15, <1>17, <1>18, Zenon DEF share, board, rank, BoardTells

\* The sum of five.
LEMMA SumOfFive ==
    ASSUME NEW w \in [1..5 -> Nat]
    PROVE  Total(w) = w[1] + w[2] + w[3] + w[4] + w[5]
<1>1. IsFiniteSet(1..5)
  <2>1. \A n \in Nat : IsFiniteSet(1..n)
    BY FS_Interval
  <2>. QED
    BY <2>1
<1>2. PICK g : TotalsOf(g, w, 1..5)
  BY <1>1, Totals
<1>. DEFINE p == [k \in 0..5 |-> g[1..k]]
<1>3. ASSUME NEW k \in 0..4
      PROVE  p[k + 1] = w[k + 1] + p[k]
  <2>1. 1..(k + 1) = (1..k) \cup {k + 1} /\ 1..k \in SUBSET (1..5) /\ k + 1 \in (1..5) \ (1..k)
    <3>1. k \in Nat
      OBVIOUS
    <3>2. 1..(k + 1) = (1..k) \cup {k + 1}
      BY <3>1
    <3>3. 1..k \in SUBSET (1..5) /\ k + 1 \in 1..5 /\ k + 1 \notin 1..k
      OBVIOUS
    <3>. QED
      BY <3>2, <3>3
  <2>2. g[1..(k + 1)] = w[k + 1] + g[1..k]
    <3>. DEFINE Q == 1..k
                x == k + 1
    <3>1. \A P \in SUBSET (1..5) : \A y \in (1..5) \ P : g[P \cup {y}] = w[y] + g[P]
      BY <1>2, Zenon DEF TotalsOf
    <3>2. Q \in SUBSET (1..5) /\ x \in (1..5) \ Q /\ 1..(k + 1) = Q \cup {x}
      BY <2>1
    <3>. HIDE DEF Q, x
    <3>3. g[Q \cup {x}] = w[x] + g[Q]
      BY <3>1, <3>2, Zenon
    <3>4. g[1..(k + 1)] = w[x] + g[Q]
      BY <3>2, <3>3, Zenon
    <3>. QED
      BY <3>4 DEF Q, x
  <2>3. p[k + 1] = g[1..(k + 1)] /\ p[k] = g[1..k]
    OBVIOUS
  <2>. HIDE DEF p
  <2>. QED
    BY <2>2, <2>3
<1>4. p[0] = 0 /\ p[5] = g[1..5]
  <2>1. 1..0 = {} /\ g[{}] = 0
    BY <1>2 DEF TotalsOf
  <2>2. p[0] = g[1..0] /\ p[5] = g[1..5]
    OBVIOUS
  <2>. HIDE DEF p
  <2>. QED
    BY <2>1, <2>2, Zenon
<1>5. w[1] \in Nat /\ w[2] \in Nat /\ w[3] \in Nat /\ w[4] \in Nat /\ w[5] \in Nat
  OBVIOUS
<1>. HIDE DEF p
<1>6. p[1] = w[1] + p[0] /\ p[2] = w[2] + p[1] /\ p[3] = w[3] + p[2] /\ p[4] = w[4] + p[3] /\ p[5] = w[5] + p[4]
  BY <1>3
<1>7. Total([i \in 1..5 |-> w[i]]) = g[1..5]
  BY <1>2 DEF TotalsOf
<1>8. [i \in 1..5 |-> w[i]] = w
  OBVIOUS
<1>9. p[5] = w[1] + w[2] + w[3] + w[4] + w[5]
  BY <1>4, <1>5, <1>6
<1>. QED
  BY <1>4, <1>7, <1>8, <1>9, SameSums, Zenon

Since(ledger, player, t) == {x \in ledger : x.DiscordID = player /\ x.Time >= t}

At(ledger, player, t) == {x \in ledger : x.DiscordID = player /\ x.Time = t}

\* One week more: what was earned since it began, and its end once more.
LEMMA OneWeekMore ==
    ASSUME NEW ledger, IsLedger(ledger), NEW player, NEW g, TotalsOf(g, Values(ledger), ledger),
           NEW s \in Int, NEW t \in Int, s < t
    PROVE  g[Since(ledger, player, t)] + g[Share(ledger, player, s, t)]
             = g[Since(ledger, player, s)] + g[At(ledger, player, t)]
<1>1. IsFiniteSet(ledger) /\ Values(ledger) \in [ledger -> Nat]
  BY DEF IsLedger, Values
<1>2. Since(ledger, player, t) \in SUBSET ledger /\ Share(ledger, player, s, t) \in SUBSET ledger
  BY DEF Since, Share
<1>3. \A x \in ledger : x.Time \in Int
  BY DEF IsLedger
<1>4. /\ Since(ledger, player, t) \cup Share(ledger, player, s, t) = Since(ledger, player, s)
      /\ Since(ledger, player, t) \cap Share(ledger, player, s, t) = At(ledger, player, t)
  BY <1>3 DEF Since, Share, At
<1>5. g[Since(ledger, player, t)] + g[Share(ledger, player, s, t)]
        = g[Since(ledger, player, t) \cup Share(ledger, player, s, t)]
          + g[Since(ledger, player, t) \cap Share(ledger, player, s, t)]
  BY <1>1, <1>2, SumsAdd
<1>. QED
  BY <1>4, <1>5, Zenon

AtAny(ledger, player, a, b, c, d) ==
    {x \in ledger : x.DiscordID = player /\ (x.Time = a \/ x.Time = b \/ x.Time = c \/ x.Time = d)}

\* What was earned at one of four times is earned at each of them.
LEMMA AtFourTimes ==
    ASSUME NEW ledger, IsLedger(ledger), NEW player, NEW g, TotalsOf(g, Values(ledger), ledger),
           NEW a \in Int, NEW b \in Int, NEW c \in Int, NEW d \in Int, a > b, b > c, c > d
    PROVE  g[AtAny(ledger, player, a, b, c, d)]
             = g[At(ledger, player, a)] + g[At(ledger, player, b)] + g[At(ledger, player, c)] + g[At(ledger, player, d)]
<1>. DEFINE A == At(ledger, player, a)
            B == At(ledger, player, b)
            C == At(ledger, player, c)
            D == At(ledger, player, d)
<1>1. IsFiniteSet(ledger) /\ Values(ledger) \in [ledger -> Nat] /\ g \in [SUBSET ledger -> Nat] /\ g[{}] = 0
  BY DEF IsLedger, Values, TotalsOf
<1>2. /\ A \in SUBSET ledger /\ B \in SUBSET ledger /\ C \in SUBSET ledger /\ D \in SUBSET ledger
      /\ A \cap B = {} /\ (A \cup B) \cap C = {} /\ (A \cup B \cup C) \cap D = {}
  BY DEF At
<1>3. AtAny(ledger, player, a, b, c, d) = A \cup B \cup C \cup D
  BY DEF At, AtAny
<1>. HIDE DEF A, B, C, D
<1>4. A \cup B \in SUBSET ledger /\ A \cup B \cup C \in SUBSET ledger /\ A \cup B \cup C \cup D \in SUBSET ledger
  BY <1>2
<1>5. ASSUME NEW X \in SUBSET ledger, NEW Y \in SUBSET ledger, X \cap Y = {}
      PROVE  g[X \cup Y] = g[X] + g[Y] /\ g[X] \in Nat /\ g[Y] \in Nat
  <2>1. g[X] + g[Y] = g[X \cup Y] + g[X \cap Y]
    BY <1>1, SumsAdd
  <2>2. X \cup Y \in SUBSET ledger
    OBVIOUS
  <2>3. g[X \cup Y] \in Nat /\ g[X] \in Nat /\ g[Y] \in Nat
    BY <1>1, <2>2
  <2>. DEFINE x == g[X]
              y == g[Y]
              z == g[X \cup Y]
  <2>4. x + y = z + 0 /\ x \in Nat /\ y \in Nat /\ z \in Nat
    BY <1>1, <1>5, <2>1, <2>3
  <2>. HIDE DEF x, y, z
  <2>5. z = x + y
    BY <2>4
  <2>. QED
    BY <2>3, <2>5 DEF x, y, z
<1>6. g[A \cup B] = g[A] + g[B] /\ g[A \cup B \cup C] = g[A \cup B] + g[C] /\ g[A \cup B \cup C \cup D] = g[A \cup B \cup C] + g[D]
  BY <1>2, <1>4, <1>5
<1>. QED
  BY <1>3, <1>6, Zenon DEF A, B, C, D

\* XP by type adds up to XP.
LEMMA TypesAddUp ==
    ASSUME NEW ledger, IsLedger(ledger), NEW player,
           NEW g, TotalsOf(g, Values(ledger), ledger), \A part \in SUBSET ledger : Sum(part) = g[part]
    PROVE  Total([type \in {x.Type : x \in ledger} |-> XPBalanceWithType(ledger, player, type)])
             = XPBalance(ledger, player)
<1>. DEFINE K == {x.Type : x \in ledger}
            part == [type \in K |-> {x \in ledger : x.DiscordID = player /\ x.Type = type}]
            mine == {x \in ledger : x.DiscordID = player}
<1>1. IsFiniteSet(ledger) /\ Values(ledger) \in [ledger -> Nat]
  BY DEF IsLedger, Values
<1>2. IsFiniteSet(K)
  <2>. DEFINE f == [x \in ledger |-> x.Type]
  <2>1. f = [x \in ledger |-> f[x]] /\ {f[x] : x \in ledger} = K
    OBVIOUS
  <2>. HIDE DEF f, K
  <2>. QED
    BY <1>1, <2>1, FiniteImages
<1>3. /\ part \in [K -> SUBSET ledger]
      /\ \A type \in K : part[type] = {x \in ledger : x.DiscordID = player /\ x.Type = type}
  OBVIOUS
<1>4. UNION {part[type] : type \in K} = mine
  <2>1. \A x \in mine : x.Type \in K /\ x \in part[x.Type]
    OBVIOUS
  <2>. HIDE DEF part, K
  <2>2. \A type \in K : part[type] \subseteq mine
    BY <1>3
  <2>. QED
    BY <2>1, <2>2
<1>5. \A type \in K : XPBalanceWithType(ledger, player, type) = g[part[type]]
  <2>. SUFFICES ASSUME NEW type \in K
                PROVE  XPBalanceWithType(ledger, player, type) = g[part[type]]
    OBVIOUS
  <2>1. OfType(OfPlayer(ledger, player), type) = part[type]
    BY <1>3 DEF OfType, OfPlayer
  <2>2. part[type] \in SUBSET ledger
    BY <1>3
  <2>. HIDE DEF part
  <2>. QED
    BY <2>1, <2>2 DEF XPBalanceWithType
<1>6. XPBalance(ledger, player) = g[mine]
  <2>1. OfPlayer(ledger, player) = mine /\ mine \in SUBSET ledger
    BY DEF OfPlayer
  <2>. QED
    BY <2>1 DEF XPBalance
<1>. HIDE DEF K, part, mine
<1>7. \A k, l \in K : k # l => part[k] \cap part[l] = {}
  <2>. SUFFICES ASSUME NEW k \in K, NEW l \in K, k # l, NEW x, x \in part[k], x \in part[l]
                PROVE  FALSE
    BY Zenon
  <2>1. x.Type = k /\ x.Type = l
    <3>1. /\ part[k] = {y \in ledger : y.DiscordID = player /\ y.Type = k}
          /\ part[l] = {y \in ledger : y.DiscordID = player /\ y.Type = l}
      BY <1>3, Zenon
    <3>. QED
      BY <3>1
  <2>. QED
    BY <2>1
<1>8. Total([type \in K |-> g[part[type]]]) = g[mine]
  <2>. DEFINE v == [type \in K |-> g[part[type]]]
  <2>1. v \in [K -> Nat] /\ \A type \in K : v[type] = g[part[type]]
    BY <1>3 DEF TotalsOf
  <2>2. \A x : x \in mine <=> \E type \in K : x \in part[type]
    BY <1>4
  <2>3. part \in [K -> SUBSET ledger]
    BY <1>3
  <2>. HIDE DEF v
  <2>4. Total(v) = g[mine]
    BY <1>1, <1>2, <1>7, <2>1, <2>2, <2>3, SumOfParts DEF AreParts
  <2>. QED
    BY <2>4 DEF v
<1>9. [type \in K |-> XPBalanceWithType(ledger, player, type)] = [type \in K |-> g[part[type]]]
  BY <1>5
<1>10. Total([type \in K |-> XPBalanceWithType(ledger, player, type)]) = XPBalance(ledger, player)
  BY <1>6, <1>8, <1>9, SameSums
<1>. QED
  BY <1>10 DEF K

\* All of the transactions, in some order, are those of the player.
LEMMA AllTransactions ==
    ASSUME NEW ledger, IsLedger(ledger), NEW player
    PROVE  Range(XPTransactionsLimit(ledger, player, Cardinality(ledger)))
             = OfPlayer(ledger, player)
<1>. DEFINE mine == OfPlayer(ledger, player)
            key == [x \in mine |-> x.Time]
            q == CHOOSE q \in SetToSeqs(mine) : \A i, j \in DOMAIN q : i < j => q[i].Time >= q[j].Time
            limit == Cardinality(ledger)
<1>1. mine \subseteq ledger
  BY DEF OfPlayer
<1>2. IsFiniteSet(mine) /\ Cardinality(mine) <= limit /\ limit \in Nat /\ Cardinality(mine) \in Nat
  <2>1. IsFiniteSet(ledger)
    BY DEF IsLedger
  <2>. HIDE DEF mine
  <2>. QED
    BY <1>1, <2>1, FS_Subset, FS_CardinalityType, SameSums
<1>3. \A x \in mine : x.Time \in Int
  BY <1>1 DEF IsLedger
<1>4. XPTransactionsLimit(ledger, player, limit) = SubSeq(q, 1, Min({limit, Len(q)}))
  BY DEF XPTransactionsLimit, Descending
<1>. HIDE DEF mine
<1>5. q \in SetToSeqs(mine)
  <2>1. key \in [mine -> Int] /\ \A x \in mine : key[x] = x.Time
    BY <1>3
  <2>. HIDE DEF key
  <2>2. PICK s \in SetToSeqs(mine) : Sorted(s, key)
    BY <1>2, <2>1, CanBeSorted
  <2>3. s \in [1..Cardinality(mine) -> mine]
    BY <1>2, PlacesInOrder
  <2>4. ASSUME NEW i \in DOMAIN s, NEW j \in DOMAIN s, i < j
        PROVE  s[i].Time >= s[j].Time
    <3>1. s[i] \in mine /\ s[j] \in mine
      BY <2>3
    <3>2. key[s[i]] >= key[s[j]]
      BY <2>2, <2>4 DEF Sorted
    <3>. QED
      BY <2>1, <3>1, <3>2
  <2>. QED
    BY <2>4, Zenon
<1>. HIDE DEF q, limit
<1>6. /\ q \in [1..Cardinality(mine) -> mine]
      /\ \A x \in mine : \E i \in 1..Cardinality(mine) : q[i] = x
  BY <1>2, <1>5, PlacesInOrder
<1>7. Len(q) = Cardinality(mine) /\ q \in Seq(mine)
  BY <1>2, <1>6
<1>8. Min({limit, Len(q)}) = Len(q)
  <2>1. Min({limit, Len(q)}) = Min({limit, Len(q)})
    BY DEF Min, Min
  <2>2. Len(q) \in Int /\ limit \in Int /\ Len(q) <= limit
    BY <1>2, <1>7
  <2>3. Min({limit, Len(q)}) = IF limit <= Len(q) THEN limit ELSE Len(q)
    BY <2>2, OfTwo
  <2>4. (IF limit <= Len(q) THEN limit ELSE Len(q)) = Len(q)
    BY <2>2
  <2>. QED
    BY <2>1, <2>3, <2>4, Zenon
<1>9. SubSeq(q, 1, Len(q)) = q
  BY <1>7
<1>10. Range(q) = mine
  BY <1>6 DEF Range
<1>. QED
  BY <1>4, <1>8, <1>9, <1>10 DEF mine, limit

\* Whatever XP finitely many transactions gave, at any times until now: the rank and
\* the sums beside a player's name are those of the leaderboards and of his
\* transactions, and weeks follow one another, with what was earned at a seam in both
\* (types/pp_player.go RankBetween, types/posplay.go, posplay/web.go).
THEOREM RanksOfAnyLedger ==
    ASSUME NEW ledger, IsLedger(ledger), NEW player, NEW clock \in Nat,
           \A x \in ledger : 0 <= x.Time /\ x.Time <= clock
    PROVE  RanksAgreeIn(ledger, player, clock)
<1>. DEFINE W == Week
            ws == WeekStart(clock)
            weeks == WeekPage(ledger, player, clock)
            allTime == AllTimePage(ledger, player, clock)
            commons == PageCommons(ledger, player, clock)
            starts == [i \in 1..5 |-> ws - (i - 1) * W]
            ends == [i \in 1..5 |-> IF i = 1 THEN clock ELSE starts[i] + W]
            RowsOf(board) == RowsIn(board, player)
            ScoreIn(board) == ScoreOf(RowsIn(board, player))
            mine == OfPlayer(ledger, player)
            Part(s, e) == Share(ledger, player, s, e)
<1>1. W \in Nat /\ W > 0
  BY RecordsAssumption DEF Week
<1>2. ws \in Int
  <2>1. \A m \in Int, d \in Nat : d > 0 => m \div d \in Int
    OBVIOUS
  <2>2. (clock - 2) \div Week \in Int
    BY <1>1, <2>1
  <2>. QED
    BY <1>1, <2>2 DEF WeekStart
<1>. HIDE DEF W, ws
<1>3. /\ starts[1] = ws /\ starts[2] = ws - W /\ starts[3] = ws - 2 * W /\ starts[4] = ws - 3 * W /\ starts[5] = ws - 4 * W
      /\ ends[1] = clock /\ ends[2] = starts[1] /\ ends[3] = starts[2] /\ ends[4] = starts[3] /\ ends[5] = starts[4]
      /\ \A i \in 1..5 : starts[i] \in Int
  BY <1>1, <1>2
<1>4. ASSUME NEW i \in 1..5
      PROVE  weeks[i] = Leaderboard(ledger, starts[i], ends[i], 15, 2, {player})
  BY DEF WeekPage, W, ws
<1>5. allTime = Leaderboard(ledger, 0, clock, 50, 2, {player})
  BY DEF AllTimePage
<1>. HIDE DEF weeks, allTime, starts, ends
<1>6. PICK g : TotalsOf(g, Values(ledger), ledger) /\ \A part \in SUBSET ledger : Sum(part) = g[part]
  BY LedgerSums
<1>7. ASSUME NEW s, NEW e
      PROVE  Part(s, e) \in SUBSET ledger /\ g[Part(s, e)] \in Nat
  BY <1>6 DEF Share, TotalsOf
<1>8. mine \in SUBSET ledger /\ mine = Part(0, clock)
  BY DEF OfPlayer, Share
<1>9. commons.XP = g[mine]
  BY <1>6, <1>8 DEF PageCommons, XPBalance
<1>10. commons.XPthisWeek = g[Part(ws, clock)]
  <2>1. commons.XPthisWeek = Sum(OfPlayer(Between(ledger, ws, clock), player))
    BY DEF PageCommons, XPBalanceBetween, ws
  <2>2. OfPlayer(Between(ledger, ws, clock), player) = Part(ws, clock)
    BY ShareFacts
  <2>. QED
    BY <1>6, <1>7, <2>1, <2>2
<1>11. commons.RankThisWeek = RankBetween(ledger, player, ws, clock)
  BY DEF PageCommons, ws
<1>12. ASSUME NEW s, NEW e, NEW size \in Nat
       PROVE  BoardTells(ledger, player, s, e, size, g)
  BY <1>6, RowsOfBoard
<1>13. \A i \in 1..5 : ScoreIn(weeks[i]) = g[Part(starts[i], ends[i])]
  <2>. SUFFICES ASSUME NEW i \in 1..5
                PROVE  ScoreIn(weeks[i]) = g[Part(starts[i], ends[i])]
    OBVIOUS
  <2>1. BoardTells(ledger, player, starts[i], ends[i], 15, g)
    <3>1. 15 \in Nat
      OBVIOUS
    <3>. QED
      BY <1>12, <3>1
  <2>2. weeks[i] = Leaderboard(ledger, starts[i], ends[i], 15, 2, {player})
    BY <1>4
  <2>. QED
    BY <2>1, <2>2, Zenon DEF BoardTells
<1>14. ScoreIn(allTime) = g[mine]
  <2>1. 50 \in Nat
    OBVIOUS
  <2>2. ScoreOf(RowsIn(Leaderboard(ledger, 0, clock, 50, 2, {player}), player)) = g[Share(ledger, player, 0, clock)]
    <3>1. BoardTells(ledger, player, 0, clock, 50, g)
      BY <1>12, <2>1
    <3>. QED
      BY <3>1, Zenon DEF BoardTells
  <2>. QED
    BY <1>5, <1>8, <2>2, Zenon
<1>15. /\ \A row \in RowsOf(weeks[1]) : row.Position = commons.RankThisWeek
       /\ RowsOf(weeks[1]) = {} <=> commons.RankThisWeek = 0
  <2>. DEFINE rank == RankBetween(ledger, player, ws, clock)
  <2>1. weeks[1] = Leaderboard(ledger, ws, clock, 15, 2, {player})
    BY <1>3, <1>4
  <2>2. /\ Part(ws, clock) = {} => RowsOf(weeks[1]) = {}
        /\ Part(ws, clock) # {} => \E row : RowsOf(weeks[1]) = {row} /\ row.Position = rank
        /\ Part(ws, clock) # {} <=> rank # 0
    <3>. DEFINE board == Leaderboard(ledger, ws, clock, 15, 2, {player})
                share == Share(ledger, player, ws, clock)
    <3>1. 15 \in Nat
      OBVIOUS
    <3>2. /\ share = {} => RowsIn(board, player) = {}
          /\ share # {} => \E row : /\ RowsIn(board, player) = {row}
                                    /\ row.Position = RankBetween(ledger, player, ws, clock)
          /\ share # {} <=> RankBetween(ledger, player, ws, clock) # 0
      BY <1>12, <3>1, Zenon DEF BoardTells
    <3>. HIDE DEF board, share, rank
    <3>3. RowsOf(weeks[1]) = RowsIn(board, player) /\ Part(ws, clock) = share
      BY <2>1 DEF board, share
    <3>4. rank = RankBetween(ledger, player, ws, clock)
      BY DEF rank
    <3>. HIDE DEF RowsOf, Part
    <3>. QED
      BY <3>2, <3>3, <3>4
  <2>. HIDE DEF rank, RowsOf
  <2>. QED
    BY <1>11, <2>2 DEF rank
<1>. HIDE DEF RowsOf, ScoreIn, mine, commons
<1>16. Sum(Range(XPTransactionsLimit(ledger, player, Cardinality(ledger)))) = commons.XP
  BY <1>6, <1>8, <1>9, AllTransactions DEF mine
<1>17. Total([type \in {x.Type : x \in ledger} |-> XPBalanceWithType(ledger, player, type)]) = commons.XP
  BY <1>6, TypesAddUp DEF commons, PageCommons
<1>18. Total([i \in 1..5 |-> ScoreIn(weeks[i])])
         = Sum({x \in mine : x.Time >= starts[5]})
           + Sum({x \in mine : x.Time = starts[1] \/ x.Time = starts[2] \/ x.Time = starts[3] \/ x.Time = starts[4]})
  <2>. DEFINE w == [i \in 1..5 |-> g[Part(starts[i], ends[i])]]
              since == [i \in 1..5 |-> Since(ledger, player, starts[i])]
              at == [i \in 1..4 |-> At(ledger, player, starts[i])]
              seams == AtAny(ledger, player, starts[1], starts[2], starts[3], starts[4])
  <2>1. [i \in 1..5 |-> ScoreIn(weeks[i])] = w
    BY <1>13
  <2>2. w \in [1..5 -> Nat] /\ \A i \in 1..5 : w[i] = g[Part(starts[i], ends[i])]
    BY <1>7
  <2>3. Total(w) = w[1] + w[2] + w[3] + w[4] + w[5]
    <3>. HIDE DEF w
    <3>. QED
      BY <2>2, SumOfFive
  <2>4. w[1] = g[since[1]]
    <3>1. Part(starts[1], ends[1]) = since[1]
      BY <1>3 DEF Share, Since
    <3>. QED
      BY <2>2, <3>1
  <2>5. ASSUME NEW i \in 1..4
        PROVE  g[since[i]] + w[i + 1] = g[since[i + 1]] + g[at[i]]
    <3>1. starts[i] \in Int /\ starts[i + 1] \in Int /\ starts[i + 1] < starts[i] /\ ends[i + 1] = starts[i]
      <4>1. i = 1 \/ i = 2 \/ i = 3 \/ i = 4
        OBVIOUS
      <4>. QED
        BY <1>1, <1>2, <1>3, <4>1
    <3>2. g[Since(ledger, player, starts[i])] + g[Share(ledger, player, starts[i + 1], starts[i])]
            = g[Since(ledger, player, starts[i + 1])] + g[At(ledger, player, starts[i])]
      BY <1>6, <3>1, OneWeekMore
    <3>3. /\ since[i] = Since(ledger, player, starts[i]) /\ since[i + 1] = Since(ledger, player, starts[i + 1])
          /\ at[i] = At(ledger, player, starts[i]) /\ w[i + 1] = g[Share(ledger, player, starts[i + 1], starts[i])]
      BY <3>1
    <3>. QED
      BY <3>2, <3>3, Zenon
  <2>6. g[seams] = g[at[1]] + g[at[2]] + g[at[3]] + g[at[4]]
    <3>1. /\ starts[1] \in Int /\ starts[2] \in Int /\ starts[3] \in Int /\ starts[4] \in Int
          /\ starts[1] > starts[2] /\ starts[2] > starts[3] /\ starts[3] > starts[4]
      BY <1>1, <1>2, <1>3
    <3>2. g[seams] = g[At(ledger, player, starts[1])] + g[At(ledger, player, starts[2])]
                     + g[At(ledger, player, starts[3])] + g[At(ledger, player, starts[4])]
      BY <1>6, <3>1, AtFourTimes
    <3>3. /\ at[1] = At(ledger, player, starts[1]) /\ at[2] = At(ledger, player, starts[2])
          /\ at[3] = At(ledger, player, starts[3]) /\ at[4] = At(ledger, player, starts[4])
      OBVIOUS
    <3>. QED
      BY <3>2, <3>3, Zenon
  <2>7. /\ \A i \in 1..5 : since[i] \in SUBSET ledger /\ g[since[i]] \in Nat
        /\ \A i \in 1..4 : at[i] \in SUBSET ledger /\ g[at[i]] \in Nat
    BY <1>6 DEF Since, At, TotalsOf
  <2>8. Sum({x \in mine : x.Time >= starts[5]}) = g[since[5]]
    <3>1. {x \in mine : x.Time >= starts[5]} = since[5]
      BY DEF Since, mine, OfPlayer
    <3>2. since[5] \in SUBSET ledger
      BY <2>7
    <3>. HIDE DEF since
    <3>3. Sum(since[5]) = g[since[5]]
      BY <1>6, <3>2
    <3>. QED
      BY <3>1, <3>3, Zenon
  <2>9. Sum({x \in mine : x.Time = starts[1] \/ x.Time = starts[2] \/ x.Time = starts[3] \/ x.Time = starts[4]})
          = g[seams]
    <3>1. {x \in mine : x.Time = starts[1] \/ x.Time = starts[2] \/ x.Time = starts[3] \/ x.Time = starts[4]} = seams
      BY DEF mine, OfPlayer, AtAny
    <3>2. seams \in SUBSET ledger
      BY DEF AtAny
    <3>. HIDE DEF seams
    <3>. QED
      BY <1>6, <3>1, <3>2
  <2>10. w[1] + w[2] + w[3] + w[4] + w[5] = g[since[5]] + g[seams]
    <3>. DEFINE s1 == g[since[1]]
                s2 == g[since[2]]
                s3 == g[since[3]]
                s4 == g[since[4]]
                s5 == g[since[5]]
                a1 == g[at[1]]
                a2 == g[at[2]]
                a3 == g[at[3]]
                a4 == g[at[4]]
                w1 == w[1]
                w2 == w[2]
                w3 == w[3]
                w4 == w[4]
                w5 == w[5]
                all == g[seams]
    <3>. HIDE DEF w, since, at, seams
    <3>1. /\ s1 \in Nat /\ s2 \in Nat /\ s3 \in Nat /\ s4 \in Nat /\ s5 \in Nat
          /\ a1 \in Nat /\ a2 \in Nat /\ a3 \in Nat /\ a4 \in Nat
          /\ w2 \in Nat /\ w3 \in Nat /\ w4 \in Nat /\ w5 \in Nat
      BY <2>2, <2>7
    <3>2. 1 + 1 = 2 /\ 2 + 1 = 3 /\ 3 + 1 = 4 /\ 4 + 1 = 5
      OBVIOUS
    <3>3. \A i \in 1..4 : g[since[i]] + w[i + 1] = g[since[i + 1]] + g[at[i]]
      BY <2>5
    <3>4. s1 + w2 = s2 + a1 /\ s2 + w3 = s3 + a2 /\ s3 + w4 = s4 + a3 /\ s4 + w5 = s5 + a4
      BY <3>2, <3>3
    <3>5. w1 = s1 /\ all = a1 + a2 + a3 + a4
      BY <2>4, <2>6
    <3>. HIDE DEF s1, s2, s3, s4, s5, a1, a2, a3, a4, w1, w2, w3, w4, w5, all
    <3>6. w1 + w2 + w3 + w4 + w5 = s5 + all
      BY <3>1, <3>4, <3>5
    <3>. QED
      BY <3>6 DEF s5, w1, w2, w3, w4, w5, all
  <2>. HIDE DEF w, since, at, seams
  <2>. QED
    BY <2>1, <2>3, <2>8, <2>9, <2>10, Zenon
<1>19. /\ starts[5] = WeekStart(clock) - 4 * Week
       /\ {x \in mine : \E i \in 1..4 : x.Time = WeekStart(clock) - (i - 1) * Week}
            = {x \in mine : x.Time = starts[1] \/ x.Time = starts[2] \/ x.Time = starts[3] \/ x.Time = starts[4]}
  <2>1. \A i \in 1..4 : ws - (i - 1) * W = starts[i]
    BY DEF starts
  <2>2. starts[5] = ws - 4 * W
    BY <1>3
  <2>. QED
    BY <2>1, <2>2 DEF ws, W
<1>20. ScoreIn(weeks[1]) = commons.XPthisWeek /\ ScoreIn(allTime) = commons.XP
  <2>1. Part(starts[1], ends[1]) = Part(ws, clock) /\ 1 \in 1..5
    BY <1>3
  <2>. QED
    BY <1>9, <1>10, <1>13, <1>14, <2>1
<1>. QED
  BY <1>15, <1>16, <1>17, <1>18, <1>19, <1>20, Zenon
     DEF RanksAgreeIn, RowsIn, ScoreOf, RowsOf, ScoreIn, mine, weeks, allTime, commons

-----------------------------------------------------------------------------
(***************************************************************************)
(* Settings.                                                               *)
(***************************************************************************)
\* Settings with some boxes saved.
With(before, boxes, ticked) == [k \in DOMAIN before \cup boxes |-> IF k \in boxes THEN k \in ticked ELSE before[k]]

SaveBoxes(before, ticked) ==
    FoldSet(LAMBDA box, all : SetNotificationSetting(all, box[1], box[2], box \in ticked), before, Boxes)

LEMMA PairIsFinite ==
    ASSUME NEW a, NEW b
    PROVE  IsFiniteSet({a, b})
<1>1. {a, b} = {a} \cup {b}
  OBVIOUS
<1>2. IsFiniteSet({a})
  BY FS_Singleton
<1>. QED
  BY <1>1, <1>2, FS_AddElement

\* There are a few boxes.
LEMMA BoxesAreFew == IsFiniteSet(Boxes)
<1>1. IsFiniteSet({"guildEventWon", "achievementAchieved"}) /\ IsFiniteSet({"discordDM", "appNotif"})
  BY PairIsFinite
<1>. QED
  BY <1>1, FS_Product DEF Boxes

\* Saving each box by itself saves them all.
LEMMA SavesAll ==
    ASSUME NEW before, before = [k \in DOMAIN before |-> before[k]], NEW ticked
    PROVE  SaveBoxes(before, ticked) = With(before, Boxes, ticked)
<1>. DEFINE B == Boxes
            pick == [s \in SUBSET B |-> CHOOSE x \in s : TRUE]
            h == [s \in SUBSET B |-> With(before, s, ticked)]
            Solves(it) == it = [s \in SUBSET B |-> IF s = {} THEN before
                                    ELSE LET x == CHOOSE x \in s : TRUE
                                         IN  SetNotificationSetting(it[s \ {x}], x[1], x[2], x \in ticked)]
            it == CHOOSE it : Solves(it)
<1>1. SaveBoxes(before, ticked) = it[B]
  BY DEF SaveBoxes, FoldSet, MapThenFoldSet
<1>2. Picks(pick, B) /\ \A s \in SUBSET B : pick[s] = CHOOSE x \in s : TRUE
  BY DEF Picks
<1>3. \A x \in B : x = <<x[1], x[2]>>
  BY DEF Boxes
<1>4. \A s \in SUBSET B : h[s] = With(before, s, ticked)
  OBVIOUS
<1>. HIDE DEF B, pick, h
<1>5. h[{}] = before
  <2>1. With(before, {}, ticked) = before
    BY DEF With
  <2>. QED
    BY <1>4, <2>1
<1>6. ASSUME NEW s \in SUBSET B, NEW x \in s
      PROVE  h[s] = SetNotificationSetting(h[s \ {x}], x[1], x[2], x \in ticked)
  <2>. DEFINE less == With(before, s \ {x}, ticked)
  <2>1. h[s \ {x}] = less /\ h[s] = With(before, s, ticked) /\ <<x[1], x[2]>> = x
    BY <1>3, <1>4
  <2>2. DOMAIN less = DOMAIN before \cup (s \ {x})
    BY DEF With
  <2>3. DOMAIN less \cup {x} = DOMAIN before \cup s
    BY <2>2
  <2>4. ASSUME NEW k \in DOMAIN before \cup s
        PROVE  (IF k = x THEN x \in ticked ELSE less[k]) = IF k \in s THEN k \in ticked ELSE before[k]
    <3>1. CASE k = x
      BY <3>1
    <3>2. CASE k # x
      <4>1. k \in DOMAIN before \cup (s \ {x}) /\ (k \in s \ {x} <=> k \in s)
        BY <3>2
      <4>2. less[k] = IF k \in s \ {x} THEN k \in ticked ELSE before[k]
        BY <4>1 DEF With
      <4>. HIDE DEF less
      <4>. QED
        BY <3>2, <4>1, <4>2, Zenon
    <3>. QED
      BY <3>1, <3>2
  <2>. HIDE DEF less
  <2>5. SetNotificationSetting(less, x[1], x[2], x \in ticked)
          = [k \in DOMAIN less \cup {x} |-> IF k = x THEN x \in ticked ELSE less[k]]
    BY <2>1, Zenon DEF SetNotificationSetting
  <2>6. With(before, s, ticked) = [k \in DOMAIN before \cup s |-> IF k \in s THEN k \in ticked ELSE before[k]]
    BY DEF With
  <2>7. SetNotificationSetting(less, x[1], x[2], x \in ticked)
          = [k \in DOMAIN before \cup s |-> IF k = x THEN x \in ticked ELSE less[k]]
    BY <2>3, <2>5, Zenon
  <2>8. [k \in DOMAIN before \cup s |-> IF k = x THEN x \in ticked ELSE less[k]]
          = [k \in DOMAIN before \cup s |-> IF k \in s THEN k \in ticked ELSE before[k]]
    BY <2>4, Zenon
  <2>. QED
    BY <2>1, <2>6, <2>7, <2>8, Zenon
<1>7. Solves(h)
  <2>1. h = [s \in SUBSET B |-> h[s]]
    BY DEF h
  <2>2. ASSUME NEW s \in SUBSET B, s # {}
        PROVE  h[s] = LET x == CHOOSE x \in s : TRUE
                      IN  SetNotificationSetting(h[s \ {x}], x[1], x[2], x \in ticked)
    <3>1. (CHOOSE x \in s : TRUE) \in s
      BY <2>2, Zenon
    <3>. QED
      BY <1>6, <3>1, Zenon
  <2>. QED
    BY <1>5, <2>1, <2>2, Zenon
<1>. HIDE DEF Solves
<1>8. Solves(it)
  BY <1>7
<1>. HIDE DEF it
<1>9. FoldTogether(it, h, B, pick)
  <2>1. it[{}] = before
    BY <1>8, Zenon DEF Solves
  <2>2. ASSUME NEW s \in SUBSET B, s # {}, it[s \ {pick[s]}] = h[s \ {pick[s]}]
        PROVE  it[s] = h[s]
    <3>1. pick[s] \in s /\ pick[s] = CHOOSE x \in s : TRUE
      BY <1>2, <2>2, Zenon DEF Picks
    <3>2. it[s] = SetNotificationSetting(it[s \ {pick[s]}], pick[s][1], pick[s][2], pick[s] \in ticked)
      BY <1>8, <2>2, <3>1, Zenon DEF Solves
    <3>3. h[s] = SetNotificationSetting(h[s \ {pick[s]}], pick[s][1], pick[s][2], pick[s] \in ticked)
      BY <1>6, <3>1, Zenon
    <3>. QED
      BY <2>2, <3>2, <3>3, Zenon
  <2>. QED
    BY <1>5, <2>1, <2>2, Zenon DEF FoldTogether
<1>10. it[B] = h[B]
  BY <1>2, <1>9, BoxesAreFew, FoldUnique DEF B
<1>. QED
  BY <1>1, <1>4, <1>10 DEF B

\* What a player has: preferences, and any settings.
IsPlayer(player) ==
    /\ player = [NameType |-> player.NameType, LBPrivacy |-> player.LBPrivacy,
                 ProfilePrivacy |-> player.ProfilePrivacy, settings |-> player.settings]
    /\ player.settings = [k \in DOMAIN player.settings |-> player.settings[k]]

\* Whatever a player had and whatever form is sent: what is read of the settings
\* is what was saved, what the form has not is kept, and nobody finds their own
\* profile private (posplay/web-personal.go, types/pp_notification_setting.go).
THEOREM SettingsOfAnyForm ==
    ASSUME NEW player, IsPlayer(player), NEW form, NEW isOnboarding \in BOOLEAN,
           NEW defaults, \A k \in DOMAIN defaults : k = <<k[1], k[2]>>
    PROVE  SettingsKeptIn(player, form, isOnboarding, defaults)
<1>. DEFINE saved == SaveSettings(player, form, isOnboarding)
            B == Boxes
            Reads(p, k) == GetNotificationSetting(p.settings, defaults, k[1], k[2])
<1>1. saved.settings = IF isOnboarding THEN player.settings ELSE SaveBoxes(player.settings, form.ticked)
  BY DEF SaveSettings, SaveBoxes, IsPlayer
<1>2. ~isOnboarding => saved.settings = With(player.settings, B, form.ticked)
  BY <1>1, SavesAll DEF IsPlayer
<1>3. saved.ProfilePrivacy = IF form.ProfilePrivacy \in {"PUBLIC", "PLAYERS_ONLY", "PRIVATE"} THEN form.ProfilePrivacy
                             ELSE player.ProfilePrivacy
  BY DEF SaveSettings, IsPlayer
<1>4. ~ShowAsPrivate(saved.ProfilePrivacy, "owner", "owner")
  BY DEF ShowAsPrivate
<1>. HIDE DEF saved, B
<1>5. ASSUME NEW k \in DOMAIN defaults
      PROVE  Reads(saved, k) = IF k \in B /\ ~isOnboarding THEN k \in form.ticked ELSE Reads(player, k)
  <2>1. /\ Reads(saved, k) = IF k \in DOMAIN saved.settings THEN saved.settings[k] ELSE defaults[k]
        /\ Reads(player, k) = IF k \in DOMAIN player.settings THEN player.settings[k] ELSE defaults[k]
    BY <1>5, Zenon DEF GetNotificationSetting
  <2>. HIDE DEF Reads
  <2>2. CASE isOnboarding
    BY <1>1, <2>1, <2>2
  <2>3. CASE ~isOnboarding
    <3>1. saved.settings = [j \in DOMAIN player.settings \cup B |-> IF j \in B THEN j \in form.ticked ELSE player.settings[j]]
      BY <1>2, <2>3, Zenon DEF With
    <3>2. CASE k \in B
      <4>1. k \in DOMAIN saved.settings /\ saved.settings[k] = (k \in form.ticked)
        BY <3>1, <3>2
      <4>. QED
        BY <2>1, <2>3, <3>2, <4>1, Zenon
    <3>3. CASE k \notin B
      <4>1. (k \in DOMAIN saved.settings <=> k \in DOMAIN player.settings)
            /\ (k \in DOMAIN player.settings => saved.settings[k] = player.settings[k])
        BY <3>1, <3>3
      <4>. QED
        BY <2>1, <2>3, <3>3, <4>1, Zenon
    <3>. QED
      BY <3>2, <3>3
  <2>. QED
    BY <2>2, <2>3
<1>6. saved.ProfilePrivacy \in {player.ProfilePrivacy, form.ProfilePrivacy}
  BY <1>3
<1>7. \A k \in DOMAIN defaults : Reads(saved, k) <=> IF k \in B /\ ~isOnboarding THEN k \in form.ticked ELSE Reads(player, k)
  BY <1>5, Zenon
<1>. QED
  BY <1>4, <1>6, <1>7, Zenon DEF SettingsKeptIn, saved, B, Reads

-----------------------------------------------------------------------------
(***************************************************************************)
(* Types of messages.                                                      *)
(***************************************************************************)
\* A finite set of integers that is not empty has a least element.
LEMMA HasMinimum ==
    ASSUME NEW S, IsFiniteSet(S), S \subseteq Int, S # {}
    PROVE  \E m \in S : \A y \in S : m <= y
<1>. DEFINE key == [x \in S |-> -x]
<1>1. key \in [S -> Int] /\ \A x \in S : key[x] = -x
  OBVIOUS
<1>. HIDE DEF key
<1>2. PICK m \in S : \A y \in S : key[y] <= key[m]
  BY <1>1, GreatestOf
<1>3. \A y \in S : m <= y
  BY <1>1, <1>2
<1>. QED
  BY <1>3

\* What a switch finds is one of its alternatives.
LEMMA FoundIs ==
    ASSUME NEW n \in Nat, NEW alternatives, DOMAIN alternatives = 1..n, NEW text, NEW C,
           \A i \in 1..n : alternatives[i] \in C
    PROVE  FirstOf(alternatives, text) \in C \cup {""}
<1>. DEFINE hits == {i \in DOMAIN alternatives : alternatives[i] \in text}
<1>1. CASE hits = {}
  BY <1>1 DEF FirstOf
<1>2. CASE hits # {}
  <2>1. hits \subseteq 1..n /\ hits \subseteq Int /\ IsFiniteSet(1..n)
    BY FS_Interval
  <2>2. IsFiniteSet(hits)
    BY <2>1, FS_Subset
  <2>. HIDE DEF hits
  <2>3. \E m \in hits : \A y \in hits : m <= y
    BY <1>2, <2>1, <2>2, HasMinimum
  <2>4. Min(hits) \in hits
    BY <2>3, Zenon DEF Min
  <2>5. alternatives[Min(hits)] \in C
    BY <2>1, <2>4
  <2>. QED
    BY <1>2, <2>5 DEF FirstOf, hits
<1>. QED
  BY <1>1, <1>2

\* A cause, which is told by itself; reports of the community are told as such.
IsCause(part) == part # "" /\ part # "COMMUNITY_REPORTED"

HasCause(type) == IsComposite(type) => IsCause(type[1])

LEMMA TypeComputed ==
    ASSUME NEW text, NEW type, HasCause(type)
    PROVE  LET stored == StoredType(ComputeMsgType(text, type))
           IN  /\ StoredType(ComputeMsgType(text, stored)) = stored
               /\ HasCause(stored)
<1>. DEFINE whole == FirstOf(Whole, text)
            cause == FirstOf(Causes, text)
            state == FirstOf(States, text)
            outlook == FirstOf(Outlooks, text)
            Computed(old) == IF whole # "" THEN <<whole>>
                             ELSE IF cause = "" \/ state = "" \/ outlook = "" THEN old
                             ELSE <<cause, state, outlook>>
<1>1. cause # "" => IsCause(cause)
  <2>. DEFINE C == {"SIGNAL", "TRAIN", "POWER", "3RDPARTY", "PASSENGER", "STATION"}
  <2>1. DOMAIN Causes = 1..6 /\ \A i \in 1..6 : Causes[i] \in C
    BY DEF Causes
  <2>2. cause \in C \cup {""}
    BY <2>1, FoundIs
  <2>. QED
    BY <2>2 DEF IsCause
<1>2. \A old : ComputeMsgType(text, old) = Computed(old)
  BY DEF ComputeMsgType
<1>. HIDE DEF whole, cause, state, outlook
<1>3. /\ <<whole>> # <<>> /\ <<cause, state, outlook>> # <<>> /\ <<"RAW">> # <<>>
      /\ Len(<<whole>>) # 3 /\ Len(<<"RAW">>) # 3 /\ <<cause, state, outlook>>[1] = cause
  OBVIOUS
<1>. DEFINE stored == StoredType(Computed(type))
<1>4. CASE whole # ""
  BY <1>2, <1>3, <1>4 DEF StoredType, IsComposite, HasCause
<1>5. CASE whole = "" /\ (cause = "" \/ state = "" \/ outlook = "")
  <2>1. Computed(type) = type /\ Computed(stored) = stored
    BY <1>5
  <2>2. StoredType(stored) = stored
    BY <1>3, <1>5 DEF StoredType
  <2>3. HasCause(stored)
    BY <1>3, <1>5 DEF StoredType, IsComposite, HasCause
  <2>. HIDE DEF stored, Computed
  <2>. QED
    BY <1>2, <2>1, <2>2, <2>3 DEF stored
<1>6. CASE whole = "" /\ ~(cause = "" \/ state = "" \/ outlook = "")
  BY <1>1, <1>2, <1>3, <1>6 DEF StoredType, IsComposite, HasCause
<1>. QED
  BY <1>2, <1>4, <1>5, <1>6

\* What Categories does with each type.
Told(found, type) ==
    IF CategoryOf(type) \in ToSet(found) \cup {""} THEN found ELSE Append(found, CategoryOf(type))

\* Categories once each, and that of every type so far.
ToldAll(found, types, k) ==
    /\ \A i, j \in DOMAIN found : found[i] = found[j] => i = j
    /\ \A i \in 1..k : CategoryOf(types[i]) \in Range(found) \cup {""}

LEMMA ToldOneMore ==
    ASSUME NEW C, NEW found \in Seq(C), NEW types, NEW k \in Nat, ToldAll(found, types, k),
           CategoryOf(types[k + 1]) \in C
    PROVE  Told(found, types[k + 1]) \in Seq(C) /\ ToldAll(Told(found, types[k + 1]), types, k + 1)
<1>. DEFINE c == CategoryOf(types[k + 1])
<1>1. ToSet(found) = Range(found)
  BY DEF ToSet, Range
<1>2. \A i \in 1..(k + 1) : i \in 1..k \/ i = k + 1
  OBVIOUS
<1>3. CASE c \in Range(found) \cup {""}
  <2>1. Told(found, types[k + 1]) = found
    BY <1>1, <1>3 DEF Told
  <2>. QED
    BY <1>2, <1>3, <2>1 DEF ToldAll
<1>4. CASE c \notin Range(found) \cup {""}
  <2>. DEFINE more == Append(found, c)
              n == Len(found)
  <2>1. Told(found, types[k + 1]) = more
    BY <1>1, <1>4 DEF Told
  <2>2. /\ n \in Nat /\ DOMAIN found = 1..n /\ DOMAIN more = 1..(n + 1)
        /\ more[n + 1] = c /\ \A i \in 1..n : more[i] = found[i]
        /\ more \in Seq(C)
    OBVIOUS
  <2>. HIDE DEF c, more, n
  <2>3. \A i \in 1..n : found[i] \in Range(found) /\ found[i] # c
    BY <1>4, <2>2 DEF Range
  <2>4. ASSUME NEW i \in DOMAIN more, NEW j \in DOMAIN more, more[i] = more[j]
        PROVE  i = j
    <3>1. i \in 1..n \/ i = n + 1
      BY <2>2
    <3>2. j \in 1..n \/ j = n + 1
      BY <2>2
    <3>. QED
      BY <2>2, <2>3, <2>4, <3>1, <3>2 DEF ToldAll
  <2>5. ASSUME NEW i \in 1..(k + 1)
        PROVE  CategoryOf(types[i]) \in Range(more) \cup {""}
    <3>1. Range(found) \subseteq Range(more)
      BY <2>2 DEF Range
    <3>2. c \in Range(more)
      BY <2>2 DEF Range
    <3>. QED
      BY <1>2, <3>1, <3>2 DEF ToldAll, c
  <2>. QED
    BY <2>1, <2>2, <2>4, <2>5 DEF ToldAll
<1>. QED
  BY <1>3, <1>4

\* Every category is told, once.
LEMMA CategoriesToldOnce ==
    ASSUME NEW n \in Nat, NEW types, DOMAIN types = 1..n
    PROVE  ToldAll(Categories(types), types, n) /\ Categories(types) \in Seq({CategoryOf(types[i]) : i \in 1..n})
<1>. DEFINE C == {CategoryOf(types[i]) : i \in 1..n}
            V == Seq(C)
            step == [p \in (1..n) \X V |-> Told(p[2], types[p[1]])]
            Solves(it) == it = [s \in SUBSET (DOMAIN types) |-> IF s = {} THEN <<>>
                                    ELSE Told(it[s \ {Max(s)}], types[Max(s)])]
            it == CHOOSE it : Solves(it)
<1>1. Categories(types) = it[DOMAIN types]
  BY DEF Categories, FoldLeft, MapThenFoldSet, Told
<1>2. <<>> \in V /\ \A i \in 1..n : CategoryOf(types[i]) \in C
  OBVIOUS
<1>. HIDE DEF C
<1>3. \A i \in 1..n, found \in V : step[<<i, found>>] = Told(found, types[i])
  OBVIOUS
<1>4. step \in [(1..n) \X V -> V]
  <2>1. ASSUME NEW i \in 1..n, NEW found \in V
        PROVE  Told(found, types[i]) \in V
    <3>1. Append(found, CategoryOf(types[i])) \in V
      BY <1>2 DEF V
    <3>. QED
      BY <3>1, Zenon DEF Told
  <2>. QED
    BY <2>1
<1>5. \A S : Max(S) = Max(S)
  BY DEF Max, Max
<1>. HIDE DEF V, step
<1>6. PICK g : IsFold(g, 1..n, V, <<>>, step, LatestOf(n))
  BY <1>2, <1>4, LatestPicks, FoldExists, Zenon
<1>7. ASSUME NEW s \in SUBSET (1..n), s # {}
      PROVE  /\ LatestOf(n)[s] = Max(s)
             /\ g[s] = Told(g[s \ {Max(s)}], types[Max(s)])
  <2>1. LatestOf(n)[s] = Max(s) /\ Max(s) \in 1..n /\ s \ {Max(s)} \in SUBSET (1..n)
    BY <1>5, <1>7, LatestPicks DEF Picks
  <2>2. g[s] = step[<<Max(s), g[s \ {Max(s)}]>>] /\ g[s \ {Max(s)}] \in V
    BY <1>6, <1>7, <2>1 DEF IsFold
  <2>. QED
    BY <1>3, <2>1, <2>2
<1>8. Solves(g)
  BY <1>6, <1>7, Zenon DEF IsFold
<1>. HIDE DEF Solves
<1>9. Solves(it)
  BY <1>8
<1>. HIDE DEF it
<1>10. FoldTogether(it, g, 1..n, LatestOf(n))
  <2>1. it[{}] = <<>> /\ g[{}] = <<>>
    BY <1>6, <1>9, Zenon DEF Solves, IsFold
  <2>2. ASSUME NEW s \in SUBSET (1..n), s # {}, it[s \ {LatestOf(n)[s]}] = g[s \ {LatestOf(n)[s]}]
        PROVE  it[s] = g[s]
    <3>1. it[s] = Told(it[s \ {Max(s)}], types[Max(s)])
      BY <1>9, <2>2, Zenon DEF Solves
    <3>. QED
      BY <1>7, <2>2, <3>1, Zenon
  <2>. QED
    BY <2>1, <2>2, Zenon DEF FoldTogether
<1>11. it[1..n] = g[1..n]
  BY <1>10, LatestPicks, FoldUnique
<1>12. PICK f : Run(f, n, V, <<>>, step) /\ g[1..n] = f[n]
  BY <1>6, FoldRuns
<1>. DEFINE F == {k \in Nat : k <= n => f[k] \in V /\ ToldAll(f[k], types, k)}
<1>13. 0 \in F
  <2>1. f[0] = <<>>
    BY <1>12 DEF Run
  <2>2. ToldAll(<<>>, types, 0)
    BY DEF ToldAll
  <2>. QED
    BY <1>2, <2>1, <2>2
<1>14. ASSUME NEW k \in Nat, k \in F
       PROVE  k + 1 \in F
  <2>. SUFFICES ASSUME k + 1 <= n
                PROVE  f[k + 1] \in V /\ ToldAll(f[k + 1], types, k + 1)
    OBVIOUS
  <2>1. k + 1 \in 1..n /\ (k + 1) - 1 = k
    OBVIOUS
  <2>2. f[k] \in V /\ ToldAll(f[k], types, k)
    BY <1>14, <2>1
  <2>3. f[k + 1] = step[<<k + 1, f[k]>>]
    BY <1>12, <2>1 DEF Run
  <2>4. f[k + 1] = Told(f[k], types[k + 1])
    BY <1>3, <2>1, <2>2, <2>3
  <2>. QED
    BY <1>2, <2>1, <2>2, <2>4, ToldOneMore DEF V
<1>15. n \in F
  <2>. HIDE DEF F
  <2>. QED
    BY <1>13, <1>14, NumberInduction
<1>. QED
  BY <1>1, <1>11, <1>12, <1>15 DEF V, C

\* Whatever statuses are stored, with whatever types: computing their types again
\* twice is computing them once, and each cause of a disturbance is told, once
\* (types/status.go ComputeMsgType, types/disturbance.go Categories).
THEOREM TypesOfAnyStatuses ==
    ASSUME NEW n \in Nat, NEW statuses, DOMAIN statuses = 1..n,
           \A i \in 1..n : HasCause(statuses[i].MsgType)
    PROVE  TypesStayIn(statuses)
<1>. DEFINE once == UpdateStatusMsgTypes(statuses)
            StoredOf(text, type) == StoredType(ComputeMsgType(text, type))
            types == [i \in DOMAIN once |-> once[i].MsgType]
            words == Categories(types)
            reason == DisturbanceReasonString(types)
<1>1. once = [i \in 1..n |-> [text |-> statuses[i].text, MsgType |-> StoredOf(statuses[i].text, statuses[i].MsgType)]]
  BY DEF UpdateStatusMsgTypes
<1>2. /\ DOMAIN once = 1..n
      /\ \A i \in 1..n : once[i].text = statuses[i].text /\ once[i].MsgType = StoredOf(statuses[i].text, statuses[i].MsgType)
                         /\ once[i] = [text |-> once[i].text, MsgType |-> once[i].MsgType]
  BY <1>1
<1>3. \A i \in 1..n : StoredOf(once[i].text, once[i].MsgType) = once[i].MsgType /\ HasCause(once[i].MsgType)
  BY <1>2, TypeComputed
<1>4. UpdateStatusMsgTypes(once) = once
  <2>1. UpdateStatusMsgTypes(once)
          = [i \in DOMAIN once |-> [text |-> once[i].text, MsgType |-> StoredOf(once[i].text, once[i].MsgType)]]
    BY Zenon DEF UpdateStatusMsgTypes
  <2>. HIDE DEF once, StoredOf
  <2>. QED
    BY <1>1, <1>2, <1>3, <2>1
<1>. HIDE DEF once, StoredOf
<1>5. DOMAIN types = 1..n /\ \A i \in 1..n : types[i] = once[i].MsgType
  BY <1>2
<1>. HIDE DEF types
<1>6. ToldAll(words, types, n) /\ words \in Seq({CategoryOf(types[i]) : i \in 1..n})
  BY <1>5, CategoriesToldOnce
<1>. DEFINE reasons == {i \in DOMAIN words : words[i] # "COMMUNITY_REPORTED"}
<1>7. /\ reason.words = words
      /\ reason.related = IF reasons = {} THEN 0 ELSE CHOOSE i \in reasons : \A j \in reasons : i <= j
  BY DEF DisturbanceReasonString
<1>. HIDE DEF words, reason
<1>8. ASSUME NEW i \in 1..n, IsComposite(once[i].MsgType)
      PROVE  once[i].MsgType[1] \in Range(words) /\ reason.related > 0
  <2>. DEFINE cause == once[i].MsgType[1]
  <2>1. CategoryOf(types[i]) = cause /\ IsCause(cause)
    BY <1>3, <1>5, <1>8 DEF CategoryOf, HasCause
  <2>2. cause \in Range(words)
    BY <1>6, <2>1 DEF ToldAll, IsCause
  <2>. HIDE DEF cause
  <2>3. reasons # {} /\ reasons \subseteq 1..Len(words) /\ reasons \subseteq Int /\ Len(words) \in Nat
    <3>1. DOMAIN words = 1..Len(words) /\ Len(words) \in Nat
      BY <1>6
    <3>2. PICK j \in DOMAIN words : words[j] = cause
      BY <2>2 DEF Range
    <3>3. j \in reasons
      BY <2>1, <3>2 DEF IsCause, cause
    <3>. QED
      BY <3>1, <3>3
  <2>4. IsFiniteSet(reasons)
    BY <2>3, FS_Interval, FS_Subset
  <2>. HIDE DEF reasons
  <2>5. \E m \in reasons : \A j \in reasons : m <= j
    BY <2>3, <2>4, HasMinimum
  <2>6. reason.related \in reasons
    BY <1>7, <2>3, <2>5, Zenon
  <2>7. reason.related > 0
    <3>1. reason.related \in 1..Len(words)
      BY <2>3, <2>6, Zenon
    <3>. QED
      BY <2>3, <3>1
  <2>. QED
    BY <2>2, <2>7 DEF cause
<1>9. Range(words) = Range(words)
  BY DEF Range, Range
<1>10. /\ \A i, j \in DOMAIN reason.words : reason.words[i] = reason.words[j] => i = j
       /\ \A i \in DOMAIN once : IsComposite(once[i].MsgType)
                                => once[i].MsgType[1] \in Range(reason.words) /\ reason.related > 0
  BY <1>2, <1>6, <1>7, <1>8, <1>9 DEF ToldAll
<1>. QED
  BY <1>4, <1>10, Zenon DEF TypesStayIn, once, types, words, reason

-----------------------------------------------------------------------------
(***************************************************************************)
(* What the runs ask of the pages.                                         *)
(***************************************************************************)
\* What was earned is finite, and was so by now.
LEMMA RunLedgers ==
    ASSUME NEW n \in Nat, NEW chosen \in kSubset(n, Earned)
    PROVE  LET ledger == {WithType(x) : x \in chosen}
           IN  IsLedger(ledger) /\ Now \in Nat /\ \A x \in ledger : 0 <= x.Time /\ x.Time <= Now
<1>. DEFINE D == {"rita", "rui"}
            T1 == {Monday(1), Monday(1) + 1}
            T2 == {Monday(2), Monday(3) - 1}
            V == {1, 2}
            P == (D \X (T1 \cup T2)) \X V
            f == [p \in P |-> [DiscordID |-> p[1][1], Time |-> p[1][2], Value |-> p[2]]]
            ledger == {WithType(x) : x \in chosen}
<1>1. /\ Monday(1) = 35 * DayHours + 2 /\ Monday(2) = 28 * DayHours + 2 /\ Monday(3) - 1 = 21 * DayHours + 1
      /\ Now = 42 * DayHours
  BY RecordsAssumption DEF Monday, Now
<1>2. Now \in Nat /\ \A t \in T1 \cup T2 : t \in Nat /\ t <= Now
  BY <1>1, RecordsAssumption
<1>3. Earned = [DiscordID : D, Time : T1 \cup T2, Value : V]
  <2>1. {Monday(1), Monday(1) + 1, Monday(2), Monday(3) - 1} = T1 \cup T2
    OBVIOUS
  <2>. QED
    BY <2>1, Zenon DEF Earned
<1>4. IsFiniteSet(P)
  <2>1. IsFiniteSet(D) /\ IsFiniteSet(T1) /\ IsFiniteSet(T2) /\ IsFiniteSet(V)
    BY PairIsFinite
  <2>. HIDE DEF D, T1, T2, V
  <2>2. IsFiniteSet(T1 \cup T2)
    BY <2>1, FS_Union
  <2>3. IsFiniteSet(D \X (T1 \cup T2))
    BY <2>1, <2>2, FS_Product
  <2>. QED
    BY <2>1, <2>3, FS_Product
<1>5. Earned = {f[p] : p \in P} /\ f = [p \in P |-> f[p]]
  <2>. HIDE DEF D, T1, T2, V
  <2>1. ASSUME NEW x \in Earned
        PROVE  \E p \in P : x = f[p]
    <3>1. <<<<x.DiscordID, x.Time>>, x.Value>> \in P
      BY <1>3
    <3>2. x = f[<<<<x.DiscordID, x.Time>>, x.Value>>]
      BY <1>3, <3>1
    <3>. QED
      BY <3>1, <3>2
  <2>2. \A p \in P : f[p] \in Earned
    BY <1>3
  <2>. QED
    BY <2>1, <2>2
<1>. HIDE DEF P, f, T1, T2, D, V
<1>6. IsFiniteSet(Earned)
  BY <1>4, <1>5, FiniteImages
<1>7. chosen \in SUBSET Earned /\ IsFiniteSet(chosen)
  <2>1. chosen \in SUBSET Earned
    BY DEF kSubset
  <2>. QED
    BY <1>6, <2>1, FS_Subset
<1>8. IsFiniteSet(ledger)
  <2>. DEFINE g == [x \in chosen |-> WithType(x)]
  <2>1. g = [x \in chosen |-> g[x]] /\ {g[x] : x \in chosen} = ledger
    OBVIOUS
  <2>. HIDE DEF g, ledger
  <2>. QED
    BY <1>7, <2>1, FiniteImages
<1>9. ASSUME NEW y \in ledger
      PROVE  y.Value \in Nat /\ y.Time \in Nat /\ y.Time <= Now
  <2>1. PICK x \in chosen : y = WithType(x)
    OBVIOUS
  <2>2. y.Value = x.Value /\ y.Time = x.Time
    BY <2>1 DEF WithType
  <2>3. x.Value \in V /\ x.Time \in T1 \cup T2
    BY <1>3, <1>7
  <2>. QED
    BY <1>2, <2>2, <2>3 DEF V
<1>. HIDE DEF ledger
<1>10. IsLedger(ledger) /\ \A x \in ledger : 0 <= x.Time /\ x.Time <= Now
  BY <1>8, <1>9 DEF IsLedger
<1>. QED
  BY <1>2, <1>10 DEF ledger

\* No disturbance ends after the statuses that make it.
LEMMA RunHistories ==
    ASSUME NEW one \in Histories, NEW other \in Histories
    PROVE  EndedByNow({[schedules |-> Weekly(1, 2), holidays |-> <<>>,
                        disturbances |-> FoldLeft(AddStatus, NoRows, h).disturbances] : h \in {one, other}}, 5 * DayLength)
<1>. DEFINE Row1(h) == [schedules |-> Weekly(1, 2), holidays |-> <<>>,
                        disturbances |-> FoldLeft(AddStatus, NoRows, h).disturbances]
            two == {Row1(h) : h \in {one, other}}
<1>1. two = {Row1(one), Row1(other)} /\ IsFiniteSet({Row1(one), Row1(other)})
  BY PairIsFinite
<1>2. ASSUME NEW h \in Histories
      PROVE  LET ds == FoldLeft(AddStatus, NoRows, h).disturbances
             IN  /\ ds \in SUBSET Disturbance /\ IsFiniteSet(ds) /\ WellTimed(ds)
                 /\ \A d \in ds : d.UEndTime <= 5 * DayLength
  <2>. DEFINE ds == FoldLeft(AddStatus, NoRows, h).disturbances
  <2>1. PICK n \in 1..3 : h \in [1..n -> StatusesAt]
    BY DEF Histories
  <2>2. h \in [1..n -> Status] /\ \A i \in 1..n : h[i].Time < 5 * DayLength
    <3>1. StatusesAt \subseteq Status /\ \A s \in StatusesAt : s.Time < 5 * DayLength
      BY RecordsAssumption, DayLengthAssumption DEF StatusesAt, Status, StatusHours
    <3>. QED
      BY <2>1, <3>1
  <2>3. \A i, j \in DOMAIN h : i < j => h[i].Time < h[j].Time
    BY DEF Histories
  <2>4. n \in Nat /\ 5 * DayLength \in Nat
    BY DayLengthAssumption
  <2>5. /\ ds \in SUBSET Disturbance /\ IsFiniteSet(ds) /\ Disjoint(ds) /\ WellTimed(ds)
        /\ \A t \in Nat : (\A i \in 1..n : h[i].Time < t) => StartedBefore(ds, t)
    BY <2>2, <2>3, <2>4, RowsAfterHistory
  <2>. HIDE DEF ds
  <2>6. StartedBefore(ds, 5 * DayLength)
    BY <2>2, <2>4, <2>5
  <2>7. \A d \in ds : d.UEndTime <= 5 * DayLength
    BY <2>4, <2>5, <2>6 DEF StartedBefore, Disturbance
  <2>. QED
    BY <2>5, <2>7 DEF ds
<1>3. \A h : Row1(h).disturbances = FoldLeft(AddStatus, NoRows, h).disturbances
  OBVIOUS
<1>. HIDE DEF Row1
<1>4. \A l \in two : \E h \in Histories : l.disturbances = FoldLeft(AddStatus, NoRows, h).disturbances
  BY <1>1, <1>3
<1>. HIDE DEF two
<1>5. EndedByNow(two, 5 * DayLength)
  <2>1. ASSUME NEW l \in two
        PROVE  /\ l.disturbances \in SUBSET Disturbance
               /\ IsFiniteSet(l.disturbances) /\ WellTimed(l.disturbances)
               /\ \A d \in l.disturbances : d.UEndTime <= 5 * DayLength
    <3>1. PICK h \in Histories : l.disturbances = FoldLeft(AddStatus, NoRows, h).disturbances
      BY <1>4
    <3>. QED
      BY <1>2, <3>1
  <2>. QED
    BY <1>1, <2>1 DEF EndedByNow
<1>. QED
  BY <1>5 DEF two, Row1

\* In the runs' instance too.
THEOREM PagesAlwaysAgree == RecordsInit /\ [][RecordsNext]_question => []PagesAgree
<1>1. RecordsInit => PagesAgree
  BY DEF RecordsInit, PagesAgree
<1>2. ASSUME PagesAgree, [RecordsNext]_question
      PROVE  PagesAgree'
  <2>1. CASE AskLedger
    <3>0. PICK n \in 1..4 : \E ledger \in kSubset(n, Earned) : Asks([is |-> "ledger", ledger |-> ledger])
      BY <2>1, Zenon DEF AskLedger
    <3>1. PICK ledger \in kSubset(n, Earned) : Asks([is |-> "ledger", ledger |-> ledger])
      BY <3>0
    <3>. DEFINE rows1 == {WithType(x) : x \in ledger}
    <3>2. IsLedger(rows1) /\ Now \in Nat /\ \A x \in rows1 : 0 <= x.Time /\ x.Time <= Now
      <4>1. n \in Nat
        OBVIOUS
      <4>. QED
        BY <4>1, RunLedgers, Zenon
    <3>. HIDE DEF rows1
    <3>3. \A p : RanksAgreeIn(rows1, p, Now)
      BY <3>2, RanksOfAnyLedger
    <3>4. question'.is = "ledger" /\ question'.ledger = ledger
      BY <3>1 DEF Asks
    <3>. QED
      BY <3>3, <3>4 DEF PagesAgree, rows1
  <2>2. CASE AskSettings
    <3>1. PICK form \in Forms, before \in SUBSET Boxes, isOnboarding \in BOOLEAN :
              Asks([is |-> "settings", isOnboarding |-> isOnboarding, form |-> form,
                    player |-> [NameType |-> "NICKNAME", LBPrivacy |-> "PUBLIC", ProfilePrivacy |-> "PUBLIC",
                                settings |-> [k \in before |-> k[2] = "appNotif"]]])
      BY <2>2, Zenon DEF AskSettings
    <3>. DEFINE set == [k \in before |-> k[2] = "appNotif"]
                player == [NameType |-> "NICKNAME", LBPrivacy |-> "PUBLIC", ProfilePrivacy |-> "PUBLIC", settings |-> set]
    <3>2. IsPlayer(player)
      <4>1. set = [k \in DOMAIN set |-> set[k]]
        OBVIOUS
      <4>. HIDE DEF set
      <4>. QED
        BY <4>1 DEF IsPlayer
    <3>3. \A k \in DOMAIN Defaults : k = <<k[1], k[2]>>
      BY DEF Defaults, Boxes
    <3>4. /\ question'.is = "settings" /\ question'.isOnboarding = isOnboarding
          /\ question'.form = form /\ question'.player = player
      BY <3>1 DEF Asks
    <3>. HIDE DEF player
    <3>5. SettingsKeptIn(player, form, isOnboarding, Defaults)
      BY <3>2, <3>3, SettingsOfAnyForm
    <3>. QED
      BY <3>4, <3>5 DEF PagesAgree
  <2>4. CASE AskTypes
    <3>1. PICK first \in Said, second \in Said, third \in Said :
              Asks([is |-> "types", statuses |-> <<first, second, third>>])
      BY <2>4, Zenon DEF AskTypes
    <3>2. \A s \in Said : HasCause(s.MsgType)
      <4>. SUFFICES ASSUME NEW s \in Said
                    PROVE  HasCause(s.MsgType)
        OBVIOUS
      <4>1. s.MsgType \in {<<>>, <<"RAW">>, <<"SIGNAL", "HALTED", "SOON">>}
        BY DEF Said
      <4>2. /\ Len(<<>>) # 3 /\ Len(<<"RAW">>) # 3
            /\ IsCause(<<"SIGNAL", "HALTED", "SOON">>[1])
        BY DEF IsCause
      <4>. QED
        BY <4>1, <4>2 DEF HasCause, IsComposite
    <3>. DEFINE statuses == <<first, second, third>>
    <3>3. DOMAIN statuses = 1..3 /\ \A i \in 1..3 : statuses[i] \in Said
      OBVIOUS
    <3>4. question'.is = "types" /\ question'.statuses = statuses
      BY <3>1 DEF Asks
    <3>. HIDE DEF statuses
    <3>5. TypesStayIn(statuses)
      <4>1. 3 \in Nat /\ \A i \in 1..3 : HasCause(statuses[i].MsgType)
        BY <3>2, <3>3
      <4>. QED
        BY <3>3, <4>1, TypesOfAnyStatuses
    <3>. QED
      BY <3>4, <3>5 DEF PagesAgree
  <2>5. CASE AskLastDisturbances
    <3>1. PICK one \in {h \in Histories : Len(h) <= 2}, other \in {h \in Histories : Len(h) = 1}, official \in BOOLEAN :
              Asks([is |-> "last", official |-> official, now |-> 5 * DayLength,
                    lines |-> {[schedules |-> Weekly(1, 2), holidays |-> <<>>,
                                disturbances |-> FoldLeft(AddStatus, NoRows, h).disturbances] : h \in {one, other}}])
      BY <2>5, Zenon DEF AskLastDisturbances
    <3>. DEFINE lines == {[schedules |-> Weekly(1, 2), holidays |-> <<>>,
                           disturbances |-> FoldLeft(AddStatus, NoRows, h).disturbances] : h \in {one, other}}
    <3>2. EndedByNow(lines, 5 * DayLength)
      <4>1. one \in Histories /\ other \in Histories
        BY Zenon
      <4>. QED
        BY <4>1, RunHistories, Zenon
    <3>. HIDE DEF lines
    <3>3. 5 * DayLength \in Nat /\ 2 \in Nat
      BY DayLengthAssumption
    <3>4. LastDisturbancesAgreeIn(lines, 2, official, 5 * DayLength)
      BY <3>2, <3>3, LastDisturbancesOfAnyLines
    <3>5. Asks([is |-> "last", official |-> official, now |-> 5 * DayLength, lines |-> lines])
      BY <3>1, Zenon DEF lines
    <3>6. /\ question'.is = "last" /\ question'.lines = lines
          /\ question'.official = official /\ question'.now = 5 * DayLength
      BY <3>5 DEF Asks
    <3>. QED
      BY <3>4, <3>6 DEF PagesAgree
  <2>6. CASE AskHours
    <3>1. PICK byDay \in [AllDays -> LobbyHours] : Asks([is |-> "hours", byDay |-> byDay])
      BY <2>6, Zenon DEF AskHours
    <3>. DEFINE exceptions == [d \in {8, 9, 10} |-> byDay[0]]
    <3>2. DOMAIN exceptions \subseteq Int /\ 10 \in Int
      OBVIOUS
    <3>3. question'.is = "hours" /\ question'.byDay = byDay
      BY <3>1 DEF Asks
    <3>4. HoursShownFor(byDay, exceptions, 10)
      <4>. HIDE DEF exceptions
      <4>. QED
        BY <3>2, HoursOfAnyLobby
    <3>5. HoursAgree'
      BY <3>3, <3>4, Zenon DEF HoursAgree
    <3>. QED
      BY <3>3, <3>5 DEF PagesAgree
  <2>7. CASE UNCHANGED question
    BY <1>2, <2>7 DEF PagesAgree, HoursAgree
  <2>8. CASE RecordsNext /\ ~(AskLedger \/ AskSettings \/ AskTypes \/ AskLastDisturbances \/ AskHours)
    <3>1. /\ question'.is # "ledger" /\ question'.is # "settings"
          /\ question'.is # "types" /\ question'.is # "last" /\ question'.is # "hours"
      BY <2>8, OtherQuestions
    <3>. QED
      BY <3>1 DEF PagesAgree
  <2>. QED
    BY <1>2, <2>1, <2>2, <2>4, <2>5, <2>6, <2>7, <2>8
<1>. QED
  BY <1>1, <1>2, PTL
=============================================================================

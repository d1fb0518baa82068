---------------------------- MODULE DevicePairing ----------------------------
(***************************************************************************)
(* How a phone gets its API key: resource/pair.go Post, the activation     *)
(* time of types/androidpairrequest.go, and the keys of types/apipair.go.  *)
(* A key works some time after it was given, and the time is longer for    *)
(* phones that ask often.                                                  *)
(*                                                                         *)
(* Times count minutes. requests are the rows of android_pair_request,     *)
(* whose key is the nonce; pairs, those of api_pair, which are known here  *)
(* by the nonce of the request that they were given for.                   *)
(***************************************************************************)
EXTENDS Integers, FiniteSetsExt, SequencesExt, Sums

maxTimestampSkew == 30

Hour == 60
Day == 24 * Hour
MaxWait == Day

\* What a past request adds, by how long ago it was.
DevicePenalty(diff) ==
    CASE diff < 5 -> 2 * Hour
      [] diff < 30 -> Hour
      [] diff < 2 * Hour -> 30
      [] diff < 24 * Hour -> 10
      [] OTHER -> 1

AddressPenalty(diff) ==
    CASE diff < 5 -> Hour
      [] diff < 30 -> 30
      [] diff < 2 * Hour -> 15
      [] diff < 24 * Hour -> 5
      [] OTHER -> 1

Diff(request, past) == Max({request.RequestTime - past.RequestTime, past.RequestTime - request.RequestTime})

Penalty(request, past) ==
    (IF past.AndroidID = request.AndroidID THEN DevicePenalty(Diff(request, past)) ELSE 0)
    + (IF past.IPaddress = request.IPaddress THEN AddressPenalty(Diff(request, past)) ELSE 0)

Alike(request, past) ==
    \/ past.Nonce = request.Nonce
    \/ past.AndroidID = request.AndroidID
    \/ past.IPaddress = request.IPaddress

\* A nonce that was used too recently; the zero time of the code.
Refused == -1

LatestOnly(requests, request) ==                                     \* (mutant)
    LET alike == {past \in requests : Alike(request, past)}
    IN  IF alike = {} THEN request.RequestTime
        ELSE request.RequestTime + Penalty(request, CHOOSE p \in alike : \A q \in alike : q.RequestTime <= p.RequestTime)

CalculateActivationTime(requests, request) ==
    LET alike == {past \in requests : Alike(request, past)}
        wait == Total([past \in alike |-> Penalty(request, past)])
    IN  IF \E past \in alike : past.Nonce = request.Nonce /\ Diff(request, past) < maxTimestampSkew
        THEN Refused
        ELSE request.RequestTime + Min({wait, MaxWait})

\* Post, for a request with a good signature. A nonce that is in the table fails
\* to be stored, however old it is. timestamp is the phone's clock.
Post(db, request, timestamp) ==
    LET now == request.RequestTime
        activation == CalculateActivationTime(db.requests, request)
    IN  IF \/ now - timestamp > maxTimestampSkew \/ timestamp - now > maxTimestampSkew
           \/ activation = Refused
           \/ \E past \in db.requests : past.Nonce = request.Nonce
        THEN db
        ELSE [requests |-> db.requests \cup {request},
              pairs |-> db.pairs \cup {[Key |-> request.Nonce, Activation |-> activation]}]

\* The answers to some requests, one after the other.
Answered(requests) ==
    FoldLeft(LAMBDA db, request : Post(db, request, request.RequestTime), [requests |-> {}, pairs |-> {}], requests)

Activated(pair, now) == now > pair.Activation

\* GetPairIfCorrect, for a key with its own secret.
PairsThatWork(db, now) == {pair \in db.pairs : Activated(pair, now)}

\* CountPairActivationsByDay
CountPairActivationsByDay(db, firstDay, lastDay) ==
    [day \in firstDay..lastDay |-> Cardinality({p \in db.pairs : p.Activation \div Day = day})]

(***************************************************************************)
(* Of the requests that a phone may make after some that were granted:     *)
(* what is granted works within a day and a minute; one that the table has *)
(* nothing alike works after a minute; a phone never waits less because of *)
(* one more request in the past; no nonce gets two keys; and each key is   *)
(* counted on the day when it begins to work.                              *)
(***************************************************************************)
WaitsGrowIn(requests, request) ==
    LET db == Answered(requests)
        after == Post(db, request, request.RequestTime)
        Wait(past) == CalculateActivationTime(past, request) - request.RequestTime
        now == request.RequestTime
    IN  /\ Cardinality({p.Key : p \in after.pairs}) = Cardinality(after.pairs)
        /\ after # db =>
              /\ after.pairs \subseteq PairsThatWork(after, now + MaxWait + 1)
              /\ (\A past \in db.requests : ~Alike(request, past)) =>
                    after.pairs \ db.pairs \subseteq PairsThatWork(after, now + 1)
              /\ \A fewer \in SUBSET db.requests : Wait(fewer) <= Wait(db.requests)
              /\ LET counts == CountPairActivationsByDay(after, 0, (now + MaxWait) \div Day)
                 IN  Total(counts) = Cardinality(after.pairs)
=============================================================================

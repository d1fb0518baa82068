------------------------------ MODULE Activity ------------------------------
(***************************************************************************)
(* Who is in transit: compute/stats.go, two maps of caches, by network and *)
(* by line, in which the reports of where a phone is set entries that      *)
(* expire. Reports come by HTTP (resource/realtime.go) and over MQTT       *)
(* (mqttgateway/gateway.go), so that two reports of a user may overlap.    *)
(*                                                                         *)
(* There is one network. An entry is the time that it has left; none is 0. *)
(***************************************************************************)
EXTENDS Naturals, FiniteSets, SequencesExt

CONSTANTS Users,                 \* API keys
          Reporters,             \* what handles reports
          Stations,              \* each is the sequence of its lines
          ShortStay, LongStay    \* the two expected durations

ASSUME ActivityAssumption ==
    /\ Stations # {}
    /\ ShortStay \in Nat \ {0} /\ LongStay \in Nat \ {0}

ServedLines == UNION {Range(s) : s \in Stations}

VARIABLES activityPerNetwork,    \* by user
          activityPerLine,       \* by line and user
          report                 \* what each reporter still has to do

activityVars == <<activityPerNetwork, activityPerLine, report>>

NoReport == [user |-> "no one", at |-> <<>>, stay |-> 0, sets |-> <<>>, deletes |-> {}]

ActivityInit ==
    /\ activityPerNetwork = [u \in Users |-> 0]
    /\ activityPerLine = [l \in ServedLines |-> [u \in Users |-> 0]]
    /\ report = [r \in Reporters |-> NoReport]

\* The program ends and starts again: nothing of this is stored.
ActivityRestart ==
    /\ activityPerNetwork' = [u \in Users |-> 0]
    /\ activityPerLine' = [l \in ServedLines |-> [u \in Users |-> 0]]
    /\ report' = [r \in Reporters |-> NoReport]

UserInNetwork(u) == activityPerNetwork[u] > 0

UserInLine(l, u) == activityPerLine[l][u] > 0

-----------------------------------------------------------------------------
(***************************************************************************)
(* RegisterActivity sets the user in each line of the station and in its   *)
(* network, one after the other, then deletes the user from every other    *)
(* line.                                                                   *)
(***************************************************************************)
ExpectedDuration(station, justEntered) ==
    IF justEntered \/ Len(station) > 1 THEN LongStay ELSE ShortStay

BeginReport(r, u, station, justEntered) ==
    /\ report[r] = NoReport
    /\ report' = [report EXCEPT ![r] =
           [user |-> u, at |-> station, stay |-> ExpectedDuration(station, justEntered),
            sets |-> FlattenSeq([i \in DOMAIN station |-> <<station[i], "network">>]),
            deletes |-> ServedLines \ Range(station)]]
    /\ UNCHANGED <<activityPerNetwork, activityPerLine>>

\* The rest of a report, which is over when nothing is left.
Remaining(rest) == IF rest.sets = <<>> /\ rest.deletes = {} THEN NoReport ELSE rest

SetActivity(r) ==
    LET doing == report[r]
        into == Head(doing.sets)
    IN  /\ doing.sets # <<>>
        /\ report' = [report EXCEPT ![r] = Remaining([doing EXCEPT !.sets = Tail(@)])]
        /\ \/ /\ into = "network"
              /\ activityPerNetwork' = [activityPerNetwork EXCEPT ![doing.user] = doing.stay]
              /\ UNCHANGED activityPerLine
           \/ /\ into # "network"
              /\ activityPerLine' = [activityPerLine EXCEPT ![into][doing.user] = doing.stay]
              /\ UNCHANGED activityPerNetwork

KeepActivity(r) ==                                                   \* (mutant)
    /\ report[r].sets = <<>> /\ report[r].deletes # {}
    /\ report' = [report EXCEPT ![r] = NoReport]
    /\ UNCHANGED <<activityPerNetwork, activityPerLine>>

\* sync.Map.Range has no order.
DeleteActivity(r) ==
    LET doing == report[r]
    IN  /\ doing.sets = <<>>
        /\ \E l \in doing.deletes :
               /\ activityPerLine' = [activityPerLine EXCEPT ![l][doing.user] = 0]
               /\ report' = [report EXCEPT ![r] = Remaining([doing EXCEPT !.deletes = @ \ {l}])]
        /\ UNCHANGED activityPerNetwork

RegisterActivity(r) == SetActivity(r) \/ DeleteActivity(r)

Kept(left) == IF left > 1 THEN left - 1 ELSE left                    \* (mutant)

LessTime(left) == IF left > 0 THEN left - 1 ELSE 0

\* Time passes, and entries expire.
ActivityTick ==
    /\ activityPerNetwork' = [u \in Users |-> LessTime(activityPerNetwork[u])]
    /\ activityPerLine' = [l \in ServedLines |-> [u \in Users |-> LessTime(activityPerLine[l][u])]]
    /\ UNCHANGED report

\* OITInNetwork and OITInLine, before they are fudged.
OITInNetwork == Cardinality({u \in Users : UserInNetwork(u)})

OITInLine(l) == Cardinality({u \in Users : UserInLine(l, u)})

-----------------------------------------------------------------------------
Unreported(u) == \A r \in Reporters : report[r].user # u

\* Reports that cancel each other's lines never leave a user in lines of
\* two different stations.
InOneStation ==
    \A u \in Users : Unreported(u) =>
        \E s \in Stations : \A l \in ServedLines : UserInLine(l, u) => l \in Range(s)

\* A user who reports no more is not counted for ever, by network or by line.
Forgotten ==
    \A u \in Users :
        <>[]Unreported(u) => <>[](~UserInNetwork(u) /\ \A l \in ServedLines : ~UserInLine(l, u))
=============================================================================

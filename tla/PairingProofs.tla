---------------------------- MODULE PairingProofs ----------------------------
(***************************************************************************)
(* For any players, phones and codes: the data of the handler keep their   *)
(* types, the XP for pairing is given once, and a phone can always move.   *)
(***************************************************************************)
EXTENDS Pairing, FiniteSetTheorems, TLAPS

InMutex == {"player", "device", "save", "bonus"}

HasSaved == {"bonus", "commit"}

(***************************************************************************)
(* Codes are drawn in order, and a process keeps the code it was drawn.    *)
(***************************************************************************)
DrawnInOrder ==
    /\ IsFiniteSet(DOMAIN process)
    /\ Cardinality(DOMAIN process) <= Len(Drawn)
    /\ DOMAIN process = {Drawn[i] : i \in 1..Cardinality(DOMAIN process)}

MutexHeld == \A r \in Clients : request[r].step \in InMutex <=> mu = r

CodeFound ==
    /\ processesByCode \subseteq DOMAIN process
    /\ \A r \in Clients :
           request[r].step \in InMutex \cup {"commit", "notify"} => request[r].code \in DOMAIN process

(***************************************************************************)
(* Who looks for the XP holds the row of the player: from the upsert to    *)
(* the commit no two requests are about the same player, and the XP that a *)
(* commit brings has not been given by another meanwhile.                  *)
(***************************************************************************)
SavedRow ==
    \A r \in Clients : request[r].step \in HasSaved =>
        request[r].saved = {[DiscordID |-> PlayerOf(r), Key |-> Device[r]]}

PlayersApart ==
    \A q, r \in Clients :
        q # r /\ request[q].step \in HasSaved /\ request[r].step \in HasSaved
            => PlayerOf(q) # PlayerOf(r)

BonusDue ==
    \A r \in Clients : request[r].step = "commit" /\ request[r].bonus =>
        bonuses[PlayerOf(r)].PAIR_BONUS = 0

IInv ==
    /\ TypeOK
    /\ DrawnInOrder /\ MutexHeld /\ CodeFound
    /\ SavedRow /\ PlayersApart /\ BonusDue
    /\ BonusOnce

(***************************************************************************)
(* If no phone sends two requests at once: a pair of the phone with        *)
(* another account is found by the request, then deleted by it.            *)
(***************************************************************************)
OneRequestAtATime == \A q, r \in Clients : Device[q] = Device[r] => q = r

\* The constraint on api_key.
KeysUnique == \A p, q \in pairs : p.Key = q.Key => p = q

\* The pairs of r's phone with accounts other than that of the code.
Elsewhere(r) == {p \in pairs : p.Key = Device[r] /\ p.DiscordID # PlayerOf(r)}

FoundElsewhere ==
    \A r \in Clients : request[r].step = "device" =>
        /\ Elsewhere(r) \subseteq request[r].existingPair
        /\ \A p, q \in request[r].existingPair : p = q

DeletedElsewhere ==
    \A r \in Clients : request[r].step \in {"save", "bonus", "commit"} =>
        \A p \in Elsewhere(r) : p.DiscordID \in request[r].deleted

MInv == KeysUnique /\ FoundElsewhere /\ DeletedElsewhere /\ PhonesCanMove

-----------------------------------------------------------------------------
LEMMA IInvInit == Init => IInv
<1>. SUFFICES ASSUME Init
              PROVE  IInv
  OBVIOUS
<1>1. DOMAIN process = {} /\ IsFiniteSet(DOMAIN process) /\ Cardinality(DOMAIN process) = 0
  BY FS_EmptySet DEF Init
<1>2. \A r \in Clients : request[r] = Idle
  BY DEF Init
<1>3. Idle \in Request
  BY DEF Idle, Request
<1>4. TypeOK
  BY <1>1, <1>2, <1>3, PairingAssumption DEF Init, TypeOK
<1>5. DrawnInOrder
  BY <1>1, PairingAssumption DEF DrawnInOrder
<1>6. /\ MutexHeld /\ CodeFound /\ SavedRow /\ PlayersApart /\ BonusDue
  BY <1>2, PairingAssumption
  DEF Init, Idle, MutexHeld, CodeFound, SavedRow, PlayersApart, BonusDue, InMutex, HasSaved
<1>7. BonusOnce
  BY DEF Init, BonusOnce
<1>. QED
  BY <1>4, <1>5, <1>6, <1>7 DEF IInv

\* What the removal of expired processes leaves was there.
LEMMA RemainingFacts ==
    ASSUME TypeOK
    PROVE  /\ RemainingByID \in [Players -> Codes \cup {NoOne}]
           /\ RemainingByCode \subseteq processesByCode
BY DEF TypeOK, RemainingByID, RemainingByCode

\* getProcess draws a code that no process has.
LEMMA IInvGetProcess ==
    ASSUME IInv, NEW d \in Players, getProcess(d)
    PROVE  IInv'
<1>. DEFINE n == Cardinality(DOMAIN process)
            c == Drawn[n + 1]
            new == [DiscordID |-> d, Expires |-> now + PairProcessLongevity, Completed |-> FALSE]
<1>1. /\ n \in Nat /\ IsFiniteSet(DOMAIN process) /\ n <= Len(Drawn)
      /\ DOMAIN process = {Drawn[i] : i \in 1..n}
  BY FS_CardinalityType DEF IInv, DrawnInOrder
<1>2. UNCHANGED <<now, joined, bonuses, pairs, mu, request>>
  BY DEF getProcess
<1>3. CASE HasProcess(d)
  <2>1. /\ process' = process /\ processesByID' = RemainingByID
        /\ processesByCode' = RemainingByCode
    BY <1>3 DEF getProcess
  <2>2. TypeOK'
    BY <1>2, <2>1, RemainingFacts DEF IInv, TypeOK
  <2>3. DrawnInOrder'
    BY <2>1 DEF IInv, DrawnInOrder
  <2>4. CodeFound'
    BY <1>2, <2>1, RemainingFacts DEF IInv, CodeFound
  <2>5. (MutexHeld /\ SavedRow /\ PlayersApart /\ BonusDue /\ BonusOnce)'
    BY <1>2, <2>1 DEF IInv, MutexHeld, SavedRow, PlayersApart, BonusDue, BonusOnce, PlayerOf
  <2>. QED
    BY <2>2, <2>3, <2>4, <2>5 DEF IInv
<1>4. CASE ~HasProcess(d)
  <2>1. /\ n < Len(Drawn)
        /\ process' = [x \in DOMAIN process \cup {c} |-> IF x = c THEN new ELSE process[x]]
        /\ processesByID' = [RemainingByID EXCEPT ![d] = c]
        /\ processesByCode' = RemainingByCode \cup {c}
    BY <1>4 DEF getProcess
  <2>2. n + 1 \in DOMAIN Drawn /\ c \in Codes /\ c \notin DOMAIN process
    BY <1>1, <2>1, PairingAssumption DEF Codes
  <2>3. /\ DOMAIN process' = DOMAIN process \cup {c}
        /\ process'[c] = new
        /\ \A x \in DOMAIN process : process'[x] = process[x]
    BY <2>1, <2>2
  <2>4. new \in [DiscordID : Players, Expires : Nat, Completed : BOOLEAN]
    BY PairingAssumption DEF IInv, TypeOK
  <2>. HIDE DEF new, c
  <2>5. TypeOK'
    <3>1. processesByID' \in [Players -> Codes \cup {NoOne}] /\ processesByCode' \subseteq Codes
      BY <2>1, <2>2, RemainingFacts DEF IInv, TypeOK
    <3>2. /\ DOMAIN process' \subseteq Codes
          /\ \A x \in DOMAIN process' :
                 process'[x] \in [DiscordID : Players, Expires : Nat, Completed : BOOLEAN]
      BY <2>2, <2>3, <2>4 DEF IInv, TypeOK
    <3>. QED
      BY <1>2, <3>1, <3>2 DEF IInv, TypeOK
  <2>6. DrawnInOrder'
    <3>1. IsFiniteSet(DOMAIN process') /\ Cardinality(DOMAIN process') = n + 1
      BY <1>1, <2>2, <2>3, FS_AddElement
    <3>2. DOMAIN process' = {Drawn[i] : i \in 1..(n + 1)}
      BY <1>1, <2>3 DEF c
    <3>3. n + 1 <= Len(Drawn)
      BY <1>1, <2>1, PairingAssumption
    <3>. HIDE DEF n
    <3>. QED
      BY <3>1, <3>2, <3>3 DEF DrawnInOrder
  <2>7. CodeFound'
    BY <1>2, <2>1, <2>3, RemainingFacts DEF IInv, CodeFound
  <2>8. \A r \in Clients : request[r].step \in InMutex \cup HasSaved => PlayerOf(r)' = PlayerOf(r)
    BY <1>2, <2>3 DEF IInv, CodeFound, PlayerOf, HasSaved, InMutex
  <2>9. (MutexHeld /\ SavedRow /\ PlayersApart /\ BonusDue /\ BonusOnce)'
    BY <1>2, <2>8
    DEF IInv, MutexHeld, SavedRow, PlayersApart, BonusDue, BonusOnce, HasSaved
  <2>. QED
    BY <2>5, <2>6, <2>7, <2>9 DEF IInv
<1>. QED
  BY <1>3, <1>4

(***************************************************************************)
(* A step of one request r, to the record x, which changes no table.       *)
(***************************************************************************)
LEMMA IInvRequest ==
    ASSUME IInv, NEW r \in Clients, NEW x \in Request,
           request' = [request EXCEPT ![r] = x],
           UNCHANGED <<now, joined, bonuses, pairs, process>>,
           processesByID' \in [Players -> Codes \cup {NoOne}],
           processesByCode' \subseteq processesByCode,
           mu' \in Clients \cup {NoOne},
           x.step \in InMutex <=> mu' = r,
           mu' # mu => {mu, mu'} \subseteq {r, NoOne},
           x.step \in InMutex \cup {"commit", "notify"} => x.code \in DOMAIN process,
           x.step \in HasSaved =>
               /\ x.saved = {[DiscordID |-> process[x.code].DiscordID, Key |-> Device[r]]}
               /\ \A q \in Clients \ {r} : request[q].step \in HasSaved =>
                      PlayerOf(q) # process[x.code].DiscordID,
           x.step = "commit" /\ x.bonus => bonuses[process[x.code].DiscordID].PAIR_BONUS = 0
    PROVE  IInv'
<1>1. request \in [Clients -> Request] /\ request' \in [Clients -> Request]
  BY DEF IInv, TypeOK
<1>2. \A q \in Clients : request'[q] = IF q = r THEN x ELSE request[q]
  BY <1>1
<1>3. TypeOK'
  BY <1>1 DEF IInv, TypeOK
<1>4. DrawnInOrder'
  BY DEF IInv, DrawnInOrder
<1>5. MutexHeld'
  BY <1>2, PairingAssumption DEF IInv, MutexHeld
<1>6. CodeFound'
  BY <1>2 DEF IInv, CodeFound
<1>7. \A q \in Clients : PlayerOf(q)' = IF q = r THEN process[x.code].DiscordID ELSE PlayerOf(q)
  BY <1>2 DEF PlayerOf
<1>8. SavedRow'
  BY <1>2, <1>7 DEF IInv, SavedRow
<1>9. PlayersApart'
  BY <1>2, <1>7 DEF IInv, PlayersApart
<1>10. BonusDue'
  BY <1>2, <1>7 DEF IInv, BonusDue
<1>11. BonusOnce'
  BY DEF IInv, BonusOnce
<1>. QED
  BY <1>3, <1>4, <1>5, <1>6, <1>8, <1>9, <1>10, <1>11 DEF IInv

\* The steps of a request up to its commit.
LEMMA IInvStatements ==
    ASSUME IInv, NEW r \in Clients,
           \/ \E code \in Codes : Post(r, code)
           \/ Lookup(r) \/ DeletePlayer(r) \/ DeleteDevice(r) \/ Save(r) \/ Bonus(r)
           \/ Fail(r) \/ Rollback(r)
    PROVE  IInv'
<1>. USE DEF InMutex, HasSaved
<1>1. /\ request \in [Clients -> Request] /\ request[r] \in Request
      /\ processesByID \in [Players -> Codes \cup {NoOne}]
      /\ processesByCode \subseteq DOMAIN process /\ DOMAIN process \subseteq Codes
      /\ mu \in Clients \cup {NoOne} /\ NoOne \notin Clients
      /\ pairs \subseteq PPPair
      /\ \A q \in Clients : request[q].step \in InMutex <=> mu = q
      /\ \A c \in DOMAIN process : process[c].DiscordID \in Players
  BY PairingAssumption DEF IInv, TypeOK, CodeFound, MutexHeld
<1>2. request[r].step \in InMutex \cup {"commit", "notify"} => request[r].code \in DOMAIN process
  BY DEF IInv, CodeFound
<1>3. ASSUME NEW code \in Codes, Post(r, code)
      PROVE  IInv'
  <2>. DEFINE x == [request[r] EXCEPT !.step = "lookup", !.code = code]
  <2>1. /\ request' = [request EXCEPT ![r] = x]
        /\ UNCHANGED <<now, joined, bonuses, pairs, process, processesByID, processesByCode, mu>>
        /\ request[r].step = "idle"
    BY <1>1, <1>3 DEF Post
  <2>2. x \in Request /\ x.step = "lookup"
    BY <1>1 DEF Request
  <2>. QED
    BY <1>1, <2>1, <2>2, IInvRequest
<1>4. CASE Lookup(r)
  <2>1. /\ UNCHANGED <<now, joined, bonuses, pairs, process>>
        /\ processesByID' \in [Players -> Codes \cup {NoOne}]
        /\ processesByCode' \subseteq processesByCode
        /\ request[r].step = "lookup" /\ mu = NoOne
    BY <1>4, RemainingFacts DEF Lookup, IInv
  <2>2. CASE Pending(request[r].code)
    <3>. DEFINE x == [request[r] EXCEPT !.step = "player"]
    <3>1. request' = [request EXCEPT ![r] = x] /\ mu' = r
      BY <1>1, <1>4, <2>2 DEF Lookup, Goto
    <3>2. x \in Request /\ x.step = "player" /\ x.code = request[r].code
      BY <1>1 DEF Request
    <3>3. x.code \in DOMAIN process
      BY <1>1, <2>2, <3>2, RemainingFacts DEF Pending, IInv
    <3>. HIDE DEF x
    <3>. QED
      BY <1>1, <2>1, <3>1, <3>2, <3>3, IInvRequest
  <2>3. CASE ~Pending(request[r].code)
    <3>1. request' = [request EXCEPT ![r] = Idle] /\ mu' = mu
      BY <1>4, <2>3 DEF Lookup
    <3>2. Idle \in Request /\ Idle.step = "idle"
      BY DEF Idle, Request
    <3>. QED
      BY <1>1, <2>1, <3>1, <3>2, IInvRequest
  <2>. QED
    BY <2>2, <2>3
<1>5. CASE DeletePlayer(r)
  <2>. DEFINE existing == {p \in pairs : p.DiscordID = PlayerOf(r)}
              ids == {p.DiscordID : p \in existing}
              found == {p \in pairs \ existing : p.Key = Device[r]}
              x == [request[r] EXCEPT !.step = "device", !.deleted = ids, !.existingPair = found]
  <2>1. /\ request' = [request EXCEPT ![r] = x]
        /\ UNCHANGED <<now, joined, bonuses, pairs, process, processesByID, processesByCode, mu>>
        /\ request[r].step = "player"
    BY <1>1, <1>5 DEF DeletePlayer
  <2>2. ids \subseteq Players /\ found \subseteq PPPair
    BY <1>1 DEF PPPair
  <2>3. x \in Request /\ x.step = "device" /\ x.code = request[r].code
    <3>. HIDE DEF ids, found
    <3>. QED
      BY <1>1, <2>2 DEF Request
  <2>. HIDE DEF x
  <2>. QED
    BY <1>1, <1>2, <2>1, <2>3, IInvRequest
<1>6. CASE DeleteDevice(r)
  <2>. DEFINE found == {p.DiscordID : p \in request[r].existingPair}
  <2>1. PICK deleted \in {{}, found} :
               request' = [request EXCEPT ![r].step = "save", ![r].deleted = @ \cup deleted]
    BY <1>6 DEF DeleteDevice
  <2>. DEFINE x == [request[r] EXCEPT !.step = "save", !.deleted = @ \cup deleted]
  <2>2. /\ request' = [request EXCEPT ![r] = x]
        /\ UNCHANGED <<now, joined, bonuses, pairs, process, processesByID, processesByCode, mu>>
        /\ request[r].step = "device"
    BY <1>1, <1>6, <2>1 DEF DeleteDevice
  <2>3. deleted \subseteq Players
    BY <1>1 DEF Request, PPPair
  <2>4. x \in Request /\ x.step = "save" /\ x.code = request[r].code
    BY <1>1, <2>3 DEF Request
  <2>. HIDE DEF x
  <2>. QED
    BY <1>1, <1>2, <2>2, <2>4, IInvRequest
<1>7. CASE Save(r)
  <2>. DEFINE d == PlayerOf(r)
              row == [DiscordID |-> d, Key |-> Device[r]]
  <2>1. /\ UNCHANGED <<now, joined, bonuses, pairs, process, processesByID, processesByCode>>
        /\ request[r].step = "save" /\ ~PlayerLocked(r, d)
    BY <1>7 DEF Save
  <2>2. request[r].code \in DOMAIN process /\ d \in Players
    BY <1>1, <1>2, <2>1 DEF PlayerOf
  <2>3. ASSUME request' = [request EXCEPT ![r].step = "bonus", ![r].saved = {row}], mu' = mu
        PROVE  IInv'
    <3>. DEFINE x == [request[r] EXCEPT !.step = "bonus", !.saved = {row}]
    <3>1. request' = [request EXCEPT ![r] = x]
      BY <1>1, <2>3
    <3>2. row \in PPPair
      BY <2>2 DEF PPPair, Devices
    <3>3. x \in Request /\ x.step = "bonus" /\ x.code = request[r].code /\ x.saved = {row}
      <4>. HIDE DEF row
      <4>. QED
        BY <1>1, <3>2 DEF Request
    <3>4. ASSUME NEW q \in Clients \ {r}, request[q].step \in HasSaved
          PROVE  PlayerOf(q) # d
      <4>1. request[q].step = "commit"
        BY <1>1, <2>1, <3>4
      <4>2. [DiscordID |-> PlayerOf(q), Key |-> Device[q]] \in request[q].saved
        BY <3>4 DEF IInv, SavedRow
      <4>3. ~(d \in request[q].deleted \cup {p.DiscordID : p \in request[q].saved})
        BY <2>1, <4>1 DEF PlayerLocked, Open
      <4>. QED
        BY <4>2, <4>3
    <3>5. /\ process[x.code].DiscordID = d
          /\ x.saved = {[DiscordID |-> process[x.code].DiscordID, Key |-> Device[r]]}
          /\ mu' = r
      BY <1>1, <2>1, <2>3, <3>3 DEF PlayerOf
    <3>. HIDE DEF x, d, row
    <3>6. /\ \A q \in Clients \ {r} : request[q].step \in HasSaved =>
                 PlayerOf(q) # process[x.code].DiscordID
          /\ x.code \in DOMAIN process /\ x.step = "bonus" /\ x \in Request
      BY <2>2, <3>3, <3>4, <3>5
    <3>7. /\ processesByID' \in [Players -> Codes \cup {NoOne}]
          /\ processesByCode' \subseteq processesByCode /\ mu' = mu
          /\ mu' \in Clients \cup {NoOne}
      BY <1>1, <2>1, <2>3
    <3>. QED
      BY <2>1, <3>1, <3>5, <3>6, <3>7, IInvRequest
  <2>4. ASSUME request' = [request EXCEPT ![r].step = "rollback", ![r].conflict = TRUE],
               mu' = NoOne
        PROVE  IInv'
    <3>. DEFINE x == [request[r] EXCEPT !.step = "rollback", !.conflict = TRUE]
    <3>1. request' = [request EXCEPT ![r] = x]
      BY <1>1, <2>4
    <3>2. x \in Request /\ x.step = "rollback"
      BY <1>1 DEF Request
    <3>. HIDE DEF x
    <3>. QED
      BY <1>1, <2>1, <2>4, <3>1, <3>2, IInvRequest
  <2>. QED
    BY <1>7, <2>3, <2>4 DEF Save
<1>8. CASE Bonus(r)
  <2>. DEFINE due == bonuses[PlayerOf(r)].PAIR_BONUS = 0
              x == [request[r] EXCEPT !.step = "commit", !.bonus = due]
  <2>1. /\ request' = [request EXCEPT ![r] = x] /\ mu' = NoOne
        /\ UNCHANGED <<now, joined, bonuses, pairs, process, processesByID, processesByCode>>
        /\ request[r].step = "bonus"
    BY <1>1, <1>8 DEF Bonus
  <2>2. /\ x \in Request /\ x.step = "commit" /\ x.code = request[r].code
        /\ x.saved = request[r].saved /\ x.bonus = due
    <3>. HIDE DEF due
    <3>1. due \in BOOLEAN
      BY DEF due
    <3>. QED
      BY <1>1, <3>1 DEF Request
  <2>3. /\ process[x.code].DiscordID = PlayerOf(r)
        /\ x.saved = {[DiscordID |-> PlayerOf(r), Key |-> Device[r]]}
        /\ \A q \in Clients \ {r} : request[q].step \in HasSaved => PlayerOf(q) # PlayerOf(r)
    BY <2>1, <2>2 DEF IInv, SavedRow, PlayersApart, PlayerOf
  <2>. HIDE DEF x
  <2>. QED
    BY <1>1, <1>2, <2>1, <2>2, <2>3, IInvRequest
<1>9. CASE Fail(r)
  <2>. DEFINE x == [request[r] EXCEPT !.step = "rollback"]
  <2>1. /\ request' = [request EXCEPT ![r] = x]
        /\ mu' = IF mu = r THEN NoOne ELSE mu
        /\ UNCHANGED <<now, joined, bonuses, pairs, process, processesByID, processesByCode>>
    BY <1>1, <1>9 DEF Fail, Goto
  <2>2. x \in Request /\ x.step = "rollback"
    BY <1>1 DEF Request
  <2>. HIDE DEF x
  <2>. QED
    BY <1>1, <2>1, <2>2, IInvRequest
<1>10. CASE Rollback(r)
  <2>1. /\ request' = [request EXCEPT ![r] = Idle]
        /\ UNCHANGED <<now, joined, bonuses, pairs, process, processesByID, processesByCode, mu>>
        /\ request[r].step = "rollback"
    BY <1>10 DEF Rollback
  <2>2. Idle \in Request /\ Idle.step = "idle"
    BY DEF Idle, Request
  <2>. QED
    BY <1>1, <2>1, <2>2, IInvRequest
<1>. QED
  BY <1>3, <1>4, <1>5, <1>6, <1>7, <1>8, <1>9, <1>10

\* A commit brings the XP of a player whom no other request has saved.
LEMMA IInvCommit ==
    ASSUME IInv, NEW r \in Clients, Commit(r)
    PROVE  IInv'
<1>. DEFINE d == PlayerOf(r)
            given == IF request[r].bonus THEN 1 ELSE 0
<1>1. /\ request[r].step = "commit"
      /\ pairs' = {p \in Visible(r) : \A s \in request[r].saved : s.DiscordID # p.DiscordID}
                      \cup request[r].saved
      /\ bonuses' = [bonuses EXCEPT ![d].PAIR_BONUS = @ + given]
      /\ request' = [request EXCEPT ![r].step = "notify"]
      /\ UNCHANGED <<now, joined, process, processesByID, processesByCode, mu>>
  BY DEF Commit, Saved, Goto
<1>2. /\ request \in [Clients -> Request] /\ request[r] \in Request
      /\ pairs \subseteq PPPair
      /\ bonuses \in [Players -> [SIGNUP_BONUS : Nat, PAIR_BONUS : Nat]]
      /\ request[r].code \in DOMAIN process /\ d \in Players
  BY <1>1 DEF IInv, TypeOK, CodeFound, PlayerOf
<1>3. /\ request' \in [Clients -> Request]
      /\ \A q \in Clients : /\ request'[q].step = (IF q = r THEN "notify" ELSE request[q].step)
                             /\ request'[q].code = request[q].code
                             /\ request'[q].saved = request[q].saved
                             /\ request'[q].bonus = request[q].bonus
  BY <1>1, <1>2 DEF Request
<1>4. given \in {0, 1} /\ (given = 1 => bonuses[d].PAIR_BONUS = 0)
  BY <1>1 DEF IInv, BonusDue
<1>. HIDE DEF d, given
<1>5. /\ bonuses' \in [Players -> [SIGNUP_BONUS : Nat, PAIR_BONUS : Nat]]
      /\ \A e \in Players : bonuses'[e].PAIR_BONUS =
             IF e = d THEN bonuses[d].PAIR_BONUS + given ELSE bonuses[e].PAIR_BONUS
  BY <1>1, <1>2, <1>4
<1>6. TypeOK'
  <2>1. pairs' \subseteq PPPair
    BY <1>1, <1>2 DEF Request, Visible
  <2>. QED
    BY <1>1, <1>3, <1>5, <2>1 DEF IInv, TypeOK
<1>7. DrawnInOrder' /\ CodeFound' /\ MutexHeld'
  BY <1>1, <1>3 DEF IInv, DrawnInOrder, CodeFound, MutexHeld, InMutex
<1>8. \A q \in Clients : PlayerOf(q)' = PlayerOf(q)
  BY <1>1, <1>3 DEF PlayerOf
<1>9. SavedRow' /\ PlayersApart'
  BY <1>3, <1>8 DEF IInv, SavedRow, PlayersApart, HasSaved
<1>10. BonusDue'
  <2>. SUFFICES ASSUME NEW q \in Clients, request'[q].step = "commit", request'[q].bonus
                PROVE  bonuses'[PlayerOf(q)].PAIR_BONUS = 0
    BY <1>8 DEF BonusDue
  <2>1. q # r /\ request[q].step = "commit" /\ request[q].bonus
    BY <1>3
  <2>2. PlayerOf(q) # d
    BY <1>1, <2>1 DEF IInv, PlayersApart, HasSaved, d
  <2>3. PlayerOf(q) \in Players
    BY <2>1 DEF IInv, CodeFound, TypeOK, PlayerOf
  <2>. QED
    BY <1>5, <2>1, <2>2, <2>3 DEF IInv, BonusDue
<1>11. BonusOnce'
  BY <1>2, <1>4, <1>5 DEF IInv, BonusOnce
<1>. QED
  BY <1>6, <1>7, <1>9, <1>10, <1>11 DEF IInv

LEMMA IInvNotify ==
    ASSUME IInv, NEW r \in Clients, Notify(r)
    PROVE  IInv'
<1>1. /\ request[r].step = "notify"
      /\ process' = [process EXCEPT ![request[r].code].Completed = TRUE]
      /\ request' = [request EXCEPT ![r] = Idle]
      /\ UNCHANGED <<now, joined, bonuses, pairs, processesByID, processesByCode, mu>>
  BY DEF Notify
<1>2. request \in [Clients -> Request] /\ Idle \in Request /\ Idle.step = "idle"
  BY DEF IInv, TypeOK, Idle, Request
<1>3. /\ request' \in [Clients -> Request]
      /\ \A q \in Clients : request'[q] = IF q = r THEN Idle ELSE request[q]
  BY <1>1, <1>2
<1>4. /\ DOMAIN process' = DOMAIN process
      /\ \A c \in DOMAIN process :
             /\ process'[c] \in [DiscordID : Players, Expires : Nat, Completed : BOOLEAN]
             /\ process'[c].DiscordID = process[c].DiscordID
  <2>1. \A c \in DOMAIN process :
            process[c] \in [DiscordID : Players, Expires : Nat, Completed : BOOLEAN]
    BY DEF IInv, TypeOK
  <2>. QED
    BY <1>1, <2>1
<1>5. TypeOK'
  BY <1>1, <1>3, <1>4 DEF IInv, TypeOK
<1>6. DrawnInOrder' /\ CodeFound'
  BY <1>1, <1>2, <1>3, <1>4 DEF IInv, DrawnInOrder, CodeFound, InMutex
<1>7. MutexHeld'
  BY <1>1, <1>2, <1>3 DEF IInv, MutexHeld, InMutex
<1>8. \A q \in Clients \ {r} : request[q].step \in HasSaved => PlayerOf(q)' = PlayerOf(q)
  BY <1>3, <1>4 DEF IInv, CodeFound, PlayerOf, HasSaved, InMutex
<1>9. (SavedRow /\ PlayersApart /\ BonusDue /\ BonusOnce)'
  BY <1>1, <1>2, <1>3, <1>8 DEF IInv, SavedRow, PlayersApart, BonusDue, BonusOnce, HasSaved
<1>. QED
  BY <1>5, <1>6, <1>7, <1>9 DEF IInv

LEMMA IInvStep ==
    ASSUME IInv, [Next]_vars
    PROVE  IInv'
<1>1. ASSUME NEW d \in Players, NewSession(d)
      PROVE  IInv'
  <2>1. /\ joined' = joined \cup {d}
        /\ bonuses' = [bonuses EXCEPT ![d].SIGNUP_BONUS = @ + 1]
        /\ UNCHANGED <<now, pairs, process, processesByID, processesByCode, mu, request>>
    BY <1>1 DEF NewSession
  <2>2. /\ bonuses' \in [Players -> [SIGNUP_BONUS : Nat, PAIR_BONUS : Nat]]
        /\ \A e \in Players : bonuses'[e].PAIR_BONUS = bonuses[e].PAIR_BONUS
    BY <2>1 DEF IInv, TypeOK
  <2>3. TypeOK'
    BY <2>1, <2>2 DEF IInv, TypeOK
  <2>4. (DrawnInOrder /\ MutexHeld /\ CodeFound /\ SavedRow /\ PlayersApart)'
    BY <2>1 DEF IInv, DrawnInOrder, MutexHeld, CodeFound, SavedRow, PlayersApart, PlayerOf
  <2>5. BonusDue'
    BY <2>1, <2>2 DEF IInv, TypeOK, BonusDue, PlayerOf, CodeFound
  <2>6. BonusOnce'
    BY <2>2 DEF IInv, BonusOnce
  <2>. QED
    BY <2>3, <2>4, <2>5, <2>6 DEF IInv
<1>2. CASE Tick
  <2>1. /\ now' \in 0..MaxTime
        /\ UNCHANGED <<joined, bonuses, pairs, process, processesByID, processesByCode, mu, request>>
    BY <1>2, PairingAssumption DEF Tick, IInv, TypeOK
  <2>. QED
    BY <2>1 DEF IInv, TypeOK, DrawnInOrder, MutexHeld, CodeFound, SavedRow, PlayersApart,
                BonusDue, BonusOnce, PlayerOf
<1>3. CASE UNCHANGED vars
  BY <1>3 DEF vars, IInv, TypeOK, DrawnInOrder, MutexHeld, CodeFound, SavedRow, PlayersApart,
              BonusDue, BonusOnce, PlayerOf
<1>. QED
  BY <1>1, <1>2, <1>3, IInvGetProcess, IInvStatements, IInvCommit, IInvNotify
  DEF Next, Statements

\* The inductive invariant of a request that presents a code.
THEOREM Invariant == Spec => []IInv
BY IInvInit, IInvStep, PTL DEF Spec

\* The rows, the two maps and the requests of the handler hold what they may.
THEOREM Typing == Spec => []TypeOK
<1>1. IInv => TypeOK
  BY DEF IInv
<1>. QED
  BY <1>1, Invariant, PTL

\* TryCreateConnection gives PAIR_BONUS to a player at most once, however many
\* requests present codes of the same player, from the same phone or others.
THEOREM BonusGivenOnce == Spec => []BonusOnce
<1>1. IInv => BonusOnce
  BY DEF IInv
<1>. QED
  BY <1>1, Invariant, PTL

-----------------------------------------------------------------------------
LEMMA MInvInit == Init => MInv
BY DEF Init, Idle, MInv, KeysUnique, FoundElsewhere, DeletedElsewhere, PhonesCanMove

(***************************************************************************)
(* A step of one request r that leaves the pairs as they are.              *)
(***************************************************************************)
LEMMA MInvRequest ==
    ASSUME MInv, NEW r \in Clients, NEW x,
           request \in [Clients -> Request], request' = [request EXCEPT ![r] = x],
           pairs' = pairs,
           \A q \in Clients : request[q].step \in {"device", "save", "bonus", "commit"} =>
               process'[request[q].code].DiscordID = process[request[q].code].DiscordID,
           x.conflict = FALSE,
           x.step = "device" => /\ Elsewhere(r)' \subseteq x.existingPair
                                /\ \A p, q \in x.existingPair : p = q,
           x.step \in {"save", "bonus", "commit"} =>
               \A p \in Elsewhere(r)' : p.DiscordID \in x.deleted
    PROVE  MInv'
<1>1. \A q \in Clients : request'[q] = IF q = r THEN x ELSE request[q]
  OBVIOUS
<1>2. \A q \in Clients \ {r} :
          request[q].step \in {"device", "save", "bonus", "commit"} => Elsewhere(q)' = Elsewhere(q)
  BY <1>1 DEF Elsewhere, PlayerOf
<1>3. KeysUnique' /\ PhonesCanMove'
  BY <1>1 DEF MInv, KeysUnique, PhonesCanMove
<1>4. FoundElsewhere'
  BY <1>1, <1>2 DEF MInv, FoundElsewhere
<1>5. DeletedElsewhere'
  BY <1>1, <1>2 DEF MInv, DeletedElsewhere
<1>. QED
  BY <1>3, <1>4, <1>5 DEF MInv

\* DeletePlayer sees every pair of the phone, and there is one at most.
LEMMA MInvDeletePlayer ==
    ASSUME IInv, MInv, NEW r \in Clients, DeletePlayer(r)
    PROVE  MInv'
<1>. DEFINE existing == {p \in pairs : p.DiscordID = PlayerOf(r)}
            found == {p \in pairs \ existing : p.Key = Device[r]}
            x == [request[r] EXCEPT !.step = "device",
                     !.deleted = {p.DiscordID : p \in existing}, !.existingPair = found]
<1>1. /\ request \in [Clients -> Request] /\ request[r] \in Request
  BY DEF IInv, TypeOK
<1>2. request' = [request EXCEPT ![r] = x] /\ UNCHANGED <<pairs, process>>
  BY <1>1 DEF DeletePlayer
<1>3. /\ x.step = "device" /\ x.existingPair = found /\ x.code = request[r].code
      /\ x.conflict = request[r].conflict
  BY <1>1 DEF Request
<1>4. x.conflict = FALSE
  BY <1>1, <1>3 DEF MInv, PhonesCanMove, Request
<1>. HIDE DEF x
<1>5. Elsewhere(r)' = found
  BY <1>1, <1>2, <1>3 DEF Elsewhere, PlayerOf
<1>6. \A p, q \in found : p = q
  BY DEF MInv, KeysUnique
<1>. QED
  BY <1>1, <1>2, <1>3, <1>4, <1>5, <1>6, MInvRequest

\* DeleteDevice deletes the pair it found, unless it has been replaced: then
\* the phone has none left with another account.
LEMMA MInvDeleteDevice ==
    ASSUME IInv, MInv, NEW r \in Clients, DeleteDevice(r)
    PROVE  MInv'
<1>. DEFINE found == {p.DiscordID : p \in request[r].existingPair}
            replaced == request[r].existingPair \ pairs # {}
<1>1. /\ request \in [Clients -> Request] /\ request[r] \in Request
      /\ request[r].step = "device"
  BY DEF IInv, TypeOK, DeleteDevice
<1>2. PICK deleted \in IF replaced THEN {{}, found} ELSE {found} :
               request' = [request EXCEPT ![r].step = "save", ![r].deleted = @ \cup deleted]
  BY DEF DeleteDevice
<1>. DEFINE x == [request[r] EXCEPT !.step = "save", !.deleted = @ \cup deleted]
<1>3. request' = [request EXCEPT ![r] = x] /\ UNCHANGED <<pairs, process>>
  BY <1>1, <1>2 DEF DeleteDevice
<1>4. /\ x.step = "save" /\ x.code = request[r].code /\ x.conflict = request[r].conflict
      /\ deleted \subseteq x.deleted
  BY <1>1 DEF Request
<1>5. x.conflict = FALSE
  BY <1>1, <1>4 DEF MInv, PhonesCanMove, Request
<1>. HIDE DEF x
<1>6. Elsewhere(r)' = Elsewhere(r)
  BY <1>1, <1>3, <1>4 DEF Elsewhere, PlayerOf
<1>7. /\ Elsewhere(r) \subseteq request[r].existingPair /\ Elsewhere(r) \subseteq pairs
      /\ \A p, q \in request[r].existingPair : p = q
  BY <1>1 DEF MInv, FoundElsewhere, Elsewhere
<1>8. ASSUME NEW p \in Elsewhere(r)
      PROVE  p.DiscordID \in x.deleted
  <2>1. ~replaced
    BY <1>7, <1>8
  <2>. QED
    BY <1>2, <1>4, <1>7, <1>8, <2>1
<1>. QED
  BY <1>1, <1>3, <1>4, <1>5, <1>6, <1>8, MInvRequest

LEMMA MInvSave ==
    ASSUME IInv, MInv, NEW r \in Clients, Save(r)
    PROVE  MInv'
<1>. DEFINE row == [DiscordID |-> PlayerOf(r), Key |-> Device[r]]
            x == [request[r] EXCEPT !.step = "bonus", !.saved = {row}]
<1>1. /\ request \in [Clients -> Request] /\ request[r] \in Request
      /\ request[r].step = "save"
  BY DEF IInv, TypeOK, Save
<1>2. \A p \in Elsewhere(r) : p.DiscordID \in request[r].deleted
  BY <1>1 DEF MInv, DeletedElsewhere
<1>3. ~\E p \in Visible(r) : p.Key = Device[r] /\ p.DiscordID # PlayerOf(r)
  BY <1>2 DEF Visible, Elsewhere
<1>4. request' = [request EXCEPT ![r] = x] /\ UNCHANGED <<pairs, process>>
  BY <1>1, <1>3 DEF Save
<1>. HIDE DEF row
<1>5. /\ x.step = "bonus" /\ x.code = request[r].code /\ x.conflict = request[r].conflict
      /\ x.deleted = request[r].deleted
  BY <1>1 DEF Request
<1>6. x.conflict = FALSE
  BY <1>1, <1>5 DEF MInv, PhonesCanMove, Request
<1>. HIDE DEF x
<1>7. Elsewhere(r)' = Elsewhere(r)
  BY <1>1, <1>4, <1>5 DEF Elsewhere, PlayerOf
<1>. QED
  BY <1>1, <1>2, <1>4, <1>5, <1>6, <1>7, MInvRequest

\* What a commit leaves of the phone's pairs is the one that it saved.
LEMMA MInvCommit ==
    ASSUME IInv, MInv, OneRequestAtATime, NEW r \in Clients, Commit(r)
    PROVE  MInv'
<1>. DEFINE row == [DiscordID |-> PlayerOf(r), Key |-> Device[r]]
<1>1. /\ request[r].step = "commit" /\ request[r].saved = {row}
      /\ pairs' = {p \in Visible(r) : \A s \in request[r].saved : s.DiscordID # p.DiscordID}
                      \cup request[r].saved
      /\ request' = [request EXCEPT ![r].step = "notify"]
      /\ process' = process
  BY DEF Commit, Saved, Goto, IInv, SavedRow, HasSaved
<1>2. request \in [Clients -> Request]
  BY DEF IInv, TypeOK
<1>3. \A q \in Clients : /\ request'[q].step = (IF q = r THEN "notify" ELSE request[q].step)
                         /\ request'[q].code = request[q].code
                         /\ request'[q].existingPair = request[q].existingPair
                         /\ request'[q].deleted = request[q].deleted
                         /\ request'[q].conflict = request[q].conflict
  BY <1>1, <1>2 DEF Request
<1>4. pairs' \ {row} \subseteq {p \in pairs : p.DiscordID \notin request[r].deleted
                                          /\ p.DiscordID # PlayerOf(r)}
  BY <1>1 DEF Visible
<1>5. \A p \in pairs' \ {row} : p \in pairs /\ p.Key # Device[r]
  BY <1>1, <1>4 DEF MInv, DeletedElsewhere, Elsewhere
<1>6. row.Key = Device[r]
  OBVIOUS
<1>. HIDE DEF row
<1>7. KeysUnique'
  BY <1>5, <1>6 DEF MInv, KeysUnique
<1>8. \A q \in Clients \ {r} : Elsewhere(q)' \subseteq Elsewhere(q)
  BY <1>1, <1>3, <1>5, <1>6 DEF OneRequestAtATime, Elsewhere, PlayerOf
<1>9. FoundElsewhere' /\ DeletedElsewhere' /\ PhonesCanMove'
  BY <1>3, <1>8 DEF MInv, FoundElsewhere, DeletedElsewhere, PhonesCanMove
<1>. QED
  BY <1>7, <1>9 DEF MInv

LEMMA MInvStep ==
    ASSUME IInv, MInv, OneRequestAtATime, [Next]_vars
    PROVE  MInv'
<1>1. /\ request \in [Clients -> Request]
      /\ \A q \in Clients : request[q].conflict = FALSE
  BY DEF IInv, TypeOK, Request, MInv, PhonesCanMove
<1>2. \A q \in Clients : request[q].step \in {"device", "save", "bonus", "commit"} =>
          request[q].code \in DOMAIN process
  BY DEF IInv, CodeFound, InMutex
<1>3. ASSUME UNCHANGED <<pairs, request>>,
             \A c \in DOMAIN process : process'[c].DiscordID = process[c].DiscordID
      PROVE  MInv'
  <2>1. \A q \in Clients : request[q].step \in {"device", "save", "bonus", "commit"} =>
            Elsewhere(q)' = Elsewhere(q)
    BY <1>2, <1>3 DEF Elsewhere, PlayerOf
  <2>. QED
    BY <1>3, <2>1 DEF MInv, KeysUnique, FoundElsewhere, DeletedElsewhere, PhonesCanMove
<1>4. ASSUME NEW d \in Players, getProcess(d)
      PROVE  MInv'
  <2>1. /\ Cardinality(DOMAIN process) \in Nat
        /\ DOMAIN process = {Drawn[i] : i \in 1..Cardinality(DOMAIN process)}
    BY FS_CardinalityType DEF IInv, DrawnInOrder
  <2>2. \A c \in DOMAIN process : process'[c] = process[c]
    BY <1>4, <2>1, PairingAssumption DEF getProcess
  <2>. QED
    BY <1>3, <1>4, <2>2 DEF getProcess
<1>5. ASSUME NEW r \in Clients,
             (\E code \in Codes : Post(r, code)) \/ Lookup(r) \/ Fail(r) \/ Rollback(r) \/ Notify(r)
      PROVE  MInv'
  <2>. DEFINE Away(x) == /\ request' = [request EXCEPT ![r] = x] /\ pairs' = pairs
                         /\ x.conflict = FALSE
                         /\ x.step \notin {"device", "save", "bonus", "commit"}
  <2>1. \E x \in Request : Away(x)
    <3>1. CASE \E code \in Codes : Post(r, code)
      <4>1. PICK code \in Codes : Post(r, code)
        BY <3>1
      <4>. DEFINE x == [request[r] EXCEPT !.step = "lookup", !.code = code]
      <4>2. request' = [request EXCEPT ![r] = x] /\ pairs' = pairs
        BY <1>1, <4>1 DEF Post
      <4>3. x \in Request /\ x.conflict = FALSE /\ x.step = "lookup"
        BY <1>1 DEF Request
      <4>. QED
        BY <4>2, <4>3
    <3>2. ASSUME NEW step \in {"player", "rollback"}, Goto(r, step), pairs' = pairs
          PROVE  \E x \in Request : Away(x)
      <4>. DEFINE x == [request[r] EXCEPT !.step = step]
      <4>1. request' = [request EXCEPT ![r] = x]
        BY <1>1, <3>2 DEF Goto
      <4>2. x \in Request /\ x.conflict = FALSE /\ x.step = step
        BY <1>1 DEF Request
      <4>. QED
        BY <3>2, <4>1, <4>2
    <3>3. ASSUME request' = [request EXCEPT ![r] = Idle], pairs' = pairs
          PROVE  \E x \in Request : Away(x)
      <4>1. Idle \in Request /\ Idle.conflict = FALSE /\ Idle.step = "idle"
        BY DEF Idle, Request
      <4>. QED
        BY <3>3, <4>1
    <3>. QED
      BY <1>5, <3>1, <3>2, <3>3 DEF Lookup, Fail, Rollback, Notify
  <2>2. \A c \in DOMAIN process : process'[c].DiscordID = process[c].DiscordID
    <3>1. \A c \in DOMAIN process :
              process[c] \in [DiscordID : Players, Expires : Nat, Completed : BOOLEAN]
      BY DEF IInv, TypeOK
    <3>2. CASE Notify(r)
      BY <3>1, <3>2 DEF Notify
    <3>3. CASE process' = process
      BY <3>3
    <3>. QED
      BY <1>5, <3>2, <3>3 DEF Post, Lookup, Fail, Rollback
  <2>. QED
    BY <1>1, <1>2, <2>1, <2>2, MInvRequest
<1>6. ASSUME NEW r \in Clients, Bonus(r)
      PROVE  MInv'
  <2>. DEFINE due == bonuses[PlayerOf(r)].PAIR_BONUS = 0
              x == [request[r] EXCEPT !.step = "commit", !.bonus = due]
  <2>1. /\ request' = [request EXCEPT ![r] = x] /\ UNCHANGED <<pairs, process>>
        /\ request[r].step = "bonus"
    BY <1>1, <1>6 DEF Bonus
  <2>. HIDE DEF due
  <2>2. /\ x.step = "commit" /\ x.code = request[r].code /\ x.conflict = request[r].conflict
        /\ x.deleted = request[r].deleted
    BY <1>1 DEF Request
  <2>. HIDE DEF x
  <2>3. Elsewhere(r)' = Elsewhere(r) /\ \A p \in Elsewhere(r) : p.DiscordID \in x.deleted
    BY <1>1, <2>1, <2>2 DEF Elsewhere, PlayerOf, MInv, DeletedElsewhere
  <2>. QED
    BY <1>1, <2>1, <2>2, <2>3, MInvRequest
<1>7. CASE \/ \E d \in Players : NewSession(d)
           \/ Tick \/ UNCHANGED vars
  BY <1>3, <1>7 DEF NewSession, Tick, vars
<1>. QED
  BY <1>4, <1>5, <1>6, <1>7, MInvDeletePlayer, MInvDeleteDevice, MInvSave, MInvCommit
  DEF Next, Statements

\* If a phone has one request at a time, TryCreateConnection never runs into
\* the constraint on api_key: the pair that the phone had with another account
\* is deleted, by the request or by who replaced it.
THEOREM PhonesMove ==
    ASSUME OneRequestAtATime
    PROVE  Spec => []PhonesCanMove
<1>1. IInv /\ MInv /\ [Next]_vars => MInv'
  BY MInvStep
<1>2. MInv => PhonesCanMove
  BY DEF MInv
<1>. QED
  BY <1>1, <1>2, MInvInit, Invariant, PTL DEF Spec
=============================================================================

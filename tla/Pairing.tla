------------------------------ MODULE Pairing ------------------------------
(***************************************************************************)
(* Linking a phone to an account of the game: posplay/auth.go, which keeps *)
(* the codes it shows on the website in two maps under a mutex, with the   *)
(* API handler that presents a code (resource/pairconnection.go) and the   *)
(* rows it writes (types/pp_pair.go).                                      *)
(*                                                                         *)
(* TryCreateConnection holds the mutex while it runs its statements, in a  *)
(* transaction that its caller commits once the mutex is free: a request   *)
(* can hold the mutex and wait for the rows of another. A transaction is   *)
(* READ COMMITTED. The rows that the server caches are read as they are in *)
(* the database.                                                           *)
(***************************************************************************)
EXTENDS Naturals, FiniteSets, Sequences

CONSTANTS Players,               \* Discord users
          Clients,               \* what handles the requests of each phone
          Device,                \* the API key of each
          Drawn,                 \* the codes in the order they are drawn, bounded
                                 \* (six of 29 characters: none is drawn again)
          PairProcessLongevity,
          Failing,               \* whether statements can fail
          MaxTime                \* bound on the clock

NoOne == "no one"

ASSUME PairingAssumption ==
    /\ PairProcessLongevity \in Nat /\ MaxTime \in Nat
    /\ Failing \in BOOLEAN
    /\ NoOne \notin Clients
    /\ DOMAIN Drawn = 1..Len(Drawn) /\ Len(Drawn) \in Nat
    /\ \A i, j \in DOMAIN Drawn : Drawn[i] = Drawn[j] => i = j

Codes == {Drawn[i] : i \in DOMAIN Drawn}

Devices == {Device[r] : r \in Clients}

VARIABLES now,
          joined,            \* table pp_player
          bonuses,           \* rows of table pp_xp_tx: how many of each player and type
          pairs,             \* table pp_pair
          process,           \* the pairProcess objects, by code
          processesByID, processesByCode,
          mu,                \* who holds the mutex of the handler
          request            \* what each client's handler is doing

vars == <<now, joined, bonuses, pairs, process, processesByID, processesByCode, mu, request>>

PPPair == [DiscordID : Players, Key : Devices]

\* A request: the code presented, what its transaction has deleted and saved.
Request == [step : {"idle", "lookup", "player", "device", "save", "bonus",
                    "commit", "notify", "rollback"},
            code : Codes \cup {NoOne},
            existingPair : SUBSET PPPair,
            deleted : SUBSET Players, saved : SUBSET PPPair, bonus : BOOLEAN,
            conflict : BOOLEAN]

Idle == [step |-> "idle", code |-> NoOne, existingPair |-> {}, deleted |-> {},
         saved |-> {}, bonus |-> FALSE, conflict |-> FALSE]

Init ==
    /\ now = 0
    /\ joined = {}
    /\ bonuses = [d \in Players |-> [SIGNUP_BONUS |-> 0, PAIR_BONUS |-> 0]]
    /\ pairs = {}
    /\ process = <<>>
    /\ processesByID = [d \in Players |-> NoOne]
    /\ processesByCode = {}
    /\ mu = NoOne
    /\ request = [r \in Clients |-> Idle]

-----------------------------------------------------------------------------
(***************************************************************************)
(* The website.                                                            *)
(***************************************************************************)
\* NewSession: who logs in for the first time joins.
NewSession(d) ==
    /\ d \notin joined
    /\ joined' = joined \cup {d}
    /\ bonuses' = [bonuses EXCEPT ![d].SIGNUP_BONUS = @ + 1]
    /\ UNCHANGED <<now, pairs, process, processesByID, processesByCode, mu, request>>

Expired(c) == now > process[c].Expires

Forgotten(c) ==
    Expired(c) /\ (process[c].Completed => now > process[c].Expires + PairProcessLongevity)

\* The keys of the map are codes as drawn; those of pairProcess.Code are in
\* capitals with a space: none is a key.
NiceCode(c) == [nice |-> c]

RemainingByCode ==
    processesByCode \ {NiceCode(processesByID[d]) :
        d \in {d \in Players : processesByID[d] # NoOne /\ Expired(processesByID[d])}}

RemainingByID ==
    [d \in Players |->
        IF processesByID[d] # NoOne /\ Forgotten(processesByID[d]) THEN NoOne ELSE processesByID[d]]

\* The player has a process that is on, or completed and not forgotten.
HasProcess(d) ==
    LET c == RemainingByID[d]
    IN  c # NoOne /\ (~Expired(c) \/ process[c].Completed)

\* getProcess, for the pages of a player who is logged in.
getProcess(d) ==
    /\ mu = NoOne
    /\ d \in joined
    /\ \/ /\ HasProcess(d)
          /\ processesByID' = RemainingByID
          /\ processesByCode' = RemainingByCode
          /\ process' = process
       \/ /\ ~HasProcess(d)
          /\ Cardinality(DOMAIN process) < Len(Drawn)
          /\ LET c == Drawn[Cardinality(DOMAIN process) + 1]
             IN /\ process' = [x \in DOMAIN process \cup {c} |->
                       IF x = c THEN [DiscordID |-> d, Expires |-> now + PairProcessLongevity,
                                      Completed |-> FALSE]
                       ELSE process[x]]
                /\ processesByID' = [RemainingByID EXCEPT ![d] = c]
                /\ processesByCode' = RemainingByCode \cup {c}
    /\ UNCHANGED <<now, joined, bonuses, pairs, mu, request>>

-----------------------------------------------------------------------------
(***************************************************************************)
(* A phone presents a code: PairConnection.Post and TryCreateConnection.   *)
(***************************************************************************)
Goto(r, step) == request' = [request EXCEPT ![r].step = step]

Post(r, code) ==
    /\ request[r].step = "idle"
    /\ request' = [request EXCEPT ![r].step = "lookup", ![r].code = code]
    /\ UNCHANGED <<now, joined, bonuses, pairs, process, processesByID, processesByCode, mu>>

\* The player whose process the code is of.
PlayerOf(r) == process[request[r].code].DiscordID

Pending(code) == code \in RemainingByCode /\ ~process[code].Completed

\* Normalises the code and finds the process; 404 for one unknown or completed.
Lookup(r) ==
    /\ request[r].step = "lookup"
    /\ mu = NoOne
    /\ processesByID' = RemainingByID
    /\ processesByCode' = RemainingByCode
    /\ \/ /\ Pending(request[r].code)
          /\ mu' = r
          /\ Goto(r, "player")
       \/ /\ ~Pending(request[r].code)
          /\ mu' = mu
          /\ request' = [request EXCEPT ![r] = Idle]
    /\ UNCHANGED <<now, joined, bonuses, pairs, process>>

\* The rows that another transaction wrote and did not commit.
Open(r) == {q \in Clients \ {r} : request[q].step \in {"commit", "rollback"}}

PlayerLocked(r, d) ==
    \E q \in Open(r) : d \in request[q].deleted \cup {p.DiscordID : p \in request[q].saved}

DeviceLocked(r) == \E q \in Open(r) : \E p \in request[q].saved : p.Key = Device[r]

\* What the transaction sees of a pair.
Visible(r) == {p \in pairs : p.DiscordID \notin request[r].deleted}

\* GetPPPair and Delete for the player of the code, GetPPPairForKey for the phone.
DeletePlayer(r) ==
    LET d == PlayerOf(r)
        existing == {p \in pairs : p.DiscordID = d}
    IN  /\ request[r].step = "player"
        /\ existing # {} => ~PlayerLocked(r, d)
        /\ request' = [request EXCEPT ![r].step = "device",
               ![r].deleted = {p.DiscordID : p \in existing},
               ![r].existingPair = {p \in pairs \ existing : p.Key = Device[r]}]
        /\ UNCHANGED <<now, joined, bonuses, pairs, process, processesByID, processesByCode, mu>>

KeepExisting(r) ==                                                   \* (mutant)
    /\ request[r].step = "device"
    /\ Goto(r, "save")
    /\ UNCHANGED <<now, joined, bonuses, pairs, process, processesByID, processesByCode, mu>>

\* Deletes the pair found for the phone, by its player. If that row has been
\* replaced since, the statement sees the new one only if it began later.
DeleteDevice(r) ==
    LET found == {p.DiscordID : p \in request[r].existingPair}
        replaced == request[r].existingPair \ pairs # {}
    IN  /\ request[r].step = "device"
        /\ \A d \in found : ~PlayerLocked(r, d)
        /\ \E deleted \in IF replaced THEN {{}, found} ELSE {found} :
               request' = [request EXCEPT ![r].step = "save", ![r].deleted = @ \cup deleted]
        /\ UNCHANGED <<now, joined, bonuses, pairs, process, processesByID, processesByCode, mu>>

\* PPPair.Update: an upsert by player. A pair of the phone with someone else
\* violates the constraint on api_key.
Save(r) ==
    LET d == PlayerOf(r)
    IN  /\ request[r].step = "save"
        /\ ~PlayerLocked(r, d) /\ ~DeviceLocked(r)
        /\ \/ /\ \A p \in Visible(r) : p.Key = Device[r] => p.DiscordID = d
              /\ request' = [request EXCEPT ![r].step = "bonus",
                     ![r].saved = {[DiscordID |-> d, Key |-> Device[r]]}]
              /\ mu' = mu
           \/ /\ \E p \in Visible(r) : p.Key = Device[r] /\ p.DiscordID # d
              /\ request' = [request EXCEPT ![r].step = "rollback", ![r].conflict = TRUE]
              /\ mu' = NoOne
        /\ UNCHANGED <<now, joined, bonuses, pairs, process, processesByID, processesByCode>>

BonusPerDevice(r) ==                                                 \* (mutant)
    /\ request[r].step = "bonus"
    /\ request' = [request EXCEPT ![r].step = "commit",
           ![r].bonus = ~\E p \in pairs : p.DiscordID = PlayerOf(r)]
    /\ mu' = NoOne
    /\ UNCHANGED <<now, joined, bonuses, pairs, process, processesByID, processesByCode>>

\* The XP for pairing, if there is no transaction of that type. The mutex is
\* released with the rows still locked.
Bonus(r) ==
    /\ request[r].step = "bonus"
    /\ request' = [request EXCEPT ![r].step = "commit",
           ![r].bonus = bonuses[PlayerOf(r)].PAIR_BONUS = 0]
    /\ mu' = NoOne
    /\ UNCHANGED <<now, joined, bonuses, pairs, process, processesByID, processesByCode>>

Saved(r) ==
    /\ pairs' = {p \in Visible(r) : \A s \in request[r].saved : s.DiscordID # p.DiscordID}
                    \cup request[r].saved
    /\ bonuses' = [bonuses EXCEPT ![PlayerOf(r)].PAIR_BONUS = @ + IF request[r].bonus THEN 1 ELSE 0]
    /\ Goto(r, "notify")
    /\ UNCHANGED <<now, joined, process, processesByID, processesByCode, mu>>

CommitInMutex(r) == request[r].step = "commit" /\ mu = NoOne /\ Saved(r)      \* (mutant)

Commit(r) == request[r].step = "commit" /\ Saved(r)

\* What was deferred to the commit: the process is completed, users are told.
Notify(r) ==
    /\ request[r].step = "notify"
    /\ process' = [process EXCEPT ![request[r].code].Completed = TRUE]
    /\ request' = [request EXCEPT ![r] = Idle]
    /\ UNCHANGED <<now, joined, bonuses, pairs, processesByID, processesByCode, mu>>

\* A statement or the commit fails; Post rolls back after TryCreateConnection
\* has released the mutex.
Fail(r) ==
    /\ Failing
    /\ request[r].step \in {"player", "device", "save", "bonus", "commit"}
    /\ mu' = IF mu = r THEN NoOne ELSE mu
    /\ Goto(r, "rollback")
    /\ UNCHANGED <<now, joined, bonuses, pairs, process, processesByID, processesByCode>>

Rollback(r) ==
    /\ request[r].step = "rollback"
    /\ request' = [request EXCEPT ![r] = Idle]
    /\ UNCHANGED <<now, joined, bonuses, pairs, process, processesByID, processesByCode, mu>>

Statements(r) ==
    \/ DeletePlayer(r) \/ DeleteDevice(r) \/ Save(r) \/ Bonus(r)
    \/ Commit(r) \/ Notify(r) \/ Rollback(r)

Tick ==
    /\ now < MaxTime
    /\ now' = now + 1
    /\ UNCHANGED <<joined, bonuses, pairs, process, processesByID, processesByCode, mu, request>>

Next ==
    \/ \E d \in Players : NewSession(d) \/ getProcess(d)
    \/ \E r \in Clients :
           \/ \E code \in Codes : Post(r, code)
           \/ Lookup(r) \/ Statements(r) \/ Fail(r)
    \/ Tick

Spec == Init /\ [][Next]_vars

\* A mutex that is waited for long enough goes to who waits (sync.Mutex).
FairSpec ==
    /\ Spec
    /\ \A r \in Clients : WF_vars(Statements(r)) /\ SF_vars(Lookup(r))

-----------------------------------------------------------------------------
TypeOK ==
    /\ now \in 0..MaxTime
    /\ joined \subseteq Players
    /\ bonuses \in [Players -> [SIGNUP_BONUS : Nat, PAIR_BONUS : Nat]]
    /\ pairs \subseteq PPPair
    /\ DOMAIN process \subseteq Codes
    /\ \A c \in DOMAIN process :
           process[c] \in [DiscordID : Players, Expires : Nat, Completed : BOOLEAN]
    /\ processesByID \in [Players -> Codes \cup {NoOne}]
    /\ processesByCode \subseteq Codes
    /\ mu \in Clients \cup {NoOne}
    /\ request \in [Clients -> Request]

\* However requests that present codes overlap, also two with the same code
\* that both found it not completed, a player gets the XP for pairing once:
\* the second waits for the row of the first before it looks for the XP.
BonusOnce == \A d \in Players : bonuses[d].PAIR_BONUS <= 1

\* A phone that has one request at a time can always move to the account of the
\* code that it presents: the pair it had is deleted first, so that api_key
\* stays unique, whatever other phones do with the accounts meanwhile.
PhonesCanMove == \A r \in Clients : ~request[r].conflict

\* The mutex is held while waiting for rows, and the rows while the mutex is
\* needed by others: still every request is answered.
RequestsReturn == \A r \in Clients : request[r].step # "idle" ~> request[r].step = "idle"
=============================================================================

------------------------------ MODULE Gateway ------------------------------
(***************************************************************************)
(* The MQTT gateway: mqttgateway/gateway.go, with what it publishes        *)
(* (vehicleeta.go, vehiclepos.go). Its callbacks run in goroutines of the  *)
(* broker's, the loop that publishes and that closes idle clients in       *)
(* another. What it publishes does not change its state (see Arrivals).    *)
(*                                                                         *)
(* The broker (github.com/gbl08ma/gmqtt) is external: it calls OnClose     *)
(* some time after a client is closed or goes away, and forgets its        *)
(* subscriptions. Start and Stop of the gateway are not modelled.          *)
(***************************************************************************)
EXTENDS Activity

CONSTANTS Clients,               \* a reporter each, for what it publishes
          Kind,                  \* "ws", "pair", or "stranger" with a bad password
          UserOf,                \* the API key of a pair
          Web,                   \* reporters of the HTTP server
          Topics,                \* bound on the topics that clients ask for
          Availabilities,        \* of "all", "dev" and "none", which arrivals are for
          IdleAfter              \* 30 seconds

ASSUME GatewayAssumption ==
    /\ Reporters = Web \cup {c \in Clients : Kind[c] = "pair"}
    /\ Kind \in [Clients -> {"ws", "pair", "stranger"}]
    /\ UserOf \in [Clients -> Users]
    /\ Topics \subseteq [dev : BOOLEAN, encoding : {"json", "msgpack"},
                         of : {"vehiclepos", "vehicleeta"}]
    /\ Availabilities \subseteq {"all", "dev", "none"}
    /\ IdleAfter \in Nat

VARIABLES session,               \* each client's connection
          subscriptions,
          etaAvailability,
          checking               \* the clients that the loop still has to look at

gatewayVars == <<session, subscriptions, etaAvailability, checking>>

allVars == <<activityVars, gatewayVars>>

\* age: the time since it connected, up to one more than IdleAfter.
Session == [is : {"away", "open", "closing"}, age : 0..(IdleAfter + 1)]

Away == [is |-> "away", age |-> 0]
Closing == [is |-> "closing", age |-> 0]

GatewayInit ==
    /\ ActivityInit
    /\ session = [c \in Clients |-> Away]
    /\ subscriptions = [c \in Clients |-> {}]
    /\ etaAvailability = "all"
    /\ checking = {}

\* The program ends, which disconnects all, and starts again.
GatewayRestart ==
    /\ ActivityRestart
    /\ session' = [c \in Clients |-> Away]
    /\ subscriptions' = [c \in Clients |-> {}]
    /\ etaAvailability' = "all"
    /\ checking' = {}

-----------------------------------------------------------------------------
\* handleOnConnect: a client with a bad password is refused, and closed.
OnConnect(c) ==
    /\ session[c].is = "away"
    /\ session' = [session EXCEPT ![c] = IF Kind[c] = "stranger" THEN Closing ELSE [Away EXCEPT !.is = "open"]]
    /\ UNCHANGED <<activityVars, subscriptions, etaAvailability, checking>>

ClientGoesAway(c) ==
    /\ session[c].is = "open"
    /\ session' = [session EXCEPT ![c] = Closing]
    /\ UNCHANGED <<activityVars, subscriptions, etaAvailability, checking>>

OnClose(c) ==
    /\ session[c].is = "closing"
    /\ session' = [session EXCEPT ![c] = Away]
    /\ subscriptions' = [subscriptions EXCEPT ![c] = {}]
    /\ UNCHANGED <<activityVars, etaAvailability, checking>>

\* handleOnSubscribe: positions are for all who encode them as they are
\* published, arrivals depend on etaAvailability.
Accepts(c, t) ==
    IF t.of = "vehiclepos" THEN t.dev => t.encoding = "msgpack"
    ELSE \/ /\ etaAvailability = "all"
            /\ t.encoding = IF Kind[c] = "ws" THEN "json" ELSE "msgpack"
         \/ /\ etaAvailability = "dev"
            /\ Kind[c] # "ws"
            /\ t.dev /\ t.encoding = "msgpack"

OnSubscribe(c, t) ==
    /\ session[c].is = "open"
    /\ Accepts(c, t)
    /\ subscriptions' = [subscriptions EXCEPT ![c] = @ \cup {t}]
    /\ UNCHANGED <<activityVars, session, etaAvailability, checking>>

\* handleOnPublish and handleRealTimeLocationPublish.
OnPublish(c, station, justEntered) ==
    /\ session[c].is = "open"
    /\ \/ /\ Kind[c] = "pair"
          /\ BeginReport(c, UserOf[c], station, justEntered)
          /\ UNCHANGED session
       \/ /\ Kind[c] = "ws"
          /\ session' = [session EXCEPT ![c] = Closing]
          /\ UNCHANGED activityVars
    /\ UNCHANGED <<subscriptions, etaAvailability, checking>>

\* A topic that is not for locations.
OnPublishElsewhere(c) ==
    /\ session[c].is = "open"
    /\ session' = [session EXCEPT ![c] = Closing]
    /\ UNCHANGED <<activityVars, subscriptions, etaAvailability, checking>>

\* Realtime.Post
PostLocation(r, u, station, justEntered) ==
    /\ BeginReport(r, u, station, justEntered)
    /\ UNCHANGED gatewayVars

Report(r) == RegisterActivity(r) /\ UNCHANGED gatewayVars

\* HandleControlCommand
SetETAAvailability(availability) ==
    /\ etaAvailability # availability
    /\ etaAvailability' = availability
    /\ UNCHANGED <<activityVars, session, subscriptions, checking>>

\* The slow ticker: publishes the arrivals, and lists the clients with the
\* times they connected; those that connected long ago are to be looked at.
LoopTick ==
    /\ checking = {}
    /\ checking' = {c \in Clients : session[c].is = "open" /\ session[c].age > IdleAfter}
    /\ checking' # {}
    /\ UNCHANGED <<activityVars, session, subscriptions, etaAvailability>>

LooksBusy(c) == subscriptions[c] # {}                                \* (mutant)

\* The present subscriptions of a client of the list.
LooksIdle(c) == subscriptions[c] = {}

\* Looks at a client of the list, which may have gone or connected again
\* since. A close of one that is being closed does nothing; one that has gone
\* is no client any more, and its close ends the program.
CheckClient ==
    \E c \in checking :
        \/ /\ session[c].is # "away"
           /\ checking' = checking \ {c}
           /\ session' = IF session[c].is = "open" /\ LooksIdle(c)
                         THEN [session EXCEPT ![c] = Closing] ELSE session
           /\ UNCHANGED <<activityVars, subscriptions, etaAvailability>>
        \/ /\ session[c].is = "away" /\ LooksIdle(c)
           /\ GatewayRestart

Older(age) == IF age <= IdleAfter THEN age + 1 ELSE age

GatewayTick ==
    /\ ActivityTick
    /\ session' = [c \in Clients |->
           IF session[c].is = "open" THEN [session[c] EXCEPT !.age = Older(@)] ELSE session[c]]
    /\ UNCHANGED <<subscriptions, etaAvailability, checking>>

GatewayNext ==
    \/ \E c \in Clients :
           \/ OnConnect(c) \/ ClientGoesAway(c) \/ OnClose(c)
           \/ OnPublishElsewhere(c)
           \/ \E t \in Topics : OnSubscribe(c, t)
           \/ \E s \in Stations, entered \in BOOLEAN : OnPublish(c, s, entered)
    \/ \E r \in Web, u \in Users, s \in Stations, entered \in BOOLEAN :
           PostLocation(r, u, s, entered)
    \/ \E r \in Reporters : Report(r)
    \/ \E a \in Availabilities : SetETAAvailability(a)
    \/ LoopTick \/ CheckClient \/ GatewayTick

GatewaySpec == GatewayInit /\ [][GatewayNext]_allVars

\* Time passes, reports go on, and the loop comes back: one that ends the
\* program comes back when it is started again, which is not this code's doing.
\* Clients need do nothing.
GatewayFairSpec ==
    /\ GatewaySpec
    /\ WF_allVars(GatewayTick) /\ WF_allVars(LoopTick) /\ WF_allVars(CheckClient)
    /\ \A c \in Clients : WF_allVars(OnClose(c))
    /\ \A r \in Reporters : WF_allVars(Report(r))

-----------------------------------------------------------------------------
\* A client that is connected and subscribes to nothing is disconnected, by
\* the loop or by the end of the program.
IdleLeave ==
    \A c \in Clients :
        session[c].is = "open" ~> session[c].is # "open" \/ subscriptions[c] # {}
=============================================================================

----------------------------- MODULE MCPosPlay ------------------------------
(***************************************************************************)
(* PosPlay for TLC: one player with one trip, and achievements for a first *)
(* trip, for confirming one, and for the level that a trip and the reward  *)
(* of the first achievement, or a trip and a message, lead to.             *)
(***************************************************************************)
EXTENDS PosPlay

CONSTANTS rita, ride, party, web, gateway

TripOf == [t \in Trips |-> rita]

TwoForATrip == [t \in Trips |-> 2]

ThreeAchievements == {"first trip", "first edit", "level one"}

TriggerOf == [a \in Achievements |->
    CASE a = "first trip" -> "trip"
      [] a = "first edit" -> "trip_edit"
      [] a = "level one" -> "level"]

LevelOf == [a \in Achievements |-> IF a = "level one" THEN 3 ELSE 0]

WorthOf == [a \in Achievements |-> IF a = "first edit" THEN 0 ELSE 1]
=============================================================================

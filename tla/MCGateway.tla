----------------------------- MODULE MCGateway ------------------------------
(***************************************************************************)
(* Gateway for TLC: a user whose phone reports over MQTT and by HTTP, at   *)
(* a station of two lines and at one of another; a browser.                *)
(***************************************************************************)
EXTENDS Gateway

CONSTANTS rita, phone, browser, web, green, blue, red

KindOf == [c \in Clients |-> CASE c = phone -> "pair" [] c = browser -> "ws"]

OneUser == [c \in Clients |-> rita]

TwoStations == {<<green, blue>>, <<red>>}

TwoTopics == {[dev |-> FALSE, encoding |-> e, of |-> "vehicleeta"] : e \in {"json", "msgpack"}}
=============================================================================
